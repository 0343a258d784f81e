\* One callback of each kind of collection, four changes, two runs of the notifier.
SPECIFICATION Spec
CONSTANTS
  Kinds = {"list", "rows", "query", "sorted"}
  Swapped = {"rows", "sorted"}
  Size = 3
  MaxOps = 4
  MaxRuns = 2
INVARIANTS
  TypeOK
  ChangesLineUp
  MovesAreMoves
  ModificationsReported
  OldAndNewAgree
CHECK_DEADLOCK FALSE
