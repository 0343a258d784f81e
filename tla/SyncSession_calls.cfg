\* Calls one at a time, and overlapping.
SPECIFICATION FairSpec
CONSTANTS
  Threads = {a, b}
  Client = c
  Sessions = {s1, s2}
  Waits = {w1}
  Policy = "AfterChangesUploaded"
  Errors = {"expired", "fatal", "info"}
  RacingErrors = {"auth", "denied"}
  Overlaps = {TRUE, FALSE}
  MaxCalls = 3
  MaxRacing = 2
  MaxCommits = 1
  None = None
  a = a
  b = b
  c = c
  s1 = s1
  s2 = s2
  w1 = w1
INVARIANTS
  TypeOK
  ReferenceKeepsOpenSerially
  CommitsAnnounced
  LoggedOutQuiesces
  OneOpenSession
  AnsweredOnce
PROPERTIES
  UploadedBeforeEnd
 
  WaitsAnswered
CHECK_DEADLOCK FALSE
