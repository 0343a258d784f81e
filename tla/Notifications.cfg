CONSTANTS
    n1 = n1
    n2 = n2
    c1 = c1
    c2 = c2
    Notifiers = {n1, n2}
    Callbacks = {c1, c2}
    Scopes <- MCScopes
    Uses = {}
    None = None
SPECIFICATION FairSpec
INVARIANTS
    TypeOK
    WriteStartsTold
    RunTogether
    AssertionsHold
PROPERTIES
    CallTellsAll
    WaitsEnd
    EverythingTold
