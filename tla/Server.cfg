CONSTANTS
    LoopCounts = {0, 1}
    Workers = TRUE
    Limits = {0, 1}
    MaxConns = 2
    MaxRequests = 1
SPECIFICATION FairSpec
INVARIANTS
    OwnersAgree
    Admission
    CleanExit
PROPERTIES
    ShutdownEnds
CHECK_DEADLOCK FALSE
