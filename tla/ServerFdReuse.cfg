CONSTANTS
    LoopCounts = {2}
    Workers = FALSE
    Limits = {0}
    MaxConns = 2
    MaxRequests = 0
SPECIFICATION Spec
INVARIANTS
    OwnThreadOnly
CHECK_DEADLOCK FALSE
