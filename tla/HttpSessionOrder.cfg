CONSTANTS
    CR = "CR"
    LF = "LF"
    Filler = "x"
    MaxHeaderBytes = 10
    MaxBodyBytes = 1
    Streams <- MCStreams
    WorkerCounts = {1}
SPECIFICATION Spec
INVARIANTS
    ResponsesInOrder
CHECK_DEADLOCK FALSE
