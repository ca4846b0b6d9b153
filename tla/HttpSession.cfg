CONSTANTS
    CR = "CR"
    LF = "LF"
    Filler = "x"
    MaxHeaderBytes = 10
    MaxBodyBytes = 1
    Streams <- MCStreams
    WorkerCounts = {0, 2}
SPECIFICATION FairSpec
INVARIANTS
    FragmentsDoNotMatter
    AnswersMatchRequests
PROPERTIES
    RequestsAreAnswered
CHECK_DEADLOCK FALSE
