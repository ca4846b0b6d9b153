CONSTANTS
    SndBuf = 2
    MaxPromise = 4
    MaxRequests = 2
    IdleOn = TRUE
SPECIFICATION FairSpec
INVARIANTS
    WireInOrder
    UnsentIsAwaited
    NoLostEdge
    HoldsWhatItNeeds
PROPERTIES
    HalfCloseWhenFlushed
    ImplementsByteStream
    PromisesAreKept
CHECK_DEADLOCK FALSE
