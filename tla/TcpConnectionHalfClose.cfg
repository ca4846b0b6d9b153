CONSTANTS
    SndBuf = 1
    MaxPromise = 1
    MaxRequests = 1
    IdleOn = FALSE
SPECIFICATION FairSpec
PROPERTY HalfCloseHappens
CHECK_DEADLOCK FALSE
