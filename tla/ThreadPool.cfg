CONSTANTS
    Workers = {w1, w2}
    Submitters = {s1, s2}
    MaxSubmits = 2
    MaxStarts = 2
SPECIFICATION FairPoolSpec
INVARIANTS
    SleepersAreSpare
    DrainedOnExit
PROPERTIES
    PoolImplementsMailbox
    AcceptedIsRun
    StopReturns
CHECK_DEADLOCK FALSE
