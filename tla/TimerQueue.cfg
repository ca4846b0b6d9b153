CONSTANTS
    MaxTimers = 2
    MaxTime = 2
    Delays = {0, 1}
    Intervals = {0, 1}
    MaxOps = 2
SPECIFICATION FairTimerSpec
INVARIANTS
    TimersAreConsistent
    NoOversleep
PROPERTIES
    InDueOrder
    DueFires
CHECK_DEADLOCK FALSE
