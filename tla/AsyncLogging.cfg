CONSTANTS
    Threads = {t1, t2}
    MaxLines = 4
    Cap = 2
    MaxFlush = 1
    RollSize = 2
    CheckEveryN = 2
    FlushInterval = 1
    RollPeriod = 1
    MaxTime = 2
    Nil = Nil
SPECIFICATION FairSpec
INVARIANTS
    LinesSurvive
    StoppedIsFlushed
    BytesSurviveRolls
    OldFileIsLeft
PROPERTIES
    LoggedIsFlushed
CHECK_DEADLOCK FALSE
