CONSTANTS
    Producers = {main, w1, w2}
    Owner = main
    MaxPosts = 1
    MaxSelf = 1
    TimerOn = FALSE
SPECIFICATION FairThreadSpec
INVARIANTS
    LoopOutlivesPosts
    WakeupsArrive
PROPERTIES
    ImplementsMailbox
    PostedIsRun
    JoinAfterQuit
CHECK_DEADLOCK FALSE
