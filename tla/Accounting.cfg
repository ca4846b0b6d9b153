CONSTANTS
    Threads = {t1, t2}
    Bounds <- MCBounds
    NumClasses = 1
    NumMethods = 1
    MaxEvents = 2
    Rates = {0, 1}
    Bursts = {0}
    Nil = Nil
    MaxTime = 1
    MaxGrants = 2
SPECIFICATION Spec
SYMMETRY Alike
INVARIANTS
    NothingUncounted
    SnapshotIsOrdered
    LongRunRate
CHECK_DEADLOCK FALSE
