SPECIFICATION FairSpec
CONSTANTS
    t1 = t1
    t2 = t2
    t3 = t3
    t4 = t4
    NoThread = NoThread
    Threads = {t1, t2, t3, t4}
    InitialValue = 0
    MaxValue = 2
INVARIANTS
    NoLostWakeup
PROPERTIES
    UnitGetsTaken
    IsCountingSemaphore
CHECK_DEADLOCK FALSE
