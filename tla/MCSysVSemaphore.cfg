SPECIFICATION FairSpec
CONSTANTS
    p1 = p1
    p2 = p2
    p3 = p3
    Procs = {p1, p2, p3}
    initval = 1
    BIGCOUNT = 5
    MaxSets = 2
INVARIANTS
    LockExclusive
    CounterExact
    UnitsConserved
    CreatedHandleAlive
PROPERTY
    LockReleased
CHECK_DEADLOCK FALSE
