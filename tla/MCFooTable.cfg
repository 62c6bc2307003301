SPECIFICATION MCFairSpec
CONSTANTS
    t1 = t1
    t2 = t2
    a = a
    b = b
    Threads = {t1, t2}
    Objs = {a, b}
    Ids = {1, 3}
    Refs = {1, 2, 3}
    NHASH = 2
    NoThread = NoThread
    NoObj = NoObj
    NoRef = NoRef
    NoId = NoId
INVARIANTS
    NoUseAfterFree
    FoundReady
PROPERTIES
    IsCountedObjects
    CallsReturn
CHECK_DEADLOCK FALSE
