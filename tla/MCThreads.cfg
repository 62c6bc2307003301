SPECIFICATION ExampleSpec
CONSTANTS
    p1 = p1
    p2 = p2
    c1 = c1
    c2 = c2
    m1 = m1
    m2 = m2
    w1 = w1
    w2 = w2
    a = a
    b = b
    c = c
    Producers = {p1, p2}
    Consumers = {c1, c2}
    Msgs = {m1, m2}
    Threads = {w1, w2}
    Jobs = {a, b, c}
    NULL = NULL
    NoOne = NoOne
    NTHR = 2
    TNUM = 2
    LONG_MAX = 3
    x = 3
INVARIANTS
    CounterValue
    FoundStillQueued
    SortedResult
PROPERTIES
    MessageProcessed
    IsJobSequence
CHECK_DEADLOCK FALSE
