CONSTANTS
    Threads = {s1, s2, x1}
    Workers = {w1}
    Exclusive = {x1}
    Timed = {s1, x1}
    s1 = s1
    s2 = s2
    x1 = x1
    w1 = w1
    NoThread = NoThread
    MaxCalls = 2
SPECIFICATION FairSpec
INVARIANTS
    TypeOK
    NeverBothRecorded
    NoLostWakeup
    ReleaseSucceeds
PROPERTIES
    ImplementsRWLock
    AllReturn
\* The callers may stop calling for good.
CHECK_DEADLOCK FALSE
