CONSTANTS
    Threads = {s1, x1, x2}
    Workers = {}
    Exclusive = {x1, x2}
    Timed = {}
    s1 = s1
    x1 = x1
    x2 = x2
    NoThread = NoThread
    MaxCalls = 1
SPECIFICATION Spec
INVARIANTS
    ExclusiveAlone
\* The callers may stop calling for good.
CHECK_DEADLOCK FALSE
