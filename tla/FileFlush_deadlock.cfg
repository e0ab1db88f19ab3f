CONSTANTS
    Threads = {t1, t2}
    Workers = {w1}
    Wrappers = {h1}
    FirstOpen = {h1}
    t1 = t1
    t2 = t2
    w1 = w1
    h1 = h1
    NoOne = NoOne
    Cached = FALSE
    Slow = FALSE
    Failing = FALSE
    Unlinking = FALSE
    FastWorker = FALSE
    MaxContent = 2
    MaxFlushes = 2
SPECIFICATION FairSpec
PROPERTIES
    WriteEnds
\* The applications may stop making requests.
CHECK_DEADLOCK FALSE
