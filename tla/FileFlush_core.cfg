CONSTANTS
    Threads = {t1, t2}
    Workers = {w1, w2}
    Wrappers = {h1, h2}
    FirstOpen = {h1, h2}
    t1 = t1
    t2 = t2
    w1 = w1
    w2 = w2
    h1 = h1
    h2 = h2
    NoOne = NoOne
    Cached = TRUE
    Slow = FALSE
    Failing = FALSE
    Unlinking = TRUE
    FastWorker = FALSE
    MaxContent = 3
    MaxFlushes = 2
SPECIFICATION FairSpec
INVARIANTS
    TypeOK
    OpenIffUsed
PROPERTIES
    NothingLostAtClose
    FlushEnds
    WriteEnds
\* The applications may stop making requests.
CHECK_DEADLOCK FALSE
