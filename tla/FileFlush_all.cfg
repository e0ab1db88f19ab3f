CONSTANTS
    Threads = {t1, t2}
    Workers = {w1}
    Wrappers = {h1, h2}
    FirstOpen = {h1}
    t1 = t1
    t2 = t2
    w1 = w1
    h1 = h1
    h2 = h2
    NoOne = NoOne
    Cached = FALSE
    Slow = TRUE
    Failing = TRUE
    Unlinking = TRUE
    FastWorker = TRUE
    MaxContent = 2
    MaxFlushes = 1
SPECIFICATION Spec
INVARIANTS
    CleanMeansSaved

    
    
\* The applications may stop making requests.
CHECK_DEADLOCK FALSE
