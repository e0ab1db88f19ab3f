CONSTANTS
    Clients = {c1, c2}
    Readers = {t1}
    NoThread = NoThread
    N = 4
    Continue = 0
    Failing = FALSE
    Timed = {}
    MaxCalls = 2
    c1 = c1
    c2 = c2
    t1 = t1
SYMMETRY Symmetry
SPECIFICATION Spec
INVARIANTS
    MarkedAlways
\* The callers may stop calling for good.
CHECK_DEADLOCK FALSE
