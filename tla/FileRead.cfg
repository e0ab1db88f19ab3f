CONSTANTS
    Clients = {c1, c2}
    Readers = {t1}
    NoThread = NoThread
    N = 4
    Continue = 0
    Failing = TRUE
    Timed = {c1, c2}
    MaxCalls = 2
    c1 = c1
    c2 = c2
    t1 = t1
SYMMETRY Symmetry
SPECIFICATION Spec
INVARIANTS
    TypeOK
    MarkedWritten
    WaiterHasThread
PROPERTIES
    ReadsData
\* The callers may stop calling for good.
CHECK_DEADLOCK FALSE
