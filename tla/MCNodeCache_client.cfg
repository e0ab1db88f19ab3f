CONSTANTS
    Threads = {t1, t2}
    Files = {f1, f2}
    Top = Top
    None = None
    t1 = t1
    t2 = t2
    f1 = f1
    f2 = f2
    MaxChanges = 2
SPECIFICATION Spec
INVARIANTS
    CleanFetchCurrent
    OwnEntryCurrent
SYMMETRY Symmetry
