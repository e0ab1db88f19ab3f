CONSTANTS
    Names <- MCNames
    Ops <- MCOps
    Existing <- MCExisting
    Requests = {r1, r2}
    r1 = r1
    r2 = r2
    Retries = 2
    MaxLosses = 2
SPECIFICATION Spec
SYMMETRY Symmetry
INVARIANTS
    TypeOK
    RowsAgree
    
    
    ResolveEnds

    
\* Requests end.
CHECK_DEADLOCK FALSE
