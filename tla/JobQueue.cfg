SPECIFICATION FairSpec
CONSTANTS
    Jobs = {j1}
    Requests = {r1, r2}
    Futures = {f1, f2, f3}
    NoFuture = NoFuture
    NoJob = NoJob
    Kinds = {"node", "server", "pull", "push"}
    MaxPosts = 2
    MaxUses = 1
    MaxFaults = 1
INVARIANTS
    TypeOK
    
    EndIsTold
    
    EndpointClosed
PROPERTIES
    PhaseOrder
    
CHECK_DEADLOCK FALSE
