\* A client's upload and a server-side import write to the same node.
SPECIFICATION FairSpec
CONSTANTS
    PushJobs = {p1}
    PullJobs = {}
    ImportJobs = {i1}
    Requests = {r1}
    p1 = p1
    i1 = i1
    r1 = r1
    None = None
    MaxSize = 1
INVARIANTS TypeOK BusyHasCause
PROPERTIES UploadEndsJob AskerAnswered
\* All jobs may have ended and all requests may have been answered.
CHECK_DEADLOCK FALSE
