\* An upload and a download of the same node.
SPECIFICATION Spec
CONSTANTS
    PushJobs = {p1}
    PullJobs = {g1}
    ImportJobs = {}
    Requests = {r1, r2}
    p1 = p1
    g1 = g1
    r1 = r1
    r2 = r2
    None = None
    MaxSize = 1
INVARIANTS CompletedAfterUse UploaderGetsEndpoint LoneUploadLength
\* All jobs may have ended and all requests may have been answered.
CHECK_DEADLOCK FALSE
