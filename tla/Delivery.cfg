SPECIFICATION LifecycleSpec
CONSTANTS
    c1 = c1
    c2 = c2
    Parent = p
    Children <- TwoChildren
    Callers = {u1, u2}
    RequestIds = {k1}
    MaxReviewFixCycles = 1
    None = None
    MaxRequests <- OneRequest
    MaxJobs = 2
    MaxFixLoops = 0
    MaxFailures = 0
    MaxQuestions = 0
    MaxDisturbances = 0
    PatchedStatuses = {"merged"}
INVARIANT PipelineStatusAccepted
SYMMETRY CallerSymmetry
CHECK_DEADLOCK FALSE
