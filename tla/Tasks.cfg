SPECIFICATION LifecycleSpec
CONSTANTS
    c1 = c1
    c2 = c2
    Parent = p
    Children <- TwoChildren
    Callers = {u1, u2}
    RequestIds = {k1}
    MaxReviewFixCycles = 1
    None = None
    MaxRequests <- Requests
    MaxJobs = 2
    MaxFixLoops = 1
    MaxFailures = 1
    MaxQuestions = 1
    MaxDisturbances = 1
    PatchedStatuses = {"merged"}
INVARIANTS ParentCompletes NoChildForgotten StuckParentHasCulprit MergedMeansMerged
SYMMETRY CallerSymmetry
CHECK_DEADLOCK FALSE
