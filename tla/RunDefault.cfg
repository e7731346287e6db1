SPECIFICATION RunSpec
CONSTANTS
    StateMachineEnabled = FALSE
    IncludeCrossReview = TRUE
    MaxRetries = 2
    MaxCycles = 2
    MaxCrashes = 1
    MaxFaults = 1
    MaxStalls = 0
    MaxRequests = 2
    MaxFindings = 1
    MaxCooldowns = 1
INVARIANTS
    InputsDelivered
CHECK_DEADLOCK FALSE
