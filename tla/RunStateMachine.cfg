SPECIFICATION RunSpec
CONSTANTS
    StateMachineEnabled = TRUE
    IncludeCrossReview = TRUE
    MaxRetries = 1
    MaxCycles = 2
    MaxCrashes = 1
    MaxFaults = 2
    MaxStalls = 1
    MaxRequests = 1
    MaxFindings = 1
    MaxCooldowns = 1
INVARIANTS
    NoRepeatedWork
PROPERTIES
    RunSettles
CHECK_DEADLOCK FALSE
