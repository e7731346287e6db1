SPECIFICATION EngineSpec
CONSTANTS
    a = a
    b = b
    c = c
    NoStep = NoStep
    AllSteps <- MCSteps
    Definitions <- MCDefinitions
    MaxParallel = 2
    MaxOrphans = 1
INVARIANTS
    EngineTypeOK
    DependenciesReady
    ResultsCoherent
    BatchAccounted
    NeverIncomplete
PROPERTIES
    SuccessIsFinal
    CallReturns
    ImplementsDagExecution
