SPECIFICATION Spec
CONSTANTS
    MaxTurns = 2
    MaxCalls = 2
    MaxBuilds = 2
    MaxRuns = 2
    TargetValid = 1
    MaxCost = 1
    Budget = 3
    LocalIds = FALSE
INVARIANTS IInv Balanced TypeOK JudgedIsReported HonestRunIsValid
CHECK_DEADLOCK FALSE
