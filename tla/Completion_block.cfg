SPECIFICATION Spec
CONSTANTS
    Contracts = {"block"}
    MaxSource = 2
    MaxBuilds = 2
    MidBuildEdits = FALSE
CHECK_DEADLOCK FALSE
INVARIANT FinishedIsComplete
