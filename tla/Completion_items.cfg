SPECIFICATION Spec
CONSTANTS
    Contracts = {"items"}
    MaxSource = 2
    MaxBuilds = 2
    MidBuildEdits = FALSE
CHECK_DEADLOCK FALSE
INVARIANT FinishedIsComplete
