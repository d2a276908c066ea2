SPECIFICATION Spec
CONSTANTS
    Contracts = {"block", "items", "recipe"}
    MaxSource = 3
    MaxBuilds = 3
    MidBuildEdits = TRUE
CHECK_DEADLOCK FALSE
INVARIANT HandedOutIsTested
