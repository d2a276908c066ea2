SPECIFICATION Spec
CONSTANTS
    Contracts = {"block", "items", "recipe"}
    MaxSource = 3
    MaxBuilds = 3
    MidBuildEdits = FALSE
INVARIANTS CompleteIsProved HandedOutIsTested ResolvedHasPass
CHECK_DEADLOCK FALSE
