SPECIFICATION Spec
CONSTANTS
    Contracts = {"block", "items", "recipe"}
    MaxSource = 3
    MaxBuilds = 3
    MidBuildEdits = FALSE
INVARIANTS IInv TypeOK HonestBlockCompletes
CHECK_DEADLOCK FALSE
