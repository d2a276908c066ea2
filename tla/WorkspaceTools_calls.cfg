SPECIFICATION Spec
CONSTANTS
    NumPaths = 3
    Protected = {2}
    Sizes = {1, 4}
    OutputLimit = 3
    MaxExcerpt = 2
    MaxRetained = 2
    MaxTotal = 3
    MaxSteps = 2
    MaxCalls = 3
    MaxFaults = 1
INVARIANTS EvidenceIsCurrent ChangedIsLogged
PROPERTIES RefusedTouchesNothing
CHECK_DEADLOCK FALSE
