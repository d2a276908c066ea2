SPECIFICATION Spec
CONSTANTS
    Jobs = {"benchmark", "persistence"}
    Observations = 2
    MaxValidations = 2
INVARIANTS MissingResultIsNotPass MismatchIsObserved
CHECK_DEADLOCK FALSE
