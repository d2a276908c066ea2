SPECIFICATION Spec
CONSTANTS
    Jobs = {"product", "benchmark", "persistence"}
    Observations = 2
    MaxValidations = 1
INVARIANTS IInv TypeOK
CHECK_DEADLOCK FALSE
