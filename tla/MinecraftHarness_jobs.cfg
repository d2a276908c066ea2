SPECIFICATION Spec
CONSTANTS
    Jobs = {"product", "benchmark", "persistence"}
    Observations = 2
    MaxValidations = 1
INVARIANTS PassIsEarned RepairIsDue
PROPERTIES ReopenFollowsSave ValidationEnds
CHECK_DEADLOCK FALSE
