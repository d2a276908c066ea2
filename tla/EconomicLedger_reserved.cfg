SPECIFICATION Spec
CONSTANTS
    Attempts = {a1}
    Prices = {1}
    GlobalCeilings = {3}
    AttemptCeilings = {3}
    AllowReissue = TRUE
    MaxRequests = 3
    MaxTurns = 2
    MaxFaults = 1
    MaxCrashes = 1
    None = None
INVARIANT ReservedIsOpenEntries
CHECK_DEADLOCK FALSE
