SPECIFICATION Spec
CONSTANTS
    Attempts = {a1}
    Prices = {1}
    GlobalCeilings = {4}
    AttemptCeilings = {4}
    AllowReissue = TRUE
    MaxRequests = 3
    MaxTurns = 2
    MaxFaults = 1
    MaxCrashes = 1
    None = None
INVARIANTS TypeOK IInv
PROPERTIES FollowsLedger EntriesFollowRFC
CHECK_DEADLOCK FALSE
