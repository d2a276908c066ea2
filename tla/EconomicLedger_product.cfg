SPECIFICATION Spec
CONSTANTS
    Attempts = {a1, a2}
    Prices = {1, 2}
    GlobalCeilings = {3, 4}
    AttemptCeilings = {1, 2}
    AllowReissue = TRUE
    MaxRequests = 2
    MaxTurns = 2
    MaxFaults = 1
    MaxCrashes = 1
    None = None
INVARIANTS ChargesAreCovered SentIsDurable ReleasedWasNotSent
PROPERTIES FollowsLedger
CHECK_DEADLOCK FALSE
