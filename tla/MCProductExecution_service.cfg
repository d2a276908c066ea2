SPECIFICATION FairSpec
CONSTANTS
    Execs <- MCExecs
    NoExec = NoExec
    MaxBoots = 1
    MaxFaults = 1
    e1 = e1
    e2 = e2
INVARIANTS RecordedSuccessIsBacked
PROPERTIES AnswersOnlyAdvance FollowsRegistry EveryEndIsRecorded ShutdownReturns
CHECK_DEADLOCK FALSE
