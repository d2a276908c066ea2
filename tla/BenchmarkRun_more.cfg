SPECIFICATION Spec
CONSTANTS
    Cells = {c1, c2}
    Target = 2
    MaxAttempts = 3
    Reservation = 1
    SessionCap = 2
    Preserve = FALSE
    MaxDispatches = 2
    MaxSessions = 3
    None = None
INVARIANTS IInv TypeOK RecordedOnce CompletedIsDecided ActiveIsNext
PROPERTIES HistoryGrows
CHECK_DEADLOCK FALSE
