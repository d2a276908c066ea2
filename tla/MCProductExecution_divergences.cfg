SPECIFICATION Spec
CONSTANTS
    Execs <- MCExecs
    NoExec = NoExec
    MaxBoots = 1
    MaxFaults = 1
    e1 = e1
    e2 = e2

INVARIANTS RestartReconstructsTerminalRuns SettledIsNotRunning
CHECK_DEADLOCK FALSE
