\* An incremental plan, as set-up creates it, and a worker that never fails.
CONSTANTS
    Keys = {k1}
    Workers = {w1}
    FirstMode = "INCREMENTAL"
    ModeEdits = FALSE
    MaxRuns = 2
    MaxTime = 4
    MaxDelay = 1
    MaxTakeovers = 0
    MaxFaults = 0
SPECIFICATION Spec
INVARIANTS BothModesWork
CHECK_DEADLOCK FALSE
