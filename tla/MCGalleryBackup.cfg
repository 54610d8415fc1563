\* Two workers, three runs, two object keys; one take-over and one fault.
CONSTANTS
    Keys = {k1, k2}
    Workers = {w1, w2}
    FirstMode = "FULL"
    ModeEdits = TRUE
    MaxRuns = 3
    MaxTime = 4
    MaxDelay = 1
    MaxTakeovers = 1
    MaxFaults = 1
SPECIFICATION Spec
INVARIANTS TypeOK SucceededIsStored ArtefactsAccountedFor RestoreMatchesGallery
SYMMETRY Symmetry
CHECK_DEADLOCK FALSE
