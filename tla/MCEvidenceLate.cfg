SPECIFICATION Spec
CONSTANTS
    Images = {i1}
    Cleaners = {c1}
    Optimisers = {o1, o2}
    Reconcilers = {r1, r2}
    LateSubmissions = TRUE
    MaxStamp = 3
    MaxFaults = 0
SYMMETRY EvidenceSymmetry
PROPERTY OnlyOrphansAreDeleted
CHECK_DEADLOCK FALSE
