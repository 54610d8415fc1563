SPECIFICATION Spec
CONSTANTS
    Images = {i1}
    Cleaners = {c1}
    Optimisers = {o1, o2}
    Reconcilers = {r1, r2}
    LateSubmissions = FALSE
    MaxStamp = 3
    MaxFaults = 2
SYMMETRY EvidenceSymmetry
INVARIANTS
    TypeOK
    EvidenceIsStored
    TombstonesMatchRows
    ObjectsAccountedFor
CHECK_DEADLOCK FALSE
