SPECIFICATION Spec
CONSTANTS
    Slots = {s1}
    RecordIds = {r1, r2, r3}
    RequestIds = {q1, q2}
    Images = {i1, i2}
    Handlers = {h1, h2, h3, h4}
    Contents = {c1, c2}
    ImportableSlots = {s1}
    LegacyVersions = {2}
    MaxRequestVersion = 2
    None = None
SYMMETRY Identifiers
INVARIANTS
    TypeOK
    OneEffectiveRecord
    RevisionsFormChain
    ApprovedOnBaseline
    ConflictIsFinal
    EvidenceFollowsRecord
    NoticeMatchesDecision
PROPERTIES
    ConfirmationConsumesRequest
    HandlersAreAtomic
CHECK_DEADLOCK FALSE
