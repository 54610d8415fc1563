----------------------- MODULE QualificationRevision -----------------------
(***************************************************************************)
(* The formal qualification records of CrewQual and the update requests    *)
(* that change them.                                                       *)
(*                                                                         *)
(* A slot is one (pilot, qualification type) pair.  Five HTTP handlers     *)
(* write a new revision of a slot: the approval of a submitted request,    *)
(* the administrator's direct create and correct, the CSV import and the   *)
(* rollback to an earlier revision.  Every one of them reads the effective *)
(* record first, in a statement of its own, and writes later in a          *)
(* PostgreSQL transaction at READ COMMITTED, guarded by the identifier and *)
(* the version it read.  The partial unique indexes are the last line of   *)
(* defence.  A read is one action here, and the guarded writes of one      *)
(* transaction another: each guarded row stays locked from the moment its  *)
(* guard was evaluated to the commit, so all the guards hold together when *)
(* the transaction commits.  A handler may stop between any two steps      *)
(* (refused by a check, timed out, killed): Abandon.                       *)
(*                                                                         *)
(* Permissions, rate limits and the contents of a credential are           *)
(* abstracted: a Content stands for one set of credential fields that the  *)
(* rules of the qualification accept.                                      *)
(***************************************************************************)
EXTENDS Integers

CONSTANTS
    Slots,              \* (pilot, qualification type) pairs
    RecordIds,          \* identifiers of QualificationRecord rows
    RequestIds,         \* identifiers of QualificationUpdateRequest rows
    Images,             \* identifiers of EvidenceImage rows
    Handlers,           \* HTTP requests, each served once
    Contents,           \* credential fields that satisfy the rules
    ImportableSlots,    \* slots whose definition lets a CSV activate a record
    LegacyVersions,     \* versions that rows older than the lineages may carry
    MaxRequestVersion,  \* bound: no correction of a request beyond this version
    None                \* the SQL NULL of an identifier

ASSUME ConstantsAssumption ==
    /\ ImportableSlots \subseteq Slots
    /\ LegacyVersions \subseteq Nat \ {0}
    /\ MaxRequestVersion \in Nat
    /\ None \notin RecordIds \cup RequestIds
    /\ Contents # {}

VARIABLES
    records,    \* QualificationRecord: created identifiers -> rows
    requests,   \* QualificationUpdateRequest: created identifiers -> rows
    links,      \* QualificationEvidence rows
    imageStatus,\* EvidenceImage.status
    conflicts,  \* requests with a qualification.approval_conflict audit row
    outbox,     \* event keys given to emitPilotNotification
    ops         \* what each handler in flight has read so far

vars == <<records, requests, links, imageStatus, conflicts, outbox, ops>>
recordVars == <<records, links, imageStatus>>

-----------------------------------------------------------------------------
(* Rows and in-flight operations.                                          *)

MaybeRecord == RecordIds \cup {None}
MaybeRequest == RequestIds \cup {None}

Record ==
    [status: {"ACTIVE", "REPLACED"}, slot: Slots, version: Nat,
     lineage: RecordIds, revision: Nat, supersedes: MaybeRecord,
     restores: MaybeRecord, content: Contents,
     action: {"CONFIRM", "CORRECT_AND_CONFIRM", "ROLLBACK", "ADMIN_IMPORT"}]

\* What a handler remembers of the effective record: the identifier and the
\* version, or None and 0 where the slot has no effective record.
Base == [id: MaybeRecord, version: Nat]
NoBase == [id |-> None, version |-> 0]

Request ==
    [status: {"PENDING", "APPROVED", "RETURNED"}, slot: Slots, version: Nat,
     base: Base, captured: BOOLEAN, content: Contents, submitted: Contents,
     result: MaybeRecord]

Link == [image: Images, request: MaybeRequest, record: MaybeRecord]

OutboxKey ==
    [event: {"review-approved", "review-returned"},
     request: RequestIds, version: Nat]
    \cup [event: {"qualification-rollback"}, record: RecordIds]

\* A handler serves one HTTP request: it waits for it, then is done.
IdleOp == [kind |-> "idle"]
DoneOp == [kind |-> "done"]

Op ==
    {IdleOp, DoneOp}
    \cup [kind: {"submit"}, slot: Slots, base: Base, content: Contents,
          image: Images]
    \cup [kind: {"approve.read", "correct", "return"}, request: RequestIds,
          version: Nat, content: Contents]
    \cup [kind: {"approve.write"}, request: RequestIds, version: Nat,
          content: Contents, current: Base]
    \cup [kind: {"approve.conflict"}, request: RequestIds]
    \cup [kind: {"create", "patch", "import"}, slot: Slots, base: Base,
          content: Contents]
    \cup [kind: {"rollback"}, slot: Slots, base: Base, target: RecordIds,
          content: Contents, images: SUBSET Images]

TypeOK ==
    /\ DOMAIN records \subseteq RecordIds
    /\ records \in [DOMAIN records -> Record]
    /\ DOMAIN requests \subseteq RequestIds
    /\ requests \in [DOMAIN requests -> Request]
    /\ links \subseteq Link
    /\ imageStatus \in [Images -> {"orphaned", "linked", "retained"}]
    /\ conflicts \subseteq RequestIds
    /\ outbox \subseteq OutboxKey
    /\ ops \in [Handlers -> Op]

-----------------------------------------------------------------------------
(* Reads.                                                                  *)

ActiveIn(s) ==
    {r \in DOMAIN records : records[r].slot = s /\ records[r].status = "ACTIVE"}

\* findFirst on the ACTIVE rows of a slot, or nothing.
EffectiveBases(s) ==
    IF ActiveIn(s) = {} THEN {NoBase}
    ELSE {[id |-> r, version |-> records[r].version] : r \in ActiveIn(s)}

ImagesOf(r) == {l.image : l \in {k \in links : k.record = r}}

\* Mutant: the evidence of a request is looked up among the records.
ImagesOfNone(q) == ImagesOf(q)

ImagesOfRequest(q) == {l.image : l \in {k \in links : k.request = q}}

-----------------------------------------------------------------------------
(* Guarded writes.                                                         *)

\* updateMany ... where id, version, status ACTIVE matched exactly one row.
StillCurrent(base) ==
    base.id # None =>
        /\ base.id \in DOMAIN records
        /\ records[base.id].status = "ACTIVE"
        /\ records[base.id].version = base.version

\* Mutant: the unique index on the effective records is missing.
NoActiveIndex(s, base) == TRUE

\* Unique index QualificationRecord_one_active_per_pilot_type, evaluated
\* after the replaced row has left it.
ActiveIndexFree(s, base) == ActiveIn(s) \subseteq {base.id}

\* Unique index QualificationRecord (lineageId, revisionNumber).
RevisionIndexFree(lineage, revision) ==
    \A x \in DOMAIN records :
        ~(records[x].lineage = lineage /\ records[x].revision = revision)

\* Unique index QualificationUpdateRequest_pending_pilot_qualification_key.
PendingIndexFree(s) ==
    \A q \in DOMAIN requests :
        ~(requests[q].slot = s /\ requests[q].status = "PENDING")

\* The replacement of a row raises its version and starts the next one there.
NextVersion(base) == base.version + 1

\* The row that continues the lineage of base, or starts a lineage.
NextRevision(r, s, base, content, action, restores) ==
    [status |-> "ACTIVE", slot |-> s, version |-> NextVersion(base),
     lineage |-> IF base.id = None THEN r ELSE records[base.id].lineage,
     revision |-> IF base.id = None THEN 1
                  ELSE records[base.id].revision + 1,
     supersedes |-> base.id, restores |-> restores,
     content |-> content, action |-> action]

\* Mutant: the replaced row keeps its version.
SupersededInPlace(base, r, row) ==
    [x \in DOMAIN records \cup {r} |->
        IF x = r THEN row
        ELSE IF x = base.id THEN [records[x] EXCEPT !.status = "REPLACED"]
        ELSE records[x]]

\* The table after base is REPLACED and row is inserted under identifier r.
Superseded(base, r, row) ==
    [x \in DOMAIN records \cup {r} |->
        IF x = r THEN row
        ELSE IF x = base.id
             THEN [records[x] EXCEPT !.status = "REPLACED",
                                     !.version = @ + 1]
             ELSE records[x]]

\* Replace base by a fresh record r of slot s, all or nothing.
Revise(r, s, base, content, action, restores) ==
    /\ r \notin DOMAIN records
    /\ StillCurrent(base)
    /\ ActiveIndexFree(s, base)
    /\ LET row == NextRevision(r, s, base, content, action, restores)
       IN  /\ RevisionIndexFree(row.lineage, row.revision)
           /\ records' = Superseded(base, r, row)

Begin(h, op) ==
    /\ ops[h] = IdleOp
    /\ ops' = [ops EXCEPT ![h] = op]

End(h) == ops' = [ops EXCEPT ![h] = DoneOp]

-----------------------------------------------------------------------------
(* A member submits an update request.                                     *)

\* An image is evidence of one request only.
ImageFree(i) == imageStatus[i] = "orphaned"

\* The image must look free before the transaction; the transaction then
\* reads the effective record as the baseline of the request.
SubmitRead(h, s, i, c) ==
    /\ ImageFree(i)
    /\ \E b \in EffectiveBases(s) :
           Begin(h, [kind |-> "submit", slot |-> s, base |-> b,
                     content |-> c, image |-> i])
    /\ UNCHANGED <<recordVars, requests, conflicts, outbox>>

NewRequest(op) ==
    [status |-> "PENDING", slot |-> op.slot, version |-> 1, base |-> op.base,
     captured |-> TRUE, content |-> op.content, submitted |-> op.content,
     result |-> None]

\* The duplicate check, the claim of the image, the request and its link.
SubmitCommit(h, q) ==
    LET op == ops[h] IN
    /\ op.kind = "submit"
    /\ q \in RequestIds \ DOMAIN requests
    /\ PendingIndexFree(op.slot)
    /\ ImageFree(op.image)
    /\ imageStatus' = [imageStatus EXCEPT ![op.image] = "linked"]
    /\ requests' = [x \in DOMAIN requests \cup {q} |->
                       IF x = q THEN NewRequest(op) ELSE requests[x]]
    /\ links' = links \cup
                  {[image |-> op.image, request |-> q, record |-> None]}
    /\ End(h)
    /\ UNCHANGED <<records, conflicts, outbox>>

-----------------------------------------------------------------------------
(* An administrator decides or corrects a request.                         *)

RequestOp(kind, q) ==
    [kind |-> kind, request |-> q, version |-> requests[q].version,
     content |-> requests[q].content]

\* approveReview, first statement: the request and its checks.
ApproveReadRequest(h, q) ==
    /\ q \in DOMAIN requests
    /\ requests[q].status = "PENDING"
    /\ requests[q].captured
    /\ Begin(h, RequestOp("approve.read", q))
    /\ UNCHANGED <<recordVars, requests, conflicts, outbox>>

\* approveReview, second statement: the effective record, compared with the
\* baseline of the request.
ApproveReadCurrent(h) ==
    LET op == ops[h] IN
    /\ op.kind = "approve.read"
    /\ \E b \in EffectiveBases(requests[op.request].slot) :
           ops' = [ops EXCEPT ![h] =
                     IF b = requests[op.request].base
                     THEN [kind |-> "approve.write", request |-> op.request,
                           version |-> op.version, content |-> op.content,
                           current |-> b]
                     ELSE [kind |-> "approve.conflict",
                           request |-> op.request]]
    /\ UNCHANGED <<recordVars, requests, conflicts, outbox>>

\* Mutant: the claim does not look at the version.
StillPending(op) ==
    op.request \in DOMAIN requests /\ requests[op.request].status = "PENDING"

\* Mutant: the claim looks neither at the version nor at the status.
StillThere(op) == op.request \in DOMAIN requests

\* The guarded claim of a PENDING request at the version that was read.
RequestUnchanged(op) ==
    /\ op.request \in DOMAIN requests
    /\ requests[op.request].status = "PENDING"
    /\ requests[op.request].version = op.version

\* approveReview, the writes: claim, replace, create, decide, link the
\* evidence to the new record, retain the images, notify.
ApproveCommit(h, r) ==
    LET op == ops[h] IN
    /\ op.kind = "approve.write"
    /\ RequestUnchanged(op)
    /\ r \in RecordIds
    /\ Revise(r, requests[op.request].slot, op.current, op.content,
              "CONFIRM", None)
    /\ requests' = [requests EXCEPT ![op.request].status = "APPROVED",
                                    ![op.request].version = @ + 2,
                                    ![op.request].result = r]
    /\ links' = {IF l.request = op.request THEN [l EXCEPT !.record = r] ELSE l
                   : l \in links}
    /\ imageStatus' = [i \in Images |->
                         IF i \in ImagesOfRequest(op.request) THEN "retained"
                         ELSE imageStatus[i]]
    /\ outbox' = outbox \cup {[event |-> "review-approved",
                               request |-> op.request,
                               version |-> op.version]}
    /\ End(h)
    /\ UNCHANGED conflicts

\* Mutant: any write that is refused is recorded as a conflict.
ApproveRefused(h) ==
    /\ ops[h].kind = "approve.write"
    /\ ~RequestUnchanged(ops[h])
    /\ ops' = [ops EXCEPT ![h] = [kind |-> "approve.conflict",
                                  request |-> ops[h].request]]
    /\ UNCHANGED <<recordVars, requests, conflicts, outbox>>

\* The effective record moved after it was read: the guarded replacement or
\* the unique index refuses, and the transaction rolls back.
ApproveOvertaken(h) ==
    LET op == ops[h] IN
    /\ op.kind = "approve.write"
    /\ RequestUnchanged(op)
    /\ \/ ~StillCurrent(op.current)
       \/ ~ActiveIndexFree(requests[op.request].slot, op.current)
    /\ ops' = [ops EXCEPT ![h] = [kind |-> "approve.conflict",
                                  request |-> op.request]]
    /\ UNCHANGED <<recordVars, requests, conflicts, outbox>>

\* The audit row of a refused approval, written after the rollback.
ApproveAuditConflict(h) ==
    /\ ops[h].kind = "approve.conflict"
    /\ conflicts' = conflicts \cup {ops[h].request}
    /\ End(h)
    /\ UNCHANGED <<recordVars, requests, outbox>>

ReturnRead(h, q) ==
    /\ q \in DOMAIN requests
    /\ requests[q].status = "PENDING"
    /\ Begin(h, RequestOp("return", q))
    /\ UNCHANGED <<recordVars, requests, conflicts, outbox>>

ReturnCommit(h) ==
    LET op == ops[h] IN
    /\ op.kind = "return"
    /\ RequestUnchanged(op)
    /\ requests' = [requests EXCEPT ![op.request].status = "RETURNED",
                                    ![op.request].version = @ + 1]
    /\ outbox' = outbox \cup {[event |-> "review-returned",
                               request |-> op.request,
                               version |-> op.version]}
    /\ End(h)
    /\ UNCHANGED <<recordVars, conflicts>>

\* correctReview reads the request outside its transaction.
CorrectRead(h, q) ==
    /\ q \in DOMAIN requests
    /\ requests[q].status = "PENDING"
    /\ Begin(h, RequestOp("correct", q))
    /\ UNCHANGED <<recordVars, requests, conflicts, outbox>>

\* The corrected fields replace the columns and submittedFields alike.
CorrectCommit(h, c) ==
    LET op == ops[h] IN
    /\ op.kind = "correct"
    /\ c # op.content
    /\ RequestUnchanged(op)
    /\ op.version < MaxRequestVersion
    /\ requests' = [requests EXCEPT ![op.request].content = c,
                                    ![op.request].submitted = c,
                                    ![op.request].version = @ + 1]
    /\ End(h)
    /\ UNCHANGED <<recordVars, conflicts, outbox>>

-----------------------------------------------------------------------------
(* An administrator writes a record directly.                              *)

DirectRead(h, kind, s, c, b) ==
    /\ Begin(h, [kind |-> kind, slot |-> s, base |-> b, content |-> c])
    /\ UNCHANGED <<recordVars, requests, conflicts, outbox>>

\* POST: only where the slot has no effective record.
CreateRead(h, s, c) ==
    /\ ActiveIn(s) = {}
    /\ DirectRead(h, "create", s, c, NoBase)

\* PATCH: only where it has one.
PatchRead(h, s, c) ==
    /\ ActiveIn(s) # {}
    /\ \E b \in EffectiveBases(s) : DirectRead(h, "patch", s, c, b)

\* importPilotCsv, one qualification of one row.
ImportRead(h, s, c) ==
    /\ s \in ImportableSlots
    /\ \E b \in EffectiveBases(s) : DirectRead(h, "import", s, c, b)

\* Mutant: a direct correction passes for a confirmed request.
ConfirmedAction(kind) ==
    IF kind = "patch" THEN "CONFIRM" ELSE "ADMIN_IMPORT"

\* Mutant: the kind of the handler is stored as the action.
RawAction(kind) == kind

ActionOf(kind) ==
    IF kind = "patch" THEN "CORRECT_AND_CONFIRM" ELSE "ADMIN_IMPORT"

\* The evidence of the replaced record is not carried over.
DirectCommit(h, r) ==
    LET op == ops[h] IN
    /\ op.kind \in {"create", "patch", "import"}
    /\ r \in RecordIds
    /\ Revise(r, op.slot, op.base, op.content, ActionOf(op.kind), None)
    /\ End(h)
    /\ UNCHANGED <<requests, links, imageStatus, conflicts, outbox>>

\* The current record, the target revision and its evidence, all read
\* outside the transaction.  One action: a target that is not the current
\* record is a replaced revision, whose row and evidence no longer change.
RollbackRead(h, s, target) ==
    /\ target \in DOMAIN records
    /\ \E b \in EffectiveBases(s) :
           /\ b.id # None
           /\ target # b.id
           /\ records[target].lineage = records[b.id].lineage
           /\ records[target].slot = s
           /\ Begin(h, [kind |-> "rollback", slot |-> s, base |-> b,
                        target |-> target,
                        content |-> records[target].content,
                        images |-> ImagesOf(target)])
    /\ UNCHANGED <<recordVars, requests, conflicts, outbox>>

RollbackCommit(h, r) ==
    LET op == ops[h] IN
    /\ op.kind = "rollback"
    /\ r \in RecordIds
    /\ Revise(r, op.slot, op.base, op.content, "ROLLBACK", op.target)
    /\ links' = links \cup
                  {[image |-> i, request |-> None, record |-> r]
                     : i \in op.images}
    /\ outbox' = outbox \cup {[event |-> "qualification-rollback",
                               record |-> r]}
    /\ End(h)
    /\ UNCHANGED <<requests, imageStatus, conflicts>>

-----------------------------------------------------------------------------

\* A check refuses, a guarded write matches no row, or the process dies: the
\* transaction leaves nothing behind.
Abandon(h) ==
    /\ ops[h] \notin {IdleOp, DoneOp}
    /\ End(h)
    /\ UNCHANGED <<recordVars, requests, conflicts, outbox>>

\* Rows that predate the lineages: each is its own lineage at revision 1,
\* whatever its version.
LegacyRecord(r, s, v, c) ==
    [status |-> "ACTIVE", slot |-> s, version |-> v, lineage |-> r,
     revision |-> 1, supersedes |-> None, restores |-> None,
     content |-> c, action |-> "CONFIRM"]

\* Requests that predate the captured baseline.
LegacyRequest(s, c) ==
    [status |-> "PENDING", slot |-> s, version |-> 1, base |-> NoBase,
     captured |-> FALSE, content |-> c, submitted |-> c, result |-> None]

\* A fresh installation, or one migrated from before the lineages and the
\* baselines: at most one effective record and one request in all is enough
\* to meet both kinds of rows.
Init ==
    /\ \/ records = [r \in {} |-> None]
       \/ \E r \in RecordIds, s \in Slots, v \in LegacyVersions,
             c \in Contents :
              records = [x \in {r} |-> LegacyRecord(r, s, v, c)]
    /\ \/ /\ requests = [q \in {} |-> None]
          /\ links = {}
          /\ imageStatus = [i \in Images |-> "orphaned"]
       \/ \E q \in RequestIds, s \in Slots, c \in Contents, i \in Images :
              /\ requests = [x \in {q} |-> LegacyRequest(s, c)]
              /\ links = {[image |-> i, request |-> q, record |-> None]}
              /\ imageStatus = [x \in Images |->
                                  IF x = i THEN "linked" ELSE "orphaned"]
    /\ conflicts = {}
    /\ outbox = {}
    /\ ops = [h \in Handlers |-> IdleOp]

Next ==
    \E h \in Handlers :
        \/ \E s \in Slots, i \in Images, c \in Contents : SubmitRead(h, s, i, c)
        \/ \E q \in RequestIds : SubmitCommit(h, q)
        \/ \E q \in RequestIds : ApproveReadRequest(h, q)
        \/ ApproveReadCurrent(h)
        \/ \E r \in RecordIds : ApproveCommit(h, r)
        \/ ApproveOvertaken(h)
        \/ ApproveAuditConflict(h)
        \/ \E q \in RequestIds : ReturnRead(h, q)
        \/ ReturnCommit(h)
        \/ \E q \in RequestIds : CorrectRead(h, q)
        \/ \E c \in Contents : CorrectCommit(h, c)
        \/ \E s \in Slots, c \in Contents : CreateRead(h, s, c)
        \/ \E s \in Slots, c \in Contents : PatchRead(h, s, c)
        \/ \E s \in Slots, c \in Contents : ImportRead(h, s, c)
        \/ \E r \in RecordIds : DirectCommit(h, r)
        \/ \E s \in Slots, t \in RecordIds : RollbackRead(h, s, t)
        \/ \E r \in RecordIds : RollbackCommit(h, r)
        \/ Abandon(h)

Spec == Init /\ [][Next]_vars

-----------------------------------------------------------------------------
(* Properties.                                                             *)

\* The version a record was created with: replacing it adds one.
BirthVersion(r) ==
    IF records[r].status = "ACTIVE" THEN records[r].version
    ELSE records[r].version - 1

\* A slot has at most one effective record, whatever handlers race on it.
OneEffectiveRecord ==
    \A x, y \in DOMAIN records :
        /\ records[x].status = "ACTIVE" /\ records[y].status = "ACTIVE"
        /\ records[x].slot = records[y].slot
        => x = y

\* A slot has at most one request awaiting review.
OnePendingRequest ==
    \A p, q \in DOMAIN requests :
        /\ requests[p].status = "PENDING" /\ requests[q].status = "PENDING"
        /\ requests[p].slot = requests[q].slot
        => p = q

\* The revisions of a slot form one chain without a fork or a gap: every
\* record but the first replaces the previous revision of its own lineage,
\* was created with the very version that the replacement left behind, and
\* nothing else replaced the same revision.
RevisionsFormChain ==
    \A x \in DOMAIN records :
        LET p == records[x].supersedes IN
        IF p = None THEN records[x].revision = 1 /\ records[x].lineage = x
        ELSE /\ p \in DOMAIN records
             /\ records[p].status = "REPLACED"
             /\ records[p].slot = records[x].slot
             /\ records[p].lineage = records[x].lineage
             /\ records[x].revision = records[p].revision + 1
             /\ BirthVersion(x) = records[p].version
             /\ \A y \in DOMAIN records : records[y].supersedes = p => y = x

\* A version number never comes back in a slot: clients that send only the
\* expected version, without the record identifier, cannot mistake one
\* revision for another.
VersionNamesRevision ==
    \A x, y \in DOMAIN records :
        x # y /\ records[x].slot = records[y].slot
        => BirthVersion(x) # BirthVersion(y)

\* An approved request became exactly one record, with the fields the
\* request ended up with, in direct succession of the baseline it captured
\* when it was submitted.
ApprovedOnBaseline ==
    \A q \in DOMAIN requests :
        requests[q].status = "APPROVED" =>
            LET r == requests[q].result IN
            /\ r \in DOMAIN records
            /\ records[r].slot = requests[q].slot
            /\ records[r].content = requests[q].content
            /\ records[r].supersedes = requests[q].base.id
            /\ BirthVersion(r) = requests[q].base.version + 1
            /\ \A p \in DOMAIN requests : requests[p].result = r => p = q

\* A refused approval is final: once the effective record of the slot has
\* moved past the baseline of a request, it never matches it again, so a
\* request found in conflict can only be returned.
ConflictIsFinal ==
    \A q \in conflicts :
        requests[q].base \notin EffectiveBases(requests[q].slot)

\* No image is evidence of two requests: persistVerificationForEvidence
\* gives up with an error where one is.
OneRequestPerImage ==
    \A k, l \in links :
        k.image = l.image /\ k.request # None /\ l.request # None
        => k.request = l.request

\* Evidence of a formal record is retained, and a revision restored by a
\* rollback has the fields and all the evidence of the revision it restores.
EvidenceFollowsRecord ==
    /\ \A l \in links : l.record # None => imageStatus[l.image] = "retained"
    /\ \A x \in DOMAIN records :
          records[x].action = "ROLLBACK" =>
              LET t == records[x].restores IN
              /\ t \in DOMAIN records
              /\ records[t].lineage = records[x].lineage
              /\ records[t].revision < records[x].revision
              /\ records[t].content = records[x].content
              /\ ImagesOf(x) = ImagesOf(t)

\* The member is told of the decision that stands, and of no other.
NoticeMatchesDecision ==
    \A q \in DOMAIN requests :
        /\ requests[q].status = "APPROVED" <=>
               \E k \in outbox : k.event = "review-approved" /\ k.request = q
        /\ requests[q].status = "RETURNED" <=>
               \E k \in outbox : k.event = "review-returned" /\ k.request = q

\* A decided request is never touched again by a handler that had read it
\* while it was pending.
DecisionsAreFinal ==
    [][\A q \in DOMAIN requests :
          requests[q].status # "PENDING" => requests'[q] = requests[q]]_vars

\* A confirmed record appears only by consuming one pending request, whose
\* baseline is the effective record at that very moment.
ConfirmationConsumesRequest ==
    [][\A r \in DOMAIN records' \ DOMAIN records :
          records'[r].action = "CONFIRM" =>
              \E q \in DOMAIN requests :
                  /\ requests[q].status = "PENDING"
                  /\ requests[q].base \in EffectiveBases(requests[q].slot)
                  /\ requests'[q].status = "APPROVED"
                  /\ requests'[q].result = r]_vars

-----------------------------------------------------------------------------
(* The inductive invariant behind the properties above.                    *)

\* A base that was read in slot s names a record of s at the version the
\* record was created with, or the absence of any.
BaseWasRead(base, s) ==
    IF base.id = None THEN base.version = 0
    ELSE /\ base.id \in DOMAIN records
         /\ records[base.id].slot = s
         /\ BirthVersion(base.id) = base.version

\* The effective record of slot s has moved past base for good.
Overtaken(base, s) ==
    IF base.id = None THEN ActiveIn(s) # {}
    ELSE base.id \in DOMAIN records /\ records[base.id].status = "REPLACED"

\* A slot that has a record has an effective one, and it is the latest.
EffectiveIsLatest ==
    \A x \in DOMAIN records :
        \E a \in DOMAIN records :
            /\ records[a].status = "ACTIVE"
            /\ records[a].slot = records[x].slot
            /\ BirthVersion(x) <= BirthVersion(a)

\* The records of a slot are one lineage, numbered in step with the versions
\* they were created with.
OneLineagePerSlot ==
    \A x, y \in DOMAIN records :
        records[x].slot = records[y].slot =>
            /\ records[x].lineage = records[y].lineage
            /\ records[x].revision + BirthVersion(y) =
                 records[y].revision + BirthVersion(x)

RecordInvariant ==
    /\ OneEffectiveRecord
    /\ RevisionsFormChain
    /\ EffectiveIsLatest
    /\ VersionNamesRevision
    /\ OneLineagePerSlot

\* Only an approved request has a result; the slot of a request whose
\* approval was refused has moved on.
RequestsAreSound ==
    /\ \A q \in DOMAIN requests :
          /\ BaseWasRead(requests[q].base, requests[q].slot)
          /\ requests[q].status # "APPROVED" => requests[q].result = None
    /\ \A q \in conflicts :
          /\ q \in DOMAIN requests
          /\ Overtaken(requests[q].base, requests[q].slot)

\* Links point to rows that exist; evidence reaches a record only when the
\* request it came with is decided; a linked image is no longer orphaned.
LinksAreSound ==
    \A l \in links :
        /\ imageStatus[l.image] # "orphaned"
        /\ l.record # None => l.record \in DOMAIN records
        /\ l.request # None =>
              /\ l.request \in DOMAIN requests
              /\ requests[l.request].status = "PENDING" => l.record = None

\* A decision is announced for a request that exists.
NoticesAreSound ==
    \A k \in outbox :
        k.event # "qualification-rollback" => k.request \in DOMAIN requests

\* A remembered request exists, and its fields are those of the version that
\* was read.
RequestWasRead(op) ==
    /\ op.request \in DOMAIN requests
    /\ op.version <= requests[op.request].version
    /\ op.version = requests[op.request].version =>
          op.content = requests[op.request].content

\* The restored revision is an earlier one of the lineage of the base, and
\* its fields and evidence are still those that were read.
TargetWasRead(op) ==
    /\ op.base.id # None
    /\ op.target \in DOMAIN records
    /\ records[op.target].lineage = records[op.base.id].lineage
    /\ records[op.target].revision < records[op.base.id].revision
    /\ records[op.target].content = op.content
    /\ ImagesOf(op.target) = op.images

\* What a handler in flight remembers was true when it was read, and is still
\* true of the past.
OpIsSound(op) ==
    /\ op.kind \in {"submit", "create", "patch", "import", "rollback"} =>
          BaseWasRead(op.base, op.slot)
    /\ op.kind \in {"approve.read", "approve.write", "correct", "return"} =>
          RequestWasRead(op)
    /\ op.kind \in {"approve.read", "approve.write"} =>
          requests[op.request].captured
    /\ op.kind = "approve.write" => op.current = requests[op.request].base
    /\ op.kind = "approve.conflict" =>
          /\ op.request \in DOMAIN requests
          /\ Overtaken(requests[op.request].base, requests[op.request].slot)
    /\ op.kind = "rollback" => TargetWasRead(op)

OpsAreSound == \A h \in Handlers : OpIsSound(ops[h])

\* Strengthening of the safety properties that every step preserves.
InductiveInvariant ==
    /\ TypeOK
    /\ RecordInvariant
    /\ RequestsAreSound
    /\ ApprovedOnBaseline
    /\ LinksAreSound
    /\ EvidenceFollowsRecord
    /\ OpsAreSound
    /\ OnePendingRequest
    /\ OneRequestPerImage
    /\ NoticesAreSound
    /\ NoticeMatchesDecision
=============================================================================
