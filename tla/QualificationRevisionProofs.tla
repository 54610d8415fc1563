-------------------- MODULE QualificationRevisionProofs --------------------
(***************************************************************************)
(* Proofs about QualificationRevision, for every number of slots, records, *)
(* requests, images and HTTP requests: type correctness, the safety        *)
(* properties, and the refinement of QualificationRegister.                *)
(*                                                                         *)
(* Every step either leaves a record alone or replaces it, and leaves a    *)
(* decided request alone (RecordsGrow, RequestsGrow): what a handler read  *)
(* of the past stays true.  The three writes of a record go through        *)
(* Revise, whose effect on the records is proved once.                     *)
(***************************************************************************)
EXTENDS QualificationRefinement, TLAPS

-----------------------------------------------------------------------------
(* What the writes of a handler leave in the rows.                         *)

USE DEF MaybeRecord, MaybeRequest, recordVars

\* Replacing a record leaves a record.
LEMMA ReplacedType ==
    ASSUME NEW e \in Record
    PROVE  [e EXCEPT !.status = "REPLACED", !.version = @ + 1] \in Record
<1> DEFINE f == [e EXCEPT !.status = "REPLACED"]
<1>1. f \in Record /\ f.version = e.version /\ e.version + 1 \in Nat
  BY DEF Record
<1>2. [f EXCEPT !.version = e.version + 1] \in Record
  <2> HIDE DEF f
  <2>. QED  BY <1>1 DEF Record
<1>. QED  BY <1>2

\* The guarded replacement keeps the record table well typed.
LEMMA ReviseType ==
    ASSUME TypeOK, NEW r \in RecordIds, NEW s \in Slots, NEW base \in Base,
           NEW content \in Contents, NEW restores \in MaybeRecord,
           NEW action \in {"CONFIRM", "CORRECT_AND_CONFIRM", "ROLLBACK",
                           "ADMIN_IMPORT"},
           Revise(r, s, base, content, action, restores)
    PROVE  /\ DOMAIN records' = DOMAIN records \cup {r}
           /\ DOMAIN records' \subseteq RecordIds
           /\ records' \in [DOMAIN records' -> Record]
<1> DEFINE row == NextRevision(r, s, base, content, action, restores)
<1>1. row \in Record
  <2>1. base.id # None => /\ base.id \in DOMAIN records
                          /\ records[base.id] \in Record
    BY DEF TypeOK, Revise, StillCurrent
  <2>2. base.version + 1 \in Nat /\ base.id \in MaybeRecord
    BY DEF Base
  <2>. QED  BY <2>1, <2>2 DEF NextRevision, NextVersion, Record
<1>2. records' = Superseded(base, r, row)
  BY DEF Revise
<1>3. ASSUME NEW x \in DOMAIN records
      PROVE  [records[x] EXCEPT !.status = "REPLACED", !.version = @ + 1]
               \in Record
  <2>1. records[x] \in Record
    BY DEF TypeOK
  <2>. QED  BY <2>1, ReplacedType
<1> HIDE DEF row
<1>. QED  BY <1>1, <1>2, <1>3 DEF TypeOK, Superseded

\* What TypeOK says of a handler, kind by kind.
LEMMA OpTypes ==
    ASSUME TypeOK, NEW h \in Handlers
    PROVE  /\ ops[h].kind = "submit" =>
                 /\ ops[h].slot \in Slots /\ ops[h].base \in Base
                 /\ ops[h].content \in Contents /\ ops[h].image \in Images
           /\ ops[h].kind \in {"approve.read", "correct", "return",
                               "approve.write"} =>
                 /\ ops[h].request \in RequestIds /\ ops[h].version \in Nat
                 /\ ops[h].content \in Contents
           /\ ops[h].kind = "approve.write" => ops[h].current \in Base
           /\ ops[h].kind = "approve.conflict" => ops[h].request \in RequestIds
           /\ ops[h].kind \in {"create", "patch", "import"} =>
                 /\ ops[h].slot \in Slots /\ ops[h].base \in Base
                 /\ ops[h].content \in Contents
           /\ ops[h].kind = "rollback" =>
                 /\ ops[h].slot \in Slots /\ ops[h].base \in Base
                 /\ ops[h].content \in Contents
                 /\ ops[h].target \in RecordIds
                 /\ ops[h].images \in SUBSET Images
<1>1. ops[h] \in Op
  BY DEF TypeOK
<1>. QED  BY <1>1 DEF Op, IdleOp, DoneOp

\* A base that is read is a base.
LEMMA EffectiveBasesType ==
    ASSUME TypeOK, NEW s, NEW b \in EffectiveBases(s)
    PROVE  b \in Base
BY DEF TypeOK, EffectiveBases, ActiveIn, Base, NoBase, Record

\* Writing one column of one request leaves a request table.
LEMMA ColumnUpdate ==
    ASSUME NEW D, NEW f \in [D -> Request], NEW q \in D
    PROVE  /\ \A st \in {"PENDING", "APPROVED", "RETURNED"} :
                 [f EXCEPT ![q].status = st] \in [D -> Request]
           /\ \A v \in Nat : [f EXCEPT ![q].version = v] \in [D -> Request]
           /\ \A r \in MaybeRecord :
                 [f EXCEPT ![q].result = r] \in [D -> Request]
           /\ \A c \in Contents :
                 /\ [f EXCEPT ![q].content = c] \in [D -> Request]
                 /\ [f EXCEPT ![q].submitted = c] \in [D -> Request]
BY DEF Request

\* An approval leaves a request table.
LEMMA ApprovedType ==
    ASSUME TypeOK, NEW q \in DOMAIN requests, NEW r \in MaybeRecord
    PROVE  [requests EXCEPT ![q].status = "APPROVED",
                              ![q].version = @ + 2,
                              ![q].result = r]
             \in [DOMAIN requests -> Request]
<1> DEFINE v == requests[q].version + 2
           D == DOMAIN requests
<1>1. requests \in [D -> Request] /\ q \in D /\ v \in Nat
  BY DEF TypeOK, Request
<1> DEFINE f1 == [requests EXCEPT ![q].status = "APPROVED"]
<1>2. f1 \in [D -> Request]
  <2> HIDE DEF D, v
  <2>. QED  BY <1>1, <1>1, ColumnUpdate
<1> DEFINE f2 == [f1 EXCEPT ![q].version = v]
<1>3. f2 \in [D -> Request]
  <2> HIDE DEF D, v, f1
  <2>. QED  BY <1>1, <1>2, ColumnUpdate
<1> DEFINE f3 == [f2 EXCEPT ![q].result = r]
<1>4. f3 \in [D -> Request]
  <2> HIDE DEF D, v, f2
  <2>. QED  BY <1>1, <1>3, ColumnUpdate
<1>. QED  BY <1>4, <1>1 DEF TypeOK

\* A return leaves a request table.
LEMMA ReturnedType ==
    ASSUME TypeOK, NEW q \in DOMAIN requests
    PROVE  [requests EXCEPT ![q].status = "RETURNED",
                              ![q].version = @ + 1]
             \in [DOMAIN requests -> Request]
<1> DEFINE v == requests[q].version + 1
           D == DOMAIN requests
<1>1. requests \in [D -> Request] /\ q \in D /\ v \in Nat
  BY DEF TypeOK, Request
<1> DEFINE f1 == [requests EXCEPT ![q].status = "RETURNED"]
<1>2. f1 \in [D -> Request]
  <2> HIDE DEF D, v
  <2>. QED  BY <1>1, <1>1, ColumnUpdate
<1> DEFINE f2 == [f1 EXCEPT ![q].version = v]
<1>3. f2 \in [D -> Request]
  <2> HIDE DEF D, v, f1
  <2>. QED  BY <1>1, <1>2, ColumnUpdate
<1>. QED  BY <1>3, <1>1 DEF TypeOK

\* A correction leaves a request table.
LEMMA CorrectedType ==
    ASSUME TypeOK, NEW q \in DOMAIN requests, NEW c \in Contents
    PROVE  [requests EXCEPT ![q].content = c,
                              ![q].submitted = c,
                              ![q].version = @ + 1]
             \in [DOMAIN requests -> Request]
<1> DEFINE v == requests[q].version + 1
           D == DOMAIN requests
<1>1. requests \in [D -> Request] /\ q \in D /\ v \in Nat
  BY DEF TypeOK, Request
<1> DEFINE f1 == [requests EXCEPT ![q].content = c]
<1>2. f1 \in [D -> Request]
  <2> HIDE DEF D, v
  <2>. QED  BY <1>1, <1>1, ColumnUpdate
<1> DEFINE f2 == [f1 EXCEPT ![q].submitted = c]
<1>3. f2 \in [D -> Request]
  <2> HIDE DEF D, v, f1
  <2>. QED  BY <1>1, <1>2, ColumnUpdate
<1> DEFINE f3 == [f2 EXCEPT ![q].version = v]
<1>4. f3 \in [D -> Request]
  <2> HIDE DEF D, v, f2
  <2>. QED  BY <1>1, <1>3, ColumnUpdate
<1>. QED  BY <1>4, <1>1 DEF TypeOK

\* One handler's operation is replaced by another.
LEMMA OpUpdate ==
    ASSUME TypeOK, NEW h \in Handlers, NEW op \in Op
    PROVE  [ops EXCEPT ![h] = op] \in [Handlers -> Op]
BY DEF TypeOK

LEMMA InitType == Init => TypeOK
<1> SUFFICES ASSUME Init PROVE TypeOK
  OBVIOUS
<1> USE ConstantsAssumption
<1>1. DOMAIN records \subseteq RecordIds /\ records \in [DOMAIN records -> Record]
  <2>1. CASE records = [r \in {} |-> None]
    BY <2>1
  <2>2. CASE \E r \in RecordIds, s \in Slots, v \in LegacyVersions,
                c \in Contents :
                  records = [x \in {r} |-> LegacyRecord(r, s, v, c)]
    <3>1. PICK r \in RecordIds, s \in Slots, v \in LegacyVersions,
               c \in Contents :
                 records = [x \in {r} |-> LegacyRecord(r, s, v, c)]
      BY <2>2
    <3>2. LegacyRecord(r, s, v, c) \in Record
      BY DEF LegacyRecord, Record
    <3>. QED  BY <3>1, <3>2
  <2>. QED  BY <2>1, <2>2, Zenon DEF Init
<1>2. /\ DOMAIN requests \subseteq RequestIds
      /\ requests \in [DOMAIN requests -> Request]
      /\ links \subseteq Link
      /\ imageStatus \in [Images -> {"orphaned", "linked", "retained"}]
  <2>1. CASE /\ requests = [q \in {} |-> None]
             /\ links = {}
             /\ imageStatus = [i \in Images |-> "orphaned"]
    BY <2>1
  <2>2. CASE \E q \in RequestIds, s \in Slots, c \in Contents, i \in Images :
               /\ requests = [x \in {q} |-> LegacyRequest(s, c)]
               /\ links = {[image |-> i, request |-> q, record |-> None]}
               /\ imageStatus = [x \in Images |->
                                   IF x = i THEN "linked" ELSE "orphaned"]
    <3>1. PICK q \in RequestIds, s \in Slots, c \in Contents, i \in Images :
               /\ requests = [x \in {q} |-> LegacyRequest(s, c)]
               /\ links = {[image |-> i, request |-> q, record |-> None]}
               /\ imageStatus = [x \in Images |->
                                   IF x = i THEN "linked" ELSE "orphaned"]
      BY <2>2
    <3>2. LegacyRequest(s, c) \in Request
      BY DEF LegacyRequest, Request, Base, NoBase
    <3>3. links \subseteq Link
      BY <3>1 DEF Link
    <3>. QED  BY <3>1, <3>2, <3>3
  <2>. QED  BY <2>1, <2>2, Zenon DEF Init
<1>3. ops \in [Handlers -> Op]
  BY DEF Init, Op
<1>. QED  BY <1>1, <1>2, <1>3 DEF Init, TypeOK

-----------------------------------------------------------------------------
(* Type correctness.                                                       *)

\* Every step keeps the types: one case per action.
LEMMA NextType == TypeOK /\ [Next]_vars => TypeOK'
<1> SUFFICES ASSUME TypeOK, [Next]_vars PROVE TypeOK'
  OBVIOUS
<1>1. CASE UNCHANGED vars
  BY <1>1 DEF vars, TypeOK
<1> SUFFICES ASSUME NEW h \in Handlers,
                    \/ \E s \in Slots, i \in Images, c \in Contents :
                           SubmitRead(h, s, i, c)
                    \/ \E q \in RequestIds : SubmitCommit(h, q)
                    \/ \E q \in RequestIds : ApproveReadRequest(h, q)
                    \/ ApproveReadCurrent(h)
                    \/ \E r \in RecordIds : ApproveCommit(h, r)
                    \/ ApproveOvertaken(h)
                    \/ ApproveAuditConflict(h)
                    \/ \E q \in RequestIds : ReturnRead(h, q)
                    \/ ReturnCommit(h)
                    \/ \E q \in RequestIds : CorrectRead(h, q)
                    \/ \E c \in Contents : CorrectCommit(h, c)
                    \/ \E s \in Slots, c \in Contents : CreateRead(h, s, c)
                    \/ \E s \in Slots, c \in Contents : PatchRead(h, s, c)
                    \/ \E s \in Slots, c \in Contents : ImportRead(h, s, c)
                    \/ \E r \in RecordIds : DirectCommit(h, r)
                    \/ \E s \in Slots, t \in RecordIds : RollbackRead(h, s, t)
                    \/ \E r \in RecordIds : RollbackCommit(h, r)
                    \/ Abandon(h)
             PROVE  TypeOK'
  BY <1>1 DEF Next
<1> USE OpTypes
<1>2. ASSUME NEW op \in Op, ops' = [ops EXCEPT ![h] = op],
             UNCHANGED <<recordVars, requests, conflicts, outbox>>
      PROVE  TypeOK'
  BY <1>2 DEF TypeOK
<1>3. ops' = [ops EXCEPT ![h] = DoneOp] => ops' \in [Handlers -> Op]
  <2>1. DoneOp \in Op
    BY DEF Op
  <2>. QED  BY <2>1, OpUpdate
<1>4. ASSUME NEW s \in Slots, NEW i \in Images, NEW c \in Contents,
             SubmitRead(h, s, i, c)
      PROVE  TypeOK'
  <2>1. PICK b \in EffectiveBases(s) :
          ops' = [ops EXCEPT ![h] = [kind |-> "submit", slot |-> s,
                                     base |-> b, content |-> c, image |-> i]]
    BY <1>4 DEF SubmitRead, Begin
  <2>2. b \in Base
    BY EffectiveBasesType
  <2>. DEFINE op == [kind |-> "submit", slot |-> s, base |-> b,
                     content |-> c, image |-> i]
  <2>3. op \in Op
    BY <2>2 DEF Op
  <2>. QED  BY <1>2, <1>4, <2>1, <2>3 DEF SubmitRead
<1>5. ASSUME NEW q \in RequestIds, SubmitCommit(h, q)
      PROVE  TypeOK'
  <2>1. NewRequest(ops[h]) \in Request
    BY <1>5 DEF SubmitCommit, NewRequest, Request
  <2>2. DOMAIN requests' \subseteq RequestIds
        /\ requests' \in [DOMAIN requests' -> Request]
    BY <1>5, <2>1 DEF SubmitCommit, TypeOK
  <2>3. links' \subseteq Link
    BY <1>5 DEF SubmitCommit, TypeOK, Link
  <2>4. imageStatus' \in [Images -> {"orphaned", "linked", "retained"}]
    BY <1>5 DEF SubmitCommit, TypeOK
  <2>. QED  BY <1>3, <1>5, <2>2, <2>3, <2>4 DEF SubmitCommit, End, TypeOK
<1>6. ASSUME NEW q \in DOMAIN requests,
             NEW kind \in {"approve.read", "correct", "return"}
      PROVE  RequestOp(kind, q) \in Op
  <2>1. requests[q] \in Request /\ q \in RequestIds
    BY DEF TypeOK
  <2>. QED  BY <2>1 DEF RequestOp, Op, Request
<1>7. ASSUME NEW q \in RequestIds,
             \/ ApproveReadRequest(h, q)
             \/ ReturnRead(h, q)
             \/ CorrectRead(h, q)
      PROVE  TypeOK'
  BY <1>2, <1>6, <1>7 DEF ApproveReadRequest, ReturnRead, CorrectRead, Begin
<1>8. CASE ApproveReadCurrent(h)
  <2>1. PICK b \in EffectiveBases(requests[ops[h].request].slot) :
          \/ ops' = [ops EXCEPT ![h] =
                       [kind |-> "approve.write", request |-> ops[h].request,
                        version |-> ops[h].version,
                        content |-> ops[h].content, current |-> b]]
          \/ ops' = [ops EXCEPT ![h] = [kind |-> "approve.conflict",
                                        request |-> ops[h].request]]
    BY <1>8 DEF ApproveReadCurrent
  <2>2. b \in Base
    BY EffectiveBasesType
  <2>3. /\ [kind |-> "approve.write", request |-> ops[h].request,
            version |-> ops[h].version, content |-> ops[h].content,
            current |-> b] \in Op
        /\ [kind |-> "approve.conflict", request |-> ops[h].request] \in Op
    BY <1>8, <2>2 DEF ApproveReadCurrent, Op
  <2>. QED  BY <1>2, <1>8, <2>1, <2>3 DEF ApproveReadCurrent
<1>9. ASSUME NEW r \in RecordIds, ApproveCommit(h, r)
      PROVE  TypeOK'
  <2> DEFINE q == ops[h].request
  <2>1. q \in DOMAIN requests /\ requests[q] \in Request
    BY <1>9 DEF ApproveCommit, RequestUnchanged, TypeOK
  <2>2. DOMAIN records' \subseteq RecordIds
        /\ records' \in [DOMAIN records' -> Record]
    BY <1>9, <2>1, ReviseType DEF ApproveCommit, Request
  <2>3. DOMAIN requests' \subseteq RequestIds
        /\ requests' \in [DOMAIN requests' -> Request]
    BY <1>9, <2>1, ApprovedType DEF ApproveCommit, TypeOK
  <2>4. links' \subseteq Link
    BY <1>9 DEF ApproveCommit, TypeOK, Link
  <2>5. imageStatus' \in [Images -> {"orphaned", "linked", "retained"}]
    BY <1>9 DEF ApproveCommit, TypeOK
  <2>6. outbox' \subseteq OutboxKey
    <3>1. q \in RequestIds /\ ops[h].version \in Nat
      BY <1>9 DEF ApproveCommit
    <3>2. [event |-> "review-approved", request |-> q,
           version |-> ops[h].version] \in OutboxKey
      BY ONLY <3>1 DEF OutboxKey
    <3>. QED  BY <1>9, <3>2 DEF ApproveCommit, TypeOK
  <2>. QED  BY <1>3, <1>9, <2>2, <2>3, <2>4, <2>5, <2>6
            DEF ApproveCommit, End, TypeOK
<1>10. CASE ApproveOvertaken(h)
  <2>1. [kind |-> "approve.conflict", request |-> ops[h].request] \in Op
    BY <1>10 DEF ApproveOvertaken, Op
  <2>. QED  BY <1>2, <1>10, <2>1 DEF ApproveOvertaken
<1>11. CASE ApproveAuditConflict(h)
  BY <1>3, <1>11 DEF ApproveAuditConflict, End, TypeOK
<1>12. CASE ReturnCommit(h)
  <2> DEFINE q == ops[h].request
  <2>1. q \in DOMAIN requests
    BY <1>12 DEF ReturnCommit, RequestUnchanged
  <2>3. DOMAIN requests' \subseteq RequestIds
        /\ requests' \in [DOMAIN requests' -> Request]
    BY <1>12, <2>1, ReturnedType DEF ReturnCommit, TypeOK
  <2>4. outbox' \subseteq OutboxKey
    BY <1>12 DEF ReturnCommit, TypeOK, OutboxKey
  <2>. QED  BY <1>3, <1>12, <2>3, <2>4 DEF ReturnCommit, End, TypeOK
<1>13. ASSUME NEW c \in Contents, CorrectCommit(h, c)
       PROVE  TypeOK'
  <2> DEFINE q == ops[h].request
  <2>1. q \in DOMAIN requests
    BY <1>13 DEF CorrectCommit, RequestUnchanged
  <2>3. DOMAIN requests' \subseteq RequestIds
        /\ requests' \in [DOMAIN requests' -> Request]
    BY <1>13, <2>1, CorrectedType DEF CorrectCommit, TypeOK
  <2>. QED  BY <1>3, <1>13, <2>3 DEF CorrectCommit, End, TypeOK
<1>14. ASSUME NEW s \in Slots, NEW c \in Contents,
              \/ CreateRead(h, s, c)
              \/ PatchRead(h, s, c)
              \/ ImportRead(h, s, c)
       PROVE  TypeOK'
  <2>1. PICK b \in Base, kind \in {"create", "patch", "import"} :
          DirectRead(h, kind, s, c, b)
    <3>1. NoBase \in Base
      BY DEF NoBase, Base
    <3>. QED  BY <1>14, <3>1, EffectiveBasesType
              DEF CreateRead, PatchRead, ImportRead
  <2>2. [kind |-> kind, slot |-> s, base |-> b, content |-> c] \in Op
    BY DEF Op
  <2>. QED  BY <1>2, <2>1, <2>2 DEF DirectRead, Begin
<1>15. ASSUME NEW r \in RecordIds, DirectCommit(h, r)
       PROVE  TypeOK'
  <2>1. ActionOf(ops[h].kind) \in {"CONFIRM", "CORRECT_AND_CONFIRM",
                                   "ROLLBACK", "ADMIN_IMPORT"}
    BY DEF ActionOf
  <2>2. DOMAIN records' \subseteq RecordIds
        /\ records' \in [DOMAIN records' -> Record]
    BY <1>15, <2>1, ReviseType DEF DirectCommit
  <2>. QED  BY <1>3, <1>15, <2>2 DEF DirectCommit, End, TypeOK
<1>16. ASSUME NEW s \in Slots, NEW t \in RecordIds, RollbackRead(h, s, t)
       PROVE  TypeOK'
  <2>1. records[t].content \in Contents
    BY <1>16 DEF RollbackRead, TypeOK, Record
  <2>2. ImagesOf(t) \subseteq Images
    BY DEF ImagesOf, TypeOK, Link
  <2>3. PICK b \in EffectiveBases(s) :
          ops' = [ops EXCEPT ![h] =
                    [kind |-> "rollback", slot |-> s, base |-> b,
                     target |-> t, content |-> records[t].content,
                     images |-> ImagesOf(t)]]
    BY <1>16 DEF RollbackRead, Begin
  <2>4. [kind |-> "rollback", slot |-> s, base |-> b, target |-> t,
         content |-> records[t].content, images |-> ImagesOf(t)] \in Op
    BY <2>1, <2>2, EffectiveBasesType DEF Op
  <2>. QED  BY <1>2, <1>16, <2>3, <2>4 DEF RollbackRead
<1>17. ASSUME NEW r \in RecordIds, RollbackCommit(h, r)
       PROVE  TypeOK'
  <2>1. DOMAIN records' \subseteq RecordIds
        /\ records' \in [DOMAIN records' -> Record]
    BY <1>17, ReviseType DEF RollbackCommit
  <2>2. links' \subseteq Link
    BY <1>17 DEF RollbackCommit, TypeOK, Link
  <2>3. outbox' \subseteq OutboxKey
    BY <1>17 DEF RollbackCommit, TypeOK, OutboxKey
  <2>. QED  BY <1>3, <1>17, <2>1, <2>2, <2>3 DEF RollbackCommit, End, TypeOK
<1>18. CASE Abandon(h)
  BY <1>3, <1>18 DEF Abandon, End, TypeOK
<1>. QED
  BY <1>4, <1>5, <1>7, <1>8, <1>9, <1>10, <1>11, <1>12, <1>13, <1>14, <1>15,
     <1>16, <1>17, <1>18

\* The state of the handlers always has its declared types.
THEOREM TypeCorrect == Spec => []TypeOK
BY InitType, NextType, PTL DEF Spec

-----------------------------------------------------------------------------
(* The invariant and the safety properties.                                *)

USE ConstantsAssumption

-----------------------------------------------------------------------------
(* What no step undoes.                                                    *)

\* A record keeps all but its status and version, once replaced it stays
\* replaced, and a slot with an effective record keeps having one.
RecordsGrow ==
    /\ \A x \in DOMAIN records :
          /\ x \in DOMAIN records'
          /\ records'[x].slot = records[x].slot
          /\ records'[x].lineage = records[x].lineage
          /\ records'[x].revision = records[x].revision
          /\ records'[x].supersedes = records[x].supersedes
          /\ records'[x].restores = records[x].restores
          /\ records'[x].content = records[x].content
          /\ records'[x].action = records[x].action
          /\ BirthVersion(x)' = BirthVersion(x)
          /\ records[x].status = "REPLACED" => records'[x] = records[x]
    /\ \A s \in Slots : ActiveIn(s) # {} => ActiveIn(s)' # {}

\* The evidence of a record stays as it is, and images stay claimed.
EvidenceStays ==
    /\ \A x \in DOMAIN records : ImagesOf(x)' = ImagesOf(x)
    /\ \A i \in Images :
          /\ imageStatus[i] # "orphaned" => imageStatus'[i] # "orphaned"
          /\ imageStatus[i] = "retained" => imageStatus'[i] = "retained"

\* A request keeps its slot and baseline, a write raises its version, and a
\* decided request is not written.
RequestsGrow ==
    \A q \in DOMAIN requests :
        /\ q \in DOMAIN requests'
        /\ requests'[q].slot = requests[q].slot
        /\ requests'[q].base = requests[q].base
      /\ requests'[q].captured = requests[q].captured
        /\ requests'[q].captured = requests[q].captured
        /\ \/ requests'[q] = requests[q]
           \/ /\ requests[q].status = "PENDING"
              /\ requests[q].version < requests'[q].version

\* A base that was read stays one.
LEMMA BaseStable ==
    ASSUME RecordsGrow, NEW b \in Base, NEW s \in Slots, BaseWasRead(b, s)
    PROVE  BaseWasRead(b, s)'
BY DEF RecordsGrow, BaseWasRead

\* A base that was overtaken stays so.
LEMMA OvertakenStable ==
    ASSUME RecordsGrow, NEW b \in Base, NEW s \in Slots, Overtaken(b, s)
    PROVE  Overtaken(b, s)'
BY DEF RecordsGrow, Overtaken

\* What a handler knows of the past is not affected by any step of another.
LEMMA OpStable ==
    ASSUME TypeOK, TypeOK', RecordsGrow, EvidenceStays, RequestsGrow,
           NEW op \in Op,
           OpIsSound(op)
    PROVE  OpIsSound(op)'
<1>1. ASSUME op.kind \in {"submit", "create", "patch", "import", "rollback"}
      PROVE  BaseWasRead(op.base, op.slot)'
  <2>1. op.base \in Base /\ op.slot \in Slots
    BY <1>1 DEF Op, IdleOp, DoneOp
  <2>. QED  BY <1>1, <2>1, BaseStable DEF OpIsSound
<1>2. ASSUME op.kind \in {"approve.read", "approve.write", "correct", "return"}
      PROVE  /\ RequestWasRead(op)'
             /\ requests'[op.request].base = requests[op.request].base
             /\ requests'[op.request].captured = requests[op.request].captured
  <2>1. op.version \in Nat
    BY <1>2 DEF Op, IdleOp, DoneOp
  <2>2. RequestWasRead(op)
    BY <1>2 DEF OpIsSound
  <2>3. op.request \in DOMAIN requests /\ requests[op.request].version \in Nat
    BY <2>2 DEF RequestWasRead, TypeOK, Request
  <2>4. /\ op.request \in DOMAIN requests'
        /\ requests'[op.request].base = requests[op.request].base
        /\ requests'[op.request].captured = requests[op.request].captured
        /\ \/ requests'[op.request] = requests[op.request]
           \/ requests[op.request].version < requests'[op.request].version
    BY <2>3 DEF RequestsGrow
  <2>5. requests'[op.request].version \in Nat
    BY <2>4 DEF TypeOK, Request
  <2>. QED  BY <2>1, <2>2, <2>3, <2>4, <2>5 DEF RequestWasRead
<1>3. ASSUME op.kind = "approve.conflict"
      PROVE  /\ op.request \in DOMAIN requests'
             /\ Overtaken(requests[op.request].base,
                          requests[op.request].slot)'
  <2>1. /\ op.request \in DOMAIN requests
        /\ Overtaken(requests[op.request].base, requests[op.request].slot)
    BY <1>3 DEF OpIsSound
  <2>2. requests[op.request].base \in Base /\ requests[op.request].slot \in Slots
    BY <2>1 DEF TypeOK, Request
  <2>3. ASSUME NEW b \in Base, NEW s \in Slots, Overtaken(b, s)
        PROVE  Overtaken(b, s)'
    BY <2>3, OvertakenStable
  <2>4. /\ op.request \in DOMAIN requests'
        /\ requests'[op.request].base = requests[op.request].base
        /\ requests'[op.request].slot = requests[op.request].slot
    BY <2>1 DEF RequestsGrow
  <2>. QED  BY <2>1, <2>2, <2>3, <2>4
<1>4. ASSUME op.kind = "rollback"
      PROVE  TargetWasRead(op)'
  BY <1>4 DEF OpIsSound, BaseWasRead, TargetWasRead, RecordsGrow, EvidenceStays
<1>. QED  BY <1>1, <1>2, <1>3, <1>4 DEF OpIsSound

-----------------------------------------------------------------------------
(* The guarded replacement.                                                *)

\* A base that passes the guards is the effective record of its slot.
LEMMA GuardedBase ==
    ASSUME TypeOK, RecordInvariant, NEW s \in Slots, NEW base \in Base,
           StillCurrent(base), ActiveIndexFree(s, base), BaseWasRead(base, s)
    PROVE  /\ base.id = None =>
                 /\ base.version = 0
                 /\ \A x \in DOMAIN records : records[x].slot # s
           /\ base.id # None =>
                 /\ base.id \in DOMAIN records
                 /\ records[base.id].status = "ACTIVE"
                 /\ records[base.id].slot = s
                 /\ records[base.id].version = base.version
                 /\ \A x \in DOMAIN records :
                       records[x].slot = s => BirthVersion(x) <= base.version
           /\ \A x \in DOMAIN records :
                 records[x].slot = s /\ records[x].status = "ACTIVE"
                 => x = base.id
<1>1. \A x \in DOMAIN records :
         records[x].slot = s /\ records[x].status = "ACTIVE" => x = base.id
  BY DEF ActiveIndexFree, ActiveIn
<1>2. \A x \in DOMAIN records : records[x].slot = s =>
         /\ base.id # None
         /\ BirthVersion(x) <= BirthVersion(base.id)
  <2>1. ASSUME NEW x \in DOMAIN records, records[x].slot = s
        PROVE  base.id # None /\ BirthVersion(x) <= BirthVersion(base.id)
    <3>1. PICK a \in DOMAIN records :
             /\ records[a].status = "ACTIVE" /\ records[a].slot = s
             /\ BirthVersion(x) <= BirthVersion(a)
      BY <2>1 DEF RecordInvariant, EffectiveIsLatest
    <3>2. a = base.id /\ a # None
      BY <1>1, <3>1 DEF TypeOK
    <3>. QED  BY <3>1, <3>2
  <2>. QED  BY <2>1
<1>3. base.id # None =>
         /\ base.id \in DOMAIN records
         /\ records[base.id].status = "ACTIVE"
         /\ records[base.id].slot = s
         /\ records[base.id].version = base.version
         /\ BirthVersion(base.id) = base.version
  BY DEF StillCurrent, BaseWasRead, BirthVersion
<1>4. base.id = None => base.version = 0
  BY DEF BaseWasRead
<1>. QED  BY <1>1, <1>2, <1>3, <1>4

\* What the guarded replacement does to the rows.
LEMMA ReviseEffect ==
    ASSUME TypeOK, NEW r \in RecordIds, NEW s \in Slots, NEW base \in Base,
           NEW content \in Contents, NEW restores \in MaybeRecord,
           NEW action \in {"CONFIRM", "CORRECT_AND_CONFIRM", "ROLLBACK",
                           "ADMIN_IMPORT"},
           BaseWasRead(base, s),
           Revise(r, s, base, content, action, restores)
    PROVE  /\ r \notin DOMAIN records
           /\ DOMAIN records' = DOMAIN records \cup {r}
           /\ records'[r] =
                 NextRevision(r, s, base, content, action, restores)
           /\ BirthVersion(r)' = base.version + 1
           /\ \A x \in DOMAIN records :
                 /\ x # base.id => records'[x] = records[x]
                 /\ x = base.id => /\ records'[x].status = "REPLACED"
                                   /\ records'[x].version = base.version + 1
           /\ RecordsGrow
<1>1. records' = Superseded(base, r, NextRevision(r, s, base, content, action,
                                                  restores))
      /\ r \notin DOMAIN records
  BY DEF Revise
<1>2. DOMAIN records' = DOMAIN records \cup {r}
  BY <1>1 DEF Superseded
<1>3. records'[r] = NextRevision(r, s, base, content, action, restores)
  BY <1>1 DEF Superseded
<1>4. \A x \in DOMAIN records :
         /\ x # base.id => records'[x] = records[x]
         /\ x = base.id => records'[x] = [records[x] EXCEPT
                                            !.status = "REPLACED",
                                            !.version = @ + 1]
  BY <1>1 DEF Superseded
<1>5. /\ records'[r].status = "ACTIVE"
      /\ records'[r].slot = s
      /\ records'[r].version = base.version + 1
  BY <1>3 DEF NextRevision, NextVersion
<1>6. BirthVersion(r)' = base.version + 1
  BY <1>5 DEF BirthVersion
<1>7. ASSUME NEW x \in DOMAIN records
      PROVE  /\ x \in DOMAIN records'
             /\ records'[x].slot = records[x].slot
             /\ records'[x].lineage = records[x].lineage
             /\ records'[x].revision = records[x].revision
             /\ records'[x].supersedes = records[x].supersedes
             /\ records'[x].restores = records[x].restores
             /\ records'[x].content = records[x].content
             /\ records'[x].action = records[x].action
             /\ BirthVersion(x)' = BirthVersion(x)
             /\ records[x].status = "REPLACED" => records'[x] = records[x]
             /\ x = base.id => /\ records'[x].status = "REPLACED"
                               /\ records'[x].version = base.version + 1
  <2>1. CASE x # base.id
    BY <1>2, <1>4, <2>1 DEF BirthVersion
  <2>2. CASE x = base.id
    <3>1. records[x] \in Record /\ records[x].status = "ACTIVE"
      BY <2>2 DEF TypeOK, Revise, StillCurrent, Record
    <3>2. /\ records'[x].slot = records[x].slot
          /\ records'[x].lineage = records[x].lineage
          /\ records'[x].revision = records[x].revision
          /\ records'[x].supersedes = records[x].supersedes
          /\ records'[x].restores = records[x].restores
          /\ records'[x].content = records[x].content
          /\ records'[x].action = records[x].action
          /\ records'[x].status = "REPLACED"
          /\ records'[x].version = records[x].version + 1
      BY <1>4, <2>2, <3>1 DEF Record
    <3>3. BirthVersion(x)' = (records[x].version + 1) - 1
      BY <3>2 DEF BirthVersion
    <3>4. BirthVersion(x) = records[x].version
      BY <3>1 DEF BirthVersion
    <3>5. records[x].version \in Nat /\ records[x].version = base.version
      BY <2>2, <3>1 DEF Record, Revise, StillCurrent, TypeOK
    <3>6. records'[x].version = base.version + 1
      BY <3>2, <3>5
    <3>7. BirthVersion(x)' = BirthVersion(x)
      BY <3>3, <3>4, <3>5
    <3>. QED  BY <1>2, <3>1, <3>2, <3>6, <3>7
  <2>. QED  BY <2>1, <2>2
<1>8. ASSUME NEW u \in Slots, ActiveIn(u) # {}
      PROVE  ActiveIn(u)' # {}
  <2>1. PICK a \in DOMAIN records :
           records[a].slot = u /\ records[a].status = "ACTIVE"
    BY <1>8 DEF ActiveIn
  <2>2. CASE u = s
    BY <1>2, <1>5, <2>2 DEF ActiveIn
  <2>3. CASE a # base.id
    BY <1>2, <1>4, <2>1, <2>3 DEF ActiveIn
  <2>4. ~(u # s /\ a = base.id)
    BY <2>1 DEF BaseWasRead, TypeOK
  <2>. QED  BY <2>2, <2>3, <2>4
<1>. QED  BY <1>1, <1>2, <1>3, <1>4, <1>6, <1>7, <1>8 DEF RecordsGrow

\* The guarded replacement keeps the revisions of every slot in order.
LEMMA ReviseKeepsRecords ==
    ASSUME TypeOK, RecordInvariant, NEW r \in RecordIds, NEW s \in Slots,
           NEW base \in Base, NEW content \in Contents,
           NEW restores \in MaybeRecord,
           NEW action \in {"CONFIRM", "CORRECT_AND_CONFIRM", "ROLLBACK",
                           "ADMIN_IMPORT"},
           BaseWasRead(base, s),
           Revise(r, s, base, content, action, restores)
    PROVE  RecordInvariant'
<1> DEFINE row == NextRevision(r, s, base, content, action, restores)
<1>1. /\ r \notin DOMAIN records
      /\ DOMAIN records' = DOMAIN records \cup {r}
      /\ records'[r] = row
      /\ BirthVersion(r)' = base.version + 1
      /\ \A x \in DOMAIN records :
            /\ x # base.id => records'[x] = records[x]
            /\ x = base.id => /\ records'[x].status = "REPLACED"
                              /\ records'[x].version = base.version + 1
  BY ReviseEffect
<1>2. RecordsGrow
  BY ReviseEffect, Zenon
<1>3. /\ base.id = None =>
            \A x \in DOMAIN records : records[x].slot # s
      /\ base.id # None =>
            /\ base.id \in DOMAIN records
            /\ records[base.id].status = "ACTIVE"
            /\ records[base.id].slot = s
            /\ records[base.id].version = base.version
            /\ \A x \in DOMAIN records :
                  records[x].slot = s => BirthVersion(x) <= base.version
      /\ \A x \in DOMAIN records :
            records[x].slot = s /\ records[x].status = "ACTIVE"
            => x = base.id
  BY GuardedBase DEF Revise
<1>4. /\ row.status = "ACTIVE" /\ row.slot = s /\ row.supersedes = base.id
      /\ row.lineage = IF base.id = None THEN r ELSE records[base.id].lineage
      /\ row.revision = IF base.id = None THEN 1
                        ELSE records[base.id].revision + 1
  BY DEF NextRevision, NextVersion
<1> HIDE DEF row
<1>5. \A x \in DOMAIN records : BirthVersion(x) \in Int
  BY DEF BirthVersion, TypeOK, Record
<1>6. base.version \in Nat /\ base.id \in MaybeRecord
  BY DEF Base
<1>7. OneEffectiveRecord'
  BY <1>1, <1>3, <1>4 DEF OneEffectiveRecord, RecordInvariant
<1>8. RevisionsFormChain'
  <2> SUFFICES ASSUME NEW x \in DOMAIN records', NEW p,
                      p = records'[x].supersedes
               PROVE  IF p = None
                      THEN records'[x].revision = 1 /\ records'[x].lineage = x
                      ELSE /\ p \in DOMAIN records'
                           /\ records'[p].status = "REPLACED"
                           /\ records'[p].slot = records'[x].slot
                           /\ records'[p].lineage = records'[x].lineage
                           /\ records'[x].revision = records'[p].revision + 1
                           /\ BirthVersion(x)' = records'[p].version
                           /\ \A y \in DOMAIN records' :
                                 records'[y].supersedes = p => y = x
    BY DEF RevisionsFormChain
  <2>1. \A y \in DOMAIN records : records[y].supersedes # None =>
           /\ records[y].supersedes \in DOMAIN records
           /\ records[records[y].supersedes].status = "REPLACED"
    BY DEF RecordInvariant, RevisionsFormChain
  <2>2. CASE x = r
    <3>1. p = base.id
      BY <1>1, <1>4, <2>2
    <3>2. CASE p = None
      BY <1>1, <1>4, <2>2, <3>1, <3>2
    <3>3. CASE p # None
      <4>1. \A y \in DOMAIN records : records[y].supersedes # p
        BY <1>3, <2>1, <3>1, <3>3
      <4>2. \A y \in DOMAIN records' : records'[y].supersedes = p => y = r
        BY <1>1, <1>2, <4>1 DEF RecordsGrow
      <4>. QED  BY <1>1, <1>2, <1>3, <1>4, <2>2, <3>1, <3>3, <4>2
                DEF RecordsGrow
    <3>. QED  BY <3>2, <3>3
  <2>3. CASE x \in DOMAIN records
    <3>1. p = records[x].supersedes
      BY <1>2, <2>3 DEF RecordsGrow
    <3>2. CASE p = None
      <4>1. records[x].revision = 1 /\ records[x].lineage = x
        BY <2>3, <3>1, <3>2 DEF RecordInvariant, RevisionsFormChain
      <4>2. /\ records'[x].revision = records[x].revision
            /\ records'[x].lineage = records[x].lineage
        BY <1>2, <2>3 DEF RecordsGrow
      <4>. QED  BY <3>2, <4>1, <4>2
    <3>3. CASE p # None
      <4>1. /\ p \in DOMAIN records
            /\ records[p].status = "REPLACED"
            /\ records[p].slot = records[x].slot
            /\ records[p].lineage = records[x].lineage
            /\ records[x].revision = records[p].revision + 1
            /\ BirthVersion(x) = records[p].version
            /\ \A y \in DOMAIN records : records[y].supersedes = p => y = x
        BY <2>3, <3>1, <3>3 DEF RecordInvariant, RevisionsFormChain
      <4>2. p # base.id /\ records'[p] = records[p]
        BY <1>2, <1>3, <3>3, <4>1 DEF RecordsGrow
      <4>3. \A y \in DOMAIN records' : records'[y].supersedes = p => y = x
        BY <1>1, <1>2, <1>4, <4>1, <4>2 DEF RecordsGrow
      <4>. QED  BY <1>2, <2>3, <3>3, <4>1, <4>2, <4>3 DEF RecordsGrow
    <3>. QED  BY <3>2, <3>3
  <2>. QED  BY <1>1, <2>2, <2>3
<1>9. EffectiveIsLatest'
  <2> SUFFICES ASSUME NEW x \in DOMAIN records'
               PROVE  \E a \in DOMAIN records' :
                        /\ records'[a].status = "ACTIVE"
                        /\ records'[a].slot = records'[x].slot
                        /\ BirthVersion(x)' <= BirthVersion(a)'
    BY DEF EffectiveIsLatest
  <2>1. CASE records'[x].slot = s
    <3>1. BirthVersion(x)' <= base.version + 1
      BY <1>1, <1>2, <1>3, <1>5, <1>6, <2>1 DEF RecordsGrow
    <3>. QED  BY <1>1, <1>4, <2>1, <3>1
  <2>2. CASE records'[x].slot # s
    <3>1. x \in DOMAIN records /\ records[x].slot = records'[x].slot
      BY <1>1, <1>2, <1>4, <2>2 DEF RecordsGrow
    <3>2. PICK a \in DOMAIN records :
             /\ records[a].status = "ACTIVE"
             /\ records[a].slot = records[x].slot
             /\ BirthVersion(x) <= BirthVersion(a)
      BY <3>1 DEF EffectiveIsLatest, RecordInvariant
    <3>3. a # base.id
      BY <1>3, <2>2, <3>1, <3>2 DEF TypeOK
    <3>. QED  BY <1>1, <1>2, <3>1, <3>2, <3>3 DEF RecordsGrow
  <2>. QED  BY <2>1, <2>2
<1>10. ASSUME NEW x \in DOMAIN records, records[x].slot = s
       PROVE  /\ base.id # None
              /\ BirthVersion(x) < base.version + 1
              /\ records'[r].lineage = records[x].lineage
              /\ records'[r].revision + BirthVersion(x) =
                   records[x].revision + (base.version + 1)
  <2>1. /\ base.id # None /\ base.id \in DOMAIN records
        /\ BirthVersion(x) <= base.version
        /\ BirthVersion(base.id) = base.version
    BY <1>3, <1>10 DEF BirthVersion
  <2>2. /\ records[x].lineage = records[base.id].lineage
        /\ records[x].revision + base.version =
             records[base.id].revision + BirthVersion(x)
    BY <1>3, <1>10, <2>1 DEF RecordInvariant, OneLineagePerSlot
  <2>3. records[x].revision \in Nat /\ records[base.id].revision \in Nat
    BY <2>1 DEF TypeOK, Record
  <2>. QED  BY <1>1, <1>4, <1>5, <1>6, <2>1, <2>2, <2>3
<1>11. VersionNamesRevision'
  <2> SUFFICES ASSUME NEW x \in DOMAIN records', NEW y \in DOMAIN records',
                      x # y, records'[x].slot = records'[y].slot
               PROVE  BirthVersion(x)' # BirthVersion(y)'
    BY DEF VersionNamesRevision
  <2>1. CASE x \in DOMAIN records /\ y \in DOMAIN records
    BY <1>2, <2>1 DEF RecordsGrow, RecordInvariant, VersionNamesRevision
  <2>2. CASE x = r \/ y = r
    BY <1>1, <1>2, <1>4, <1>5, <1>6, <1>10, <2>2 DEF RecordsGrow
  <2>. QED  BY <1>1, <2>1, <2>2
<1>12. OneLineagePerSlot'
  <2> SUFFICES ASSUME NEW x \in DOMAIN records', NEW y \in DOMAIN records',
                      records'[x].slot = records'[y].slot
               PROVE  /\ records'[x].lineage = records'[y].lineage
                      /\ records'[x].revision + BirthVersion(y)' =
                           records'[y].revision + BirthVersion(x)'
    BY DEF OneLineagePerSlot
  <2>1. CASE x \in DOMAIN records /\ y \in DOMAIN records
    BY <1>2, <2>1 DEF RecordsGrow, RecordInvariant, OneLineagePerSlot
  <2>2. CASE x = r /\ y \in DOMAIN records
    BY <1>1, <1>2, <1>4, <1>10, <2>2 DEF RecordsGrow
  <2>3. CASE x \in DOMAIN records /\ y = r
    BY <1>1, <1>2, <1>4, <1>10, <2>3 DEF RecordsGrow
  <2>. QED  BY <1>1, <2>1, <2>2, <2>3
<1>. QED  BY <1>7, <1>8, <1>9, <1>11, <1>12 DEF RecordInvariant

-----------------------------------------------------------------------------
(* The initial states.                                                     *)

\* The invariant holds before any handler runs.
LEMMA InitInvariant == Init => InductiveInvariant
<1> SUFFICES ASSUME Init PROVE InductiveInvariant
  OBVIOUS
<1>1. TypeOK
  BY InitType
<1>2. RecordInvariant /\ \A x \in DOMAIN records : records[x].action = "CONFIRM"
  <2>1. CASE records = [r \in {} |-> None]
    BY <2>1 DEF RecordInvariant, OneEffectiveRecord, RevisionsFormChain,
                EffectiveIsLatest, VersionNamesRevision, OneLineagePerSlot
  <2>2. CASE \E r \in RecordIds, s \in Slots, v \in LegacyVersions,
                c \in Contents :
                  records = [x \in {r} |-> LegacyRecord(r, s, v, c)]
    <3>1. PICK r \in RecordIds, s \in Slots, v \in LegacyVersions,
               c \in Contents :
                 records = [x \in {r} |-> LegacyRecord(r, s, v, c)]
      BY <2>2
    <3>2. /\ DOMAIN records = {r}
          /\ records[r].supersedes = None
          /\ records[r].revision = 1
          /\ records[r].lineage = r
          /\ records[r].status = "ACTIVE"
          /\ records[r].version \in Nat
          /\ records[r].action = "CONFIRM"
      BY <3>1 DEF LegacyRecord
    <3>3. BirthVersion(r) \in Int
      BY <3>2 DEF BirthVersion
    <3>4. OneEffectiveRecord /\ VersionNamesRevision /\ OneLineagePerSlot
      BY <3>2 DEF OneEffectiveRecord, VersionNamesRevision, OneLineagePerSlot
    <3>5. RevisionsFormChain
      BY <3>2 DEF RevisionsFormChain
    <3>6. EffectiveIsLatest
      BY <3>2, <3>3 DEF EffectiveIsLatest
    <3>. QED  BY <3>2, <3>4, <3>5, <3>6 DEF RecordInvariant
  <2>. QED  BY <2>1, <2>2, Zenon DEF Init
<1>3. /\ \A q \in DOMAIN requests :
            /\ requests[q].status = "PENDING"
            /\ requests[q].result = None
            /\ requests[q].base = NoBase
      /\ \A p, q \in DOMAIN requests : p = q
      /\ \A l \in links : /\ imageStatus[l.image] # "orphaned"
                          /\ l.record = None
                          /\ l.request \in DOMAIN requests
  <2>1. CASE /\ requests = [q \in {} |-> None]
             /\ links = {}
             /\ imageStatus = [i \in Images |-> "orphaned"]
    BY <2>1
  <2>2. CASE \E q \in RequestIds, s \in Slots, c \in Contents, i \in Images :
               /\ requests = [x \in {q} |-> LegacyRequest(s, c)]
               /\ links = {[image |-> i, request |-> q, record |-> None]}
               /\ imageStatus = [x \in Images |->
                                   IF x = i THEN "linked" ELSE "orphaned"]
    <3>1. PICK q \in RequestIds, s \in Slots, c \in Contents, i \in Images :
               /\ requests = [x \in {q} |-> LegacyRequest(s, c)]
               /\ links = {[image |-> i, request |-> q, record |-> None]}
               /\ imageStatus = [x \in Images |->
                                   IF x = i THEN "linked" ELSE "orphaned"]
      BY <2>2
    <3>. QED  BY <3>1 DEF LegacyRequest
  <2>. QED  BY <2>1, <2>2, Zenon DEF Init
<1>4. conflicts = {} /\ outbox = {} /\ ops = [h \in Handlers |-> IdleOp]
  BY DEF Init
<1>5. RequestsAreSound /\ ApprovedOnBaseline
  BY <1>3, <1>4 DEF RequestsAreSound, ApprovedOnBaseline, BaseWasRead, NoBase
<1>6. LinksAreSound
  BY <1>3 DEF LinksAreSound
<1>7. EvidenceFollowsRecord
  BY <1>2, <1>3 DEF EvidenceFollowsRecord
<1>8. OpsAreSound
  BY <1>4 DEF OpsAreSound, OpIsSound, IdleOp
<1>9. /\ OnePendingRequest /\ OneRequestPerImage
      /\ NoticesAreSound /\ NoticeMatchesDecision
  BY <1>3, <1>4 DEF OnePendingRequest, OneRequestPerImage, NoticesAreSound,
                    NoticeMatchesDecision
<1>. QED  BY <1>1, <1>2, <1>5, <1>6, <1>7, <1>8, <1>9 DEF InductiveInvariant

-----------------------------------------------------------------------------
(* Steps that write nothing but the memory of a handler.                   *)

\* Every handler but h keeps what it remembers, and h ends or begins soundly.
LEMMA OpsStaySound ==
    ASSUME TypeOK, TypeOK', OpsAreSound, NEW h \in Handlers, NEW op \in Op,
           RecordsGrow, EvidenceStays, RequestsGrow, OpIsSound(op)',
           ops' = [ops EXCEPT ![h] = op]
    PROVE  OpsAreSound'
<1> SUFFICES ASSUME NEW k \in Handlers PROVE OpIsSound(ops[k])'
  BY DEF OpsAreSound
<1>1. CASE k = h
  BY <1>1 DEF TypeOK
<1>2. CASE k # h
  <2>1. ops'[k] = ops[k] /\ ops[k] \in Op /\ OpIsSound(ops[k])
    BY <1>2 DEF TypeOK, OpsAreSound
  <2>2. \A o \in Op : OpIsSound(o) => OpIsSound(o)'
    BY OpStable
  <2>. QED  BY <2>1, <2>2
<1>. QED  BY <1>1, <1>2

\* A handler that is done, or waits, remembers nothing.
LEMMA DoneIsSound == OpIsSound(DoneOp) /\ OpIsSound(DoneOp)' /\ DoneOp \in Op
BY DEF OpIsSound, DoneOp, Op

\* Nothing that stays the same is lost.
LEMMA UnchangedGrows ==
    ASSUME UNCHANGED <<recordVars, requests>>
    PROVE  RecordsGrow /\ EvidenceStays /\ RequestsGrow
BY DEF RecordsGrow, EvidenceStays, RequestsGrow, BirthVersion, ActiveIn,
       ImagesOf

\* A handler that ends leaves the others sound.
LEMMA EndStaysSound ==
    ASSUME InductiveInvariant, TypeOK', NEW h \in Handlers,
           RecordsGrow, EvidenceStays, RequestsGrow,
           ops' = [ops EXCEPT ![h] = DoneOp]
    PROVE  OpsAreSound'
<1>1. TypeOK /\ OpsAreSound
  BY DEF InductiveInvariant
<1>. QED  BY <1>1, DoneIsSound, OpsStaySound

\* Where no record changes, the order of the revisions does not.
LEMMA RecordsKept ==
    ASSUME RecordInvariant, UNCHANGED records
    PROVE  RecordInvariant'
BY DEF RecordInvariant, OneEffectiveRecord, RevisionsFormChain,
       EffectiveIsLatest, VersionNamesRevision, OneLineagePerSlot,
       BirthVersion

LEMMA EvidenceKept ==
    ASSUME EvidenceFollowsRecord, UNCHANGED recordVars
    PROVE  EvidenceFollowsRecord'
BY DEF EvidenceFollowsRecord, ImagesOf

\* A read keeps the invariant when what it remembers is sound.
LEMMA ReadPreserves ==
    ASSUME InductiveInvariant, TypeOK', NEW h \in Handlers, NEW op \in Op,
           OpIsSound(op), ops' = [ops EXCEPT ![h] = op],
           UNCHANGED <<recordVars, requests, conflicts, outbox>>
    PROVE  InductiveInvariant'
<1> USE DEF InductiveInvariant
<1>1. RecordsGrow /\ EvidenceStays /\ RequestsGrow
  BY UnchangedGrows
<1>2. OpsAreSound'
  <2>1. OpIsSound(op)'
    BY <1>1, OpStable
  <2>. QED  BY <1>1, <2>1, OpsStaySound
<1>3. RecordInvariant'
  BY RecordsKept
<1>4. RequestsAreSound' /\ ApprovedOnBaseline' /\ OnePendingRequest'
  BY DEF RequestsAreSound, ApprovedOnBaseline, OnePendingRequest, BaseWasRead,
         Overtaken, BirthVersion, ActiveIn
<1>5. /\ LinksAreSound' /\ OneRequestPerImage'
      /\ NoticesAreSound' /\ NoticeMatchesDecision'
  BY DEF LinksAreSound, OneRequestPerImage, NoticesAreSound,
         NoticeMatchesDecision
<1>6. EvidenceFollowsRecord'
  BY EvidenceKept
<1>. QED  BY <1>2, <1>3, <1>4, <1>5, <1>6

\* A base that is read was read, and names the effective record.
LEMMA EffectiveBaseWasRead ==
    ASSUME TypeOK, NEW s \in Slots, NEW b \in EffectiveBases(s)
    PROVE  /\ b \in Base
           /\ BaseWasRead(b, s)
           /\ b.id # None => /\ b.id \in DOMAIN records
                             /\ records[b.id].status = "ACTIVE"
                             /\ records[b.id].version = b.version
           /\ b.id = None => ActiveIn(s) = {} /\ b = NoBase
<1>1. b \in Base
  BY EffectiveBasesType
<1>2. CASE ActiveIn(s) = {}
  BY <1>1, <1>2 DEF EffectiveBases, NoBase, BaseWasRead
<1>3. CASE ActiveIn(s) # {}
  <2>1. PICK r \in ActiveIn(s) : b = [id |-> r, version |-> records[r].version]
    BY <1>3 DEF EffectiveBases
  <2>2. /\ b.id = r /\ b.version = records[r].version
        /\ r \in DOMAIN records /\ r # None
        /\ records[r].slot = s /\ records[r].status = "ACTIVE"
    BY <2>1 DEF ActiveIn, TypeOK
  <2>. QED  BY <1>1, <2>2 DEF BaseWasRead, BirthVersion
<1>. QED  BY <1>2, <1>3

\* A slot has one effective base.
LEMMA OneEffectiveBase ==
    ASSUME OneEffectiveRecord, NEW s, NEW a \in EffectiveBases(s),
           NEW b \in EffectiveBases(s)
    PROVE  a = b
BY DEF OneEffectiveRecord, EffectiveBases, ActiveIn

\* The effective base of a slot has not been overtaken.
LEMMA EffectiveNotOvertaken ==
    ASSUME TypeOK, NEW s \in Slots, NEW b \in EffectiveBases(s)
    PROVE  ~Overtaken(b, s)
<1>. QED  BY EffectiveBaseWasRead DEF Overtaken

\* A base that was read and is not effective any more was overtaken.
LEMMA NotEffectiveIsOvertaken ==
    ASSUME TypeOK, NEW s \in Slots, NEW b \in Base, BaseWasRead(b, s),
           b \notin EffectiveBases(s)
    PROVE  Overtaken(b, s)
<1>1. CASE b.id = None
  <2>1. b = NoBase
    BY <1>1 DEF BaseWasRead, NoBase, Base
  <2>. QED  BY <1>1, <2>1 DEF EffectiveBases, Overtaken
<1>2. CASE b.id # None
  <2>1. /\ b.id \in DOMAIN records
        /\ records[b.id].slot = s
        /\ BirthVersion(b.id) = b.version
    BY <1>2 DEF BaseWasRead
  <2>2. SUFFICES ASSUME records[b.id].status = "ACTIVE" PROVE FALSE
    BY <1>2, <2>1 DEF Overtaken, TypeOK, Record
  <2>3. b.id \in ActiveIn(s) /\ b.version = records[b.id].version
    BY <2>1, <2>2 DEF ActiveIn, BirthVersion
  <2>4. b = [id |-> b.id, version |-> b.version]
    BY DEF Base
  <2>. QED  BY <2>3, <2>4 DEF EffectiveBases
<1>. QED  BY <1>1, <1>2

\* A handler begins with a read of the effective record.
LEMMA DirectReads ==
    ASSUME InductiveInvariant, TypeOK', NEW h \in Handlers, NEW s \in Slots,
           NEW c \in Contents,
           \/ \E i \in Images : SubmitRead(h, s, i, c)
           \/ CreateRead(h, s, c)
           \/ PatchRead(h, s, c)
           \/ ImportRead(h, s, c)
    PROVE  InductiveInvariant'
<1>1. TypeOK
  BY DEF InductiveInvariant
<1>2. ASSUME NEW b, NEW kind \in {"create", "patch", "import"},
             b \in EffectiveBases(s), DirectRead(h, kind, s, c, b)
      PROVE  InductiveInvariant'
  <2> DEFINE op == [kind |-> kind, slot |-> s, base |-> b, content |-> c]
  <2>1. b \in Base /\ BaseWasRead(b, s)
    BY <1>1, <1>2, EffectiveBaseWasRead
  <2>2. op \in Op /\ OpIsSound(op)
    BY <2>1 DEF Op, OpIsSound
  <2>3. /\ ops' = [ops EXCEPT ![h] = op]
        /\ UNCHANGED <<recordVars, requests, conflicts, outbox>>
    BY <1>2 DEF DirectRead, Begin
  <2> HIDE DEF op
  <2>. QED  BY <2>2, <2>3, ReadPreserves
<1>3. ASSUME NEW i \in Images, SubmitRead(h, s, i, c)
      PROVE  InductiveInvariant'
  <2>1. PICK b \in EffectiveBases(s) :
           ops' = [ops EXCEPT ![h] = [kind |-> "submit", slot |-> s,
                                      base |-> b, content |-> c, image |-> i]]
    BY <1>3 DEF SubmitRead, Begin
  <2> DEFINE op == [kind |-> "submit", slot |-> s, base |-> b,
                    content |-> c, image |-> i]
  <2>2. b \in Base /\ BaseWasRead(b, s)
    BY <1>1, EffectiveBaseWasRead
  <2>3. op \in Op /\ OpIsSound(op)
    BY <2>2 DEF Op, OpIsSound
  <2>4. /\ ops' = [ops EXCEPT ![h] = op]
        /\ UNCHANGED <<recordVars, requests, conflicts, outbox>>
    BY <1>3, <2>1 DEF SubmitRead
  <2> HIDE DEF op
  <2>. QED  BY <2>3, <2>4, ReadPreserves
<1>4. CASE CreateRead(h, s, c)
  <2>1. NoBase \in EffectiveBases(s)
    BY <1>4 DEF CreateRead, EffectiveBases
  <2>2. DirectRead(h, "create", s, c, NoBase)
    BY <1>4 DEF CreateRead
  <2>. QED  BY <1>2, <2>1, <2>2
<1>. QED  BY <1>2, <1>3, <1>4 DEF PatchRead, ImportRead

\* A handler begins with a read of the request.
LEMMA RequestReads ==
    ASSUME InductiveInvariant, TypeOK', NEW h \in Handlers,
           NEW q \in RequestIds,
           ApproveReadRequest(h, q) \/ ReturnRead(h, q) \/ CorrectRead(h, q)
    PROVE  InductiveInvariant'
<1>1. TypeOK
  BY DEF InductiveInvariant
<1>2. PICK kind \in {"approve.read", "return", "correct"} :
         /\ q \in DOMAIN requests
         /\ kind = "approve.read" => requests[q].captured
         /\ ops' = [ops EXCEPT ![h] = RequestOp(kind, q)]
         /\ UNCHANGED <<recordVars, requests, conflicts, outbox>>
  BY DEF ApproveReadRequest, ReturnRead, CorrectRead, Begin
<1>3. requests[q] \in Request
  BY <1>1, <1>2 DEF TypeOK
<1>4. RequestOp(kind, q) \in Op
  BY <1>3 DEF RequestOp, Op, Request
<1>5. OpIsSound(RequestOp(kind, q))
  BY <1>2, <1>3 DEF RequestOp, OpIsSound, RequestWasRead, Request
<1>. QED  BY <1>2, <1>4, <1>5, ReadPreserves

\* approveReview reads the effective record, or finds it changed: either way
\* it remembers the baseline of the request or that it was overtaken.
LEMMA ApproveReads ==
    ASSUME InductiveInvariant, TypeOK', NEW h \in Handlers,
           ApproveReadCurrent(h) \/ ApproveOvertaken(h)
    PROVE  InductiveInvariant'
<1> DEFINE q == ops[h].request
           conflict == [kind |-> "approve.conflict", request |-> q]
<1>1. TypeOK /\ OpIsSound(ops[h])
  BY DEF InductiveInvariant, OpsAreSound
<1>2. /\ ops[h].kind \in {"approve.read", "approve.write"}
      /\ UNCHANGED <<recordVars, requests, conflicts, outbox>>
  BY DEF ApproveReadCurrent, ApproveOvertaken
<1>3. /\ q \in RequestIds /\ ops[h].version \in Nat
      /\ ops[h].content \in Contents
      /\ RequestWasRead(ops[h]) /\ q \in DOMAIN requests
      /\ requests[q].captured
  BY <1>1, <1>2, OpTypes DEF OpIsSound, RequestWasRead
<1>4. /\ requests[q].slot \in Slots
      /\ requests[q].base \in Base
      /\ BaseWasRead(requests[q].base, requests[q].slot)
  BY <1>1, <1>3 DEF TypeOK, Request, InductiveInvariant, RequestsAreSound
<1>5. ASSUME ops' = [ops EXCEPT ![h] = conflict],
             Overtaken(requests[q].base, requests[q].slot)
      PROVE  InductiveInvariant'
  <2>1. conflict \in Op
    BY <1>3 DEF Op
  <2>2. OpIsSound(conflict)
    BY <1>3, <1>5 DEF OpIsSound
  <2> HIDE DEF conflict
  <2>. QED  BY <1>2, <1>5, <2>1, <2>2, ReadPreserves
<1>6. CASE ApproveReadCurrent(h)
  <2>1. PICK b \in EffectiveBases(requests[q].slot) :
          ops' = [ops EXCEPT ![h] =
                    IF b = requests[q].base
                    THEN [kind |-> "approve.write", request |-> q,
                          version |-> ops[h].version,
                          content |-> ops[h].content, current |-> b]
                    ELSE conflict]
    BY <1>6 DEF ApproveReadCurrent
  <2> DEFINE write == [kind |-> "approve.write", request |-> q,
                       version |-> ops[h].version,
                       content |-> ops[h].content, current |-> b]
  <2>2. CASE b = requests[q].base
    <3>1. write \in Op
      BY <1>3, <1>4, <2>2 DEF Op
    <3>2. OpIsSound(write)
      BY <1>3, <2>2 DEF OpIsSound, RequestWasRead
    <3>3. ops' = [ops EXCEPT ![h] = write]
      BY <2>1, <2>2
    <3> HIDE DEF write
    <3>. QED  BY <1>2, <3>1, <3>2, <3>3, ReadPreserves
  <2>3. CASE b # requests[q].base
    <3>1. requests[q].base \notin EffectiveBases(requests[q].slot)
      BY <1>4, <2>1, <2>3, OneEffectiveBase
         DEF InductiveInvariant, RecordInvariant
    <3>2. Overtaken(requests[q].base, requests[q].slot)
      BY <1>1, <1>4, <3>1, NotEffectiveIsOvertaken
    <3>3. ops' = [ops EXCEPT ![h] = conflict]
      BY <2>1, <2>3
    <3>. QED  BY <1>5, <3>2, <3>3
  <2>. QED  BY <2>2, <2>3
<1>7. CASE ApproveOvertaken(h)
  <2>1. requests[q].base = ops[h].current /\ ops[h].kind = "approve.write"
    BY <1>1, <1>7 DEF ApproveOvertaken, OpIsSound
  <2>2. Overtaken(requests[q].base, requests[q].slot)
    <3> DEFINE b == ops[h].current
    <3>1. ~StillCurrent(b) \/ ~ActiveIndexFree(requests[q].slot, b)
      BY <1>7 DEF ApproveOvertaken
    <3>2. CASE b.id = None
      BY <2>1, <3>1, <3>2
         DEF StillCurrent, ActiveIndexFree, Overtaken
    <3>3. CASE b.id # None
      <4>1. /\ b.id \in DOMAIN records
            /\ records[b.id].slot = requests[q].slot
            /\ BirthVersion(b.id) = b.version
        BY <1>4, <2>1, <3>3 DEF BaseWasRead
      <4>2. records[b.id].status # "ACTIVE"
        <5> SUFFICES ASSUME records[b.id].status = "ACTIVE" PROVE FALSE
          OBVIOUS
        <5>1. StillCurrent(b)
          BY <4>1 DEF StillCurrent, BirthVersion
        <5>2. ActiveIndexFree(requests[q].slot, b)
          BY <4>1 DEF ActiveIndexFree, ActiveIn, InductiveInvariant,
                      RecordInvariant, OneEffectiveRecord
        <5>. QED  BY <3>1, <5>1, <5>2
      <4>3. records[b.id].status = "REPLACED"
        BY <1>1, <4>1, <4>2 DEF TypeOK, Record
      <4>. QED  BY <2>1, <3>3, <4>1, <4>3 DEF Overtaken
    <3>. QED  BY <3>2, <3>3
  <2>. QED  BY <1>5, <1>7, <2>2 DEF ApproveOvertaken
<1>. QED  BY <1>6, <1>7

\* The rollback reads an earlier revision of the lineage.
LEMMA RollbackReads ==
    ASSUME InductiveInvariant, TypeOK', NEW h \in Handlers, NEW s \in Slots,
           NEW t \in RecordIds, RollbackRead(h, s, t)
    PROVE  InductiveInvariant'
<1>1. TypeOK /\ RecordInvariant
  BY DEF InductiveInvariant
<1>2. PICK b \in EffectiveBases(s) :
         /\ b.id # None
         /\ t # b.id
         /\ records[t].lineage = records[b.id].lineage
         /\ ops' = [ops EXCEPT ![h] =
                      [kind |-> "rollback", slot |-> s, base |-> b,
                       target |-> t, content |-> records[t].content,
                       images |-> ImagesOf(t)]]
  BY DEF RollbackRead, Begin
<1>3. /\ t \in DOMAIN records /\ records[t].slot = s
      /\ UNCHANGED <<recordVars, requests, conflicts, outbox>>
  BY DEF RollbackRead
<1>4. /\ b \in Base /\ BaseWasRead(b, s)
      /\ b.id \in DOMAIN records /\ records[b.id].status = "ACTIVE"
      /\ records[b.id].slot = s
  BY <1>1, <1>2, EffectiveBaseWasRead DEF BaseWasRead
<1>5. records[t].revision < records[b.id].revision
  <2>1. /\ BirthVersion(t) \in Int /\ BirthVersion(b.id) \in Int
        /\ records[t].revision \in Nat /\ records[b.id].revision \in Nat
    BY <1>1, <1>3, <1>4 DEF BirthVersion, TypeOK, Record
  <2>2. PICK x \in DOMAIN records :
           /\ records[x].status = "ACTIVE" /\ records[x].slot = s
           /\ BirthVersion(t) <= BirthVersion(x)
    BY <1>1, <1>3 DEF RecordInvariant, EffectiveIsLatest
  <2>3. x = b.id
    BY <1>1, <1>4, <2>2 DEF RecordInvariant, OneEffectiveRecord
  <2>4. BirthVersion(t) # BirthVersion(b.id)
    BY <1>1, <1>2, <1>3, <1>4 DEF RecordInvariant, VersionNamesRevision
  <2>5. records[t].revision + BirthVersion(b.id) =
          records[b.id].revision + BirthVersion(t)
    BY <1>1, <1>3, <1>4 DEF RecordInvariant, OneLineagePerSlot
  <2>. QED  BY <2>1, <2>2, <2>3, <2>4, <2>5
<1> DEFINE op == [kind |-> "rollback", slot |-> s, base |-> b,
                  target |-> t, content |-> records[t].content,
                  images |-> ImagesOf(t)]
<1>6. records[t].content \in Contents /\ ImagesOf(t) \subseteq Images
  BY <1>1, <1>3 DEF TypeOK, Record, ImagesOf, Link
<1>7. op \in Op
  BY <1>4, <1>6 DEF Op
<1>8. OpIsSound(op)
  BY <1>2, <1>3, <1>4, <1>5 DEF OpIsSound, TargetWasRead
<1>9. ops' = [ops EXCEPT ![h] = op]
  BY <1>2
<1> HIDE DEF op
<1>. QED  BY <1>3, <1>7, <1>8, <1>9, ReadPreserves

-----------------------------------------------------------------------------
(* Steps that write requests, links or conflicts, but no record.           *)

\* A refused approval is recorded for a request whose slot has moved on.
LEMMA ConflictStep ==
    ASSUME InductiveInvariant, TypeOK', NEW h \in Handlers,
           ApproveAuditConflict(h)
    PROVE  InductiveInvariant'
<1> DEFINE q == ops[h].request
<1>1. /\ q \in DOMAIN requests
      /\ Overtaken(requests[q].base, requests[q].slot)
  BY DEF InductiveInvariant, OpsAreSound, OpIsSound, ApproveAuditConflict
<1>2. /\ UNCHANGED <<recordVars, requests, outbox>>
      /\ conflicts' = conflicts \cup {q}
      /\ ops' = [ops EXCEPT ![h] = DoneOp]
  BY DEF ApproveAuditConflict, End
<1>3. OpsAreSound'
  <2>1. RecordsGrow /\ EvidenceStays /\ RequestsGrow
    BY <1>2, UnchangedGrows
  <2>. QED  BY <1>2, <2>1, EndStaysSound
<1> USE DEF InductiveInvariant
<1>4. RecordInvariant' /\ EvidenceFollowsRecord'
  BY <1>2, RecordsKept, EvidenceKept
<1>5. RequestsAreSound'
  BY <1>1, <1>2 DEF RequestsAreSound, BaseWasRead, Overtaken, BirthVersion,
                    ActiveIn
<1>6. /\ ApprovedOnBaseline' /\ OnePendingRequest'
      /\ NoticesAreSound' /\ NoticeMatchesDecision'
  BY <1>2 DEF ApprovedOnBaseline, OnePendingRequest, NoticesAreSound,
              NoticeMatchesDecision, BirthVersion
<1>7. LinksAreSound' /\ OneRequestPerImage'
  BY <1>2 DEF LinksAreSound, OneRequestPerImage
<1>. QED  BY <1>3, <1>4, <1>5, <1>6, <1>7

\* A new request claims an image no request has claimed.
LEMMA SubmitStep ==
    ASSUME InductiveInvariant, TypeOK', NEW h \in Handlers,
           NEW q \in RequestIds, SubmitCommit(h, q)
    PROVE  InductiveInvariant'
<1> USE DEF InductiveInvariant
<1> DEFINE op == ops[h]
<1>1. /\ op.kind = "submit" /\ op.slot \in Slots /\ op.base \in Base
      /\ op.image \in Images
      /\ BaseWasRead(op.base, op.slot)
  BY OpTypes DEF SubmitCommit, OpsAreSound, OpIsSound
<1>2. /\ q \notin DOMAIN requests
      /\ DOMAIN requests' = DOMAIN requests \cup {q}
      /\ requests'[q].status = "PENDING" /\ requests'[q].slot = op.slot
      /\ requests'[q].base = op.base /\ requests'[q].result = None
      /\ \A x \in DOMAIN requests : requests'[x] = requests[x]
  BY DEF SubmitCommit, NewRequest
<1>3. /\ imageStatus[op.image] = "orphaned"
      /\ imageStatus'[op.image] = "linked"
      /\ \A i \in Images : i # op.image => imageStatus'[i] = imageStatus[i]
  BY <1>1 DEF SubmitCommit, TypeOK, ImageFree
<1> DEFINE new == [image |-> op.image, request |-> q, record |-> None]
<1>4. links' = links \cup {new}
  BY DEF SubmitCommit
<1>5. /\ UNCHANGED <<records, conflicts, outbox>>
      /\ ops' = [ops EXCEPT ![h] = DoneOp]
      /\ PendingIndexFree(op.slot)
  BY DEF SubmitCommit, End
<1>6. RequestsGrow
  BY <1>2 DEF RequestsGrow
<1>7. RecordsGrow
  BY <1>5 DEF RecordsGrow, BirthVersion, ActiveIn
<1>8. \A x \in DOMAIN records : ImagesOf(x)' = ImagesOf(x)
  BY <1>4, <1>5 DEF ImagesOf, TypeOK
<1>9. EvidenceStays
  BY <1>3, <1>8 DEF EvidenceStays
<1>10. OpsAreSound'
  BY <1>5, <1>6, <1>7, <1>9, DoneIsSound, OpsStaySound
<1>11. RecordInvariant'
  BY <1>5, RecordsKept
<1>12. RequestsAreSound'
  BY <1>1, <1>2, <1>5 DEF RequestsAreSound, BaseWasRead, Overtaken,
                          BirthVersion, ActiveIn
<1>13. ApprovedOnBaseline'
  BY <1>2, <1>5 DEF ApprovedOnBaseline, BirthVersion, TypeOK
<1>14. LinksAreSound'
  BY <1>2, <1>3, <1>4, <1>5 DEF LinksAreSound, TypeOK, Link
<1>15. EvidenceFollowsRecord'
  BY <1>3, <1>4, <1>5, <1>8 DEF EvidenceFollowsRecord, TypeOK, Link
<1>16. OnePendingRequest'
  BY <1>2, <1>5 DEF OnePendingRequest, PendingIndexFree
<1>17. OneRequestPerImage'
  BY <1>3, <1>4 DEF OneRequestPerImage, LinksAreSound
<1>18. NoticesAreSound' /\ NoticeMatchesDecision'
  BY <1>2, <1>5 DEF NoticesAreSound, NoticeMatchesDecision, TypeOK, OutboxKey
<1>. QED  BY <1>10, <1>11, <1>12, <1>13, <1>14, <1>15, <1>16, <1>17, <1>18

\* A return or a correction writes one pending request and nothing else that
\* the invariant speaks of.
LEMMA PendingWritePreserves ==
    ASSUME InductiveInvariant, TypeOK', NEW h \in Handlers, NEW q,
           q \in DOMAIN requests, requests[q].status = "PENDING",
           DOMAIN requests' = DOMAIN requests,
           \A x \in DOMAIN requests : x # q => requests'[x] = requests[x],
           requests'[q].slot = requests[q].slot,
           requests'[q].base = requests[q].base,
           requests'[q].captured = requests[q].captured,
           requests'[q].result = requests[q].result,
           requests[q].version < requests'[q].version,
           requests'[q].status \in {"PENDING", "RETURNED"},
           UNCHANGED <<recordVars, conflicts>>,
           ops' = [ops EXCEPT ![h] = DoneOp],
           NoticesAreSound', NoticeMatchesDecision'
    PROVE  InductiveInvariant'
<1>1. RecordsGrow /\ EvidenceStays
  BY DEF RecordsGrow, EvidenceStays, BirthVersion, ActiveIn, ImagesOf
<1>2. RequestsGrow
  BY DEF RequestsGrow
<1>3. OpsAreSound'
  BY <1>1, <1>2, EndStaysSound
<1> USE DEF InductiveInvariant
<1>4. RecordInvariant' /\ EvidenceFollowsRecord'
  BY RecordsKept, EvidenceKept
<1>5. RequestsAreSound'
  BY DEF RequestsAreSound, BaseWasRead, Overtaken, BirthVersion, ActiveIn
<1>6. ApprovedOnBaseline'
  <2>1. requests'[q].status # "APPROVED" /\ requests'[q].result = None
    BY DEF RequestsAreSound
  <2>. QED  BY <2>1 DEF ApprovedOnBaseline, BirthVersion, TypeOK
<1>7. OnePendingRequest'
  BY DEF OnePendingRequest
<1>8. LinksAreSound' /\ OneRequestPerImage'
  BY DEF LinksAreSound, OneRequestPerImage
<1>. QED  BY <1>3, <1>4, <1>5, <1>6, <1>7, <1>8

LEMMA ReturnStep ==
    ASSUME InductiveInvariant, TypeOK', NEW h \in Handlers, ReturnCommit(h)
    PROVE  InductiveInvariant'
<1> DEFINE q == ops[h].request
<1>1. TypeOK
  BY DEF InductiveInvariant
<1>2. q \in DOMAIN requests /\ requests[q].status = "PENDING"
  BY DEF ReturnCommit, RequestUnchanged
<1>3. requests[q] \in Request
  BY <1>1, <1>2 DEF TypeOK
<1>4. /\ DOMAIN requests' = DOMAIN requests
      /\ \A x \in DOMAIN requests : x # q => requests'[x] = requests[x]
      /\ requests'[q].slot = requests[q].slot
      /\ requests'[q].base = requests[q].base
      /\ requests'[q].captured = requests[q].captured
      /\ requests'[q].result = requests[q].result
      /\ requests'[q].status = "RETURNED"
      /\ requests'[q].version = requests[q].version + 1
  BY <1>2, <1>3 DEF ReturnCommit, Request
<1>5. requests[q].version < requests'[q].version
  BY <1>3, <1>4 DEF Request
<1>6. /\ UNCHANGED <<recordVars, conflicts>>
      /\ ops' = [ops EXCEPT ![h] = DoneOp]
      /\ outbox' = outbox \cup {[event |-> "review-returned", request |-> q,
                                 version |-> ops[h].version]}
  BY DEF ReturnCommit, End
<1>7. NoticesAreSound'
  BY <1>2, <1>4, <1>6 DEF InductiveInvariant, NoticesAreSound
<1>8. NoticeMatchesDecision'
  <2> DEFINE k == [event |-> "review-returned", request |-> q,
                   version |-> ops[h].version]
  <2>1. k.event = "review-returned" /\ k.request = q /\ outbox' = outbox \cup {k}
    BY <1>6
  <2> HIDE DEF k, q
  <2>2. ASSUME NEW x \in DOMAIN requests'
        PROVE  /\ requests'[x].status = "APPROVED" <=>
                     \E n \in outbox' : n.event = "review-approved" /\ n.request = x
               /\ requests'[x].status = "RETURNED" <=>
                     \E n \in outbox' : n.event = "review-returned" /\ n.request = x
    <3>1. /\ requests[x].status = "APPROVED" <=>
                \E n \in outbox : n.event = "review-approved" /\ n.request = x
          /\ requests[x].status = "RETURNED" <=>
                \E n \in outbox : n.event = "review-returned" /\ n.request = x
      BY <1>4 DEF InductiveInvariant, NoticeMatchesDecision
    <3>2. CASE x = q
      BY <1>2, <1>4, <2>1, <3>1, <3>2
    <3>3. CASE x # q
      BY <1>4, <2>1, <3>1, <3>3
    <3>. QED  BY <3>2, <3>3
  <2>. QED  BY <2>2 DEF NoticeMatchesDecision
<1> HIDE DEF q
<1>. QED  BY <1>2, <1>4, <1>5, <1>6, <1>7, <1>8, PendingWritePreserves

LEMMA CorrectStep ==
    ASSUME InductiveInvariant, TypeOK', NEW h \in Handlers, NEW c \in Contents,
           CorrectCommit(h, c)
    PROVE  InductiveInvariant'
<1> DEFINE q == ops[h].request
<1>1. TypeOK
  BY DEF InductiveInvariant
<1>2. q \in DOMAIN requests /\ requests[q].status = "PENDING"
  BY DEF CorrectCommit, RequestUnchanged
<1>3. requests[q] \in Request
  BY <1>1, <1>2 DEF TypeOK
<1>4. /\ DOMAIN requests' = DOMAIN requests
      /\ \A x \in DOMAIN requests : x # q => requests'[x] = requests[x]
      /\ requests'[q].slot = requests[q].slot
      /\ requests'[q].base = requests[q].base
      /\ requests'[q].captured = requests[q].captured
      /\ requests'[q].result = requests[q].result
      /\ requests'[q].status = "PENDING"
      /\ requests'[q].version = requests[q].version + 1
  BY <1>2, <1>3 DEF CorrectCommit, Request
<1>5. requests[q].version < requests'[q].version
  BY <1>3, <1>4 DEF Request
<1>6. /\ UNCHANGED <<recordVars, conflicts, outbox>>
      /\ ops' = [ops EXCEPT ![h] = DoneOp]
  BY DEF CorrectCommit, End
<1>7. NoticesAreSound'
  BY <1>4, <1>6 DEF InductiveInvariant, NoticesAreSound
<1>8. NoticeMatchesDecision'
  BY <1>2, <1>4, <1>6 DEF InductiveInvariant, NoticeMatchesDecision
<1> HIDE DEF q
<1>. QED  BY <1>2, <1>4, <1>5, <1>6, <1>7, <1>8, PendingWritePreserves

-----------------------------------------------------------------------------
(* Steps that write a record.                                              *)

\* Requests and conflicts that stay the same stay sound while records grow.
LEMMA RequestsKept ==
    ASSUME InductiveInvariant, RecordsGrow,
           UNCHANGED <<requests, conflicts>>
    PROVE  RequestsAreSound' /\ ApprovedOnBaseline' /\ OnePendingRequest'
<1>1. TypeOK /\ RequestsAreSound /\ ApprovedOnBaseline /\ OnePendingRequest
  BY DEF InductiveInvariant
<1>2. \A q \in DOMAIN requests :
         requests[q].slot \in Slots /\ requests[q].base \in Base
  BY <1>1 DEF TypeOK, Request
<1>3. RequestsAreSound'
  <2>1. ASSUME NEW q \in DOMAIN requests
        PROVE  BaseWasRead(requests[q].base, requests[q].slot)'
    <3>1. BaseWasRead(requests[q].base, requests[q].slot)
      BY <1>1 DEF RequestsAreSound
    <3>2. \A b \in Base, s \in Slots :
             BaseWasRead(b, s) => BaseWasRead(b, s)'
      BY BaseStable
    <3>. QED  BY <1>2, <3>1, <3>2
  <2>2. ASSUME NEW q \in conflicts
        PROVE  /\ q \in DOMAIN requests
               /\ Overtaken(requests[q].base, requests[q].slot)'
    <3>1. q \in DOMAIN requests /\ Overtaken(requests[q].base, requests[q].slot)
      BY <1>1 DEF RequestsAreSound
    <3>2. \A b \in Base, s \in Slots : Overtaken(b, s) => Overtaken(b, s)'
      BY OvertakenStable
    <3>. QED  BY <1>2, <3>1, <3>2
  <2>. QED  BY <1>1, <2>1, <2>2 DEF RequestsAreSound
<1>4. ApprovedOnBaseline'
  BY <1>1 DEF ApprovedOnBaseline, RecordsGrow
<1>5. OnePendingRequest'
  BY <1>1 DEF OnePendingRequest
<1>. QED  BY <1>3, <1>4, <1>5

\* A created, corrected or imported record.
LEMMA DirectStep ==
    ASSUME InductiveInvariant, TypeOK', NEW h \in Handlers,
           NEW r \in RecordIds, DirectCommit(h, r)
    PROVE  InductiveInvariant'
<1>1. TypeOK /\ RecordInvariant /\ OpIsSound(ops[h]) /\ EvidenceFollowsRecord
  BY DEF InductiveInvariant, OpsAreSound
<1> DEFINE s == ops[h].slot
           b == ops[h].base
           c == ops[h].content
           k == ActionOf(ops[h].kind)
<1>2. /\ s \in Slots /\ b \in Base /\ c \in Contents
      /\ k \in {"CORRECT_AND_CONFIRM", "ADMIN_IMPORT"}
      /\ BaseWasRead(b, s)
      /\ Revise(r, s, b, c, k, None)
  BY <1>1, OpTypes DEF DirectCommit, OpIsSound, ActionOf
<1>3. /\ UNCHANGED <<requests, links, imageStatus, conflicts, outbox>>
      /\ ops' = [ops EXCEPT ![h] = DoneOp]
  BY DEF DirectCommit, End
<1> HIDE DEF s, b, c, k
<1>4. RecordInvariant'
  BY <1>1, <1>2, ReviseKeepsRecords
<1>5. /\ RecordsGrow
      /\ DOMAIN records' = DOMAIN records \cup {r}
      /\ records'[r] = NextRevision(r, s, b, c, k, None)
  BY <1>1, <1>2, ReviseEffect
<1>6. EvidenceStays /\ RequestsGrow
  BY <1>3 DEF EvidenceStays, RequestsGrow, ImagesOf
<1>7. OpsAreSound'
  BY <1>3, <1>5, <1>6, EndStaysSound
<1>8. RequestsAreSound' /\ ApprovedOnBaseline' /\ OnePendingRequest'
  BY <1>3, <1>5, RequestsKept
<1>9. EvidenceFollowsRecord'
  <2>1. records'[r].action # "ROLLBACK"
    BY <1>2, <1>5 DEF NextRevision, NextVersion
  <2>2. \A x \in DOMAIN records : ImagesOf(x)' = ImagesOf(x)
    BY <1>6 DEF EvidenceStays
  <2>. QED  BY <1>1, <1>3, <1>5, <2>1, <2>2
            DEF EvidenceFollowsRecord, RecordsGrow
<1>10. LinksAreSound' /\ OneRequestPerImage' /\ NoticesAreSound'
       /\ NoticeMatchesDecision'
  BY <1>3, <1>5 DEF InductiveInvariant, LinksAreSound, OneRequestPerImage,
                    NoticesAreSound, NoticeMatchesDecision
<1>. QED  BY <1>4, <1>7, <1>8, <1>9, <1>10 DEF InductiveInvariant

\* A restored revision takes the fields and the evidence of its target.
LEMMA RollbackStep ==
    ASSUME InductiveInvariant, TypeOK', NEW h \in Handlers,
           NEW r \in RecordIds, RollbackCommit(h, r)
    PROVE  InductiveInvariant'
<1>1. /\ TypeOK /\ RecordInvariant /\ OpIsSound(ops[h])
      /\ EvidenceFollowsRecord /\ LinksAreSound /\ OneRequestPerImage
  BY DEF InductiveInvariant, OpsAreSound
<1> DEFINE s == ops[h].slot
           b == ops[h].base
           c == ops[h].content
           t == ops[h].target
           new == {[image |-> i, request |-> None, record |-> r]
                     : i \in ops[h].images}
<1>2. /\ s \in Slots /\ b \in Base /\ c \in Contents /\ t \in RecordIds
      /\ BaseWasRead(b, s)
      /\ Revise(r, s, b, c, "ROLLBACK", t)
      /\ TargetWasRead(ops[h])
  BY <1>1, OpTypes DEF RollbackCommit, OpIsSound
<1>3. /\ UNCHANGED <<requests, imageStatus, conflicts>>
      /\ ops' = [ops EXCEPT ![h] = DoneOp]
      /\ links' = links \cup new
      /\ outbox' = outbox \cup {[event |-> "qualification-rollback",
                                 record |-> r]}
  BY DEF RollbackCommit, End
<1>4. /\ b.id # None /\ t \in DOMAIN records
      /\ records[t].lineage = records[b.id].lineage
      /\ records[t].revision < records[b.id].revision
      /\ records[t].content = c
      /\ ImagesOf(t) = ops[h].images
  BY <1>2 DEF TargetWasRead
<1>5. \A l \in new : l.request = None /\ l.record = r /\ l.image \in ImagesOf(t)
  BY <1>4
<1>6. \A i \in ImagesOf(t) : \E l \in new : l.record = r /\ l.image = i
  <2> SUFFICES ASSUME NEW i \in ImagesOf(t)
               PROVE  \E l \in new : l.record = r /\ l.image = i
    OBVIOUS
  <2>1. [image |-> i, request |-> None, record |-> r] \in new
    BY <1>4
  <2>. QED  BY <2>1
<1> HIDE DEF s, b, c, t, new
<1>7. RecordInvariant'
  BY <1>1, <1>2, ReviseKeepsRecords
<1>8. /\ RecordsGrow
      /\ r \notin DOMAIN records
      /\ DOMAIN records' = DOMAIN records \cup {r}
      /\ records'[r] = NextRevision(r, s, b, c, "ROLLBACK", t)
  BY <1>1, <1>2, ReviseEffect
<1>9. \A x \in DOMAIN records : ImagesOf(x)' = ImagesOf(x)
  BY <1>3, <1>5, <1>8 DEF ImagesOf
<1>10. ImagesOf(r)' = ImagesOf(t)
  <2>1. \A l \in links : l.record # r
    BY <1>1, <1>8 DEF LinksAreSound
  <2>. QED  BY <1>3, <1>5, <1>6, <2>1 DEF ImagesOf
<1>11. EvidenceStays /\ RequestsGrow
  BY <1>3, <1>9 DEF EvidenceStays, RequestsGrow
<1>12. OpsAreSound'
  BY <1>3, <1>8, <1>11, EndStaysSound
<1>13. RequestsAreSound' /\ ApprovedOnBaseline' /\ OnePendingRequest'
  BY <1>3, <1>8, RequestsKept
<1>14. \A i \in ImagesOf(t) : imageStatus[i] = "retained"
  BY <1>1, <1>4 DEF ImagesOf, EvidenceFollowsRecord, TypeOK
<1>15. EvidenceFollowsRecord'
  <2>1. \A l \in links' : l.record # None => imageStatus'[l.image] = "retained"
    BY <1>1, <1>3, <1>5, <1>14 DEF EvidenceFollowsRecord
  <2>2. ASSUME NEW x \in DOMAIN records', records'[x].action = "ROLLBACK",
               NEW y, y = records'[x].restores
        PROVE  /\ y \in DOMAIN records'
               /\ records'[y].lineage = records'[x].lineage
               /\ records'[y].revision < records'[x].revision
               /\ records'[y].content = records'[x].content
               /\ ImagesOf(x)' = ImagesOf(y)'
    <3>1. CASE x = r
      <4>1. /\ y = t
            /\ records'[x].lineage = records[b.id].lineage
            /\ records'[x].revision = records[b.id].revision + 1
            /\ records'[x].content = c
        BY <1>4, <1>8, <2>2, <3>1 DEF NextRevision, NextVersion
      <4>2. b.id \in DOMAIN records
        BY <1>2, <1>4 DEF BaseWasRead
      <4>3. records[t].revision \in Nat /\ records[b.id].revision \in Nat
        BY <1>1, <1>4, <4>2 DEF TypeOK, Record
      <4>. QED  BY <1>4, <1>8, <1>9, <1>10, <3>1, <4>1, <4>3 DEF RecordsGrow
    <3>2. CASE x \in DOMAIN records
      <4>1. y = records[x].restores /\ records[x].action = "ROLLBACK"
        BY <1>8, <2>2, <3>2 DEF RecordsGrow
      <4>2. /\ y \in DOMAIN records
            /\ records[y].lineage = records[x].lineage
            /\ records[y].revision < records[x].revision
            /\ records[y].content = records[x].content
            /\ ImagesOf(x) = ImagesOf(y)
        BY <1>1, <3>2, <4>1 DEF EvidenceFollowsRecord
      <4>. QED  BY <1>8, <1>9, <3>2, <4>2 DEF RecordsGrow
    <3>. QED  BY <1>8, <3>1, <3>2
  <2>. QED  BY <2>1, <2>2 DEF EvidenceFollowsRecord
<1>16. LinksAreSound'
  BY <1>1, <1>3, <1>5, <1>8, <1>14 DEF LinksAreSound
<1>17. OneRequestPerImage'
  BY <1>1, <1>3, <1>5 DEF OneRequestPerImage
<1>18. NoticesAreSound' /\ NoticeMatchesDecision'
  <2> DEFINE n == [event |-> "qualification-rollback", record |-> r]
  <2>1. n.event = "qualification-rollback" /\ outbox' = outbox \cup {n}
    BY <1>3
  <2> HIDE DEF n
  <2>2. NoticesAreSound'
    BY <1>3, <2>1 DEF InductiveInvariant, NoticesAreSound
  <2>3. NoticeMatchesDecision'
    BY <1>3, <2>1 DEF InductiveInvariant, NoticeMatchesDecision
  <2>. QED  BY <2>2, <2>3
<1>. QED  BY <1>7, <1>12, <1>13, <1>15, <1>16, <1>17, <1>18
          DEF InductiveInvariant

\* The approval of a request is a decision and a new effective record, on the
\* baseline the request was submitted on.
LEMMA ApproveStep ==
    ASSUME InductiveInvariant, TypeOK', NEW h \in Handlers,
           NEW r \in RecordIds, ApproveCommit(h, r)
    PROVE  InductiveInvariant'
<1>1. /\ TypeOK /\ RecordInvariant /\ OpIsSound(ops[h])
      /\ EvidenceFollowsRecord /\ LinksAreSound /\ OneRequestPerImage
      /\ RequestsAreSound /\ ApprovedOnBaseline /\ OnePendingRequest
      /\ NoticesAreSound /\ NoticeMatchesDecision
  BY DEF InductiveInvariant, OpsAreSound
<1> DEFINE q == ops[h].request
           s == requests[q].slot
           b == ops[h].current
           c == ops[h].content
           n == [event |-> "review-approved", request |-> q,
                 version |-> ops[h].version]
<1>2. /\ q \in DOMAIN requests /\ q \in RequestIds
      /\ requests[q].status = "PENDING"
      /\ requests[q].version = ops[h].version
      /\ requests[q] \in Request
      /\ ops[h].kind = "approve.write"
  BY <1>1 DEF ApproveCommit, RequestUnchanged, TypeOK
<1>3. /\ s \in Slots /\ b \in Base /\ c \in Contents
      /\ b = requests[q].base /\ c = requests[q].content
      /\ BaseWasRead(b, s)
  BY <1>1, <1>2, OpTypes
     DEF OpIsSound, RequestWasRead, RequestsAreSound, Request
<1>4. Revise(r, s, b, c, "CONFIRM", None)
  BY DEF ApproveCommit
<1>5. /\ DOMAIN requests' = DOMAIN requests
      /\ \A x \in DOMAIN requests : x # q => requests'[x] = requests[x]
      /\ requests'[q].slot = s
      /\ requests'[q].base = requests[q].base
      /\ requests'[q].captured = requests[q].captured
      /\ requests'[q].content = requests[q].content
      /\ requests'[q].result = r
      /\ requests'[q].status = "APPROVED"
      /\ requests'[q].version = requests[q].version + 2
  BY <1>2 DEF ApproveCommit, Request
<1>6. /\ links' = {IF l.request = q THEN [l EXCEPT !.record = r] ELSE l
                     : l \in links}
      /\ \A i \in Images : imageStatus'[i] =
            IF i \in ImagesOfRequest(q) THEN "retained" ELSE imageStatus[i]
      /\ outbox' = outbox \cup {n}
      /\ conflicts' = conflicts
      /\ ops' = [ops EXCEPT ![h] = DoneOp]
  BY DEF ApproveCommit, End
<1>7. /\ \A l \in links : l.request # q => l \in links'
      /\ \A l \in links : l.request = q =>
            [image |-> l.image, request |-> q, record |-> r] \in links'
      /\ \A k \in links' :
            \/ k \in links /\ k.request # q
            \/ \E l \in links :
                  /\ l.request = q /\ l.record = None
                  /\ k.image = l.image /\ k.request = q /\ k.record = r
  <2>1. ASSUME NEW l \in links, l.request = q
        PROVE  /\ [l EXCEPT !.record = r] =
                     [image |-> l.image, request |-> q, record |-> r]
               /\ l.record = None
    <3>1. l \in Link
      BY <1>1 DEF TypeOK
    <3>2. q # None
      BY <1>2
    <3>. QED  BY <1>1, <1>2, <2>1, <3>1, <3>2 DEF Link, LinksAreSound
  <2>2. \A l \in links :
           (IF l.request = q THEN [l EXCEPT !.record = r] ELSE l) \in links'
    BY <1>6
  <2>3. \A k \in links' : \E l \in links :
           k = IF l.request = q THEN [l EXCEPT !.record = r] ELSE l
    BY <1>6
  <2>4. ASSUME NEW l \in links, l.request = q
        PROVE  [image |-> l.image, request |-> q, record |-> r] \in links'
    BY <2>1, <2>2, <2>4
  <2>5. ASSUME NEW k \in links'
        PROVE  \/ k \in links /\ k.request # q
               \/ \E l \in links :
                     /\ l.request = q /\ l.record = None
                     /\ k.image = l.image /\ k.request = q /\ k.record = r
    <3>1. PICK l \in links :
             k = IF l.request = q THEN [l EXCEPT !.record = r] ELSE l
      BY <2>3
    <3>2. CASE l.request = q
      BY <2>1, <3>1, <3>2
    <3>. QED  BY <3>1, <3>2
  <2>6. \A l \in links : l.request # q => l \in links'
    BY <2>2
  <2>. QED  BY <2>4, <2>5, <2>6
<1>8. n.event = "review-approved" /\ n.request = q
  OBVIOUS
<1> HIDE DEF q, s, b, c, n
<1>9. RecordInvariant'
  BY <1>1, <1>3, <1>4, ReviseKeepsRecords
<1>10. /\ RecordsGrow
       /\ r \notin DOMAIN records
       /\ DOMAIN records' = DOMAIN records \cup {r}
       /\ records'[r] = NextRevision(r, s, b, c, "CONFIRM", None)
       /\ BirthVersion(r)' = b.version + 1
  <2>1. TypeOK /\ None \in MaybeRecord
    BY <1>1
  <2>. QED  BY <1>3, <1>4, <2>1, ReviseEffect
<1>11. /\ records'[r].action = "CONFIRM" /\ records'[r].slot = s
       /\ records'[r].content = c /\ records'[r].supersedes = b.id
  BY <1>10 DEF NextRevision, NextVersion
<1>12. RequestsGrow
  <2>1. requests[q].version < requests'[q].version
    BY <1>2, <1>5 DEF Request
  <2>2. requests'[q].slot = requests[q].slot
    BY <1>5 DEF s
  <2>. QED  BY <1>2, <1>5, <2>1, <2>2 DEF RequestsGrow
<1>13. ASSUME NEW x \in DOMAIN records
       PROVE  ImagesOf(x)' = ImagesOf(x)
  <2>1. x # r /\ x # None
    BY <1>1, <1>10 DEF TypeOK
  <2>2. \A k : k \in links' /\ k.record = x <=> k \in links /\ k.record = x
    <3>1. \A k \in links : k.record = x => k.request # q
      BY <1>1, <1>2, <2>1 DEF LinksAreSound
    <3>. QED  BY <1>7, <2>1, <3>1
  <2>. QED  BY <2>2 DEF ImagesOf
<1>14. EvidenceStays
  BY <1>6, <1>13 DEF EvidenceStays
<1>15. OpsAreSound'
  BY <1>6, <1>10, <1>12, <1>14, EndStaysSound
<1>16. RequestsAreSound'
  <2>1. \A x \in DOMAIN requests :
           /\ requests'[x].slot = requests[x].slot
           /\ requests'[x].base = requests[x].base
           /\ requests[x].slot \in Slots /\ requests[x].base \in Base
    BY <1>1, <1>12 DEF RequestsGrow, TypeOK, Request
  <2>2. ASSUME NEW x \in DOMAIN requests
        PROVE  BaseWasRead(requests[x].base, requests[x].slot)'
    <3>1. BaseWasRead(requests[x].base, requests[x].slot)
      BY <1>1 DEF RequestsAreSound
    <3>2. \A a \in Base, u \in Slots :
             BaseWasRead(a, u) => BaseWasRead(a, u)'
      BY <1>10, BaseStable
    <3>. QED  BY <2>1, <3>1, <3>2
  <2>3. ASSUME NEW x \in conflicts
        PROVE  /\ x \in DOMAIN requests
               /\ Overtaken(requests[x].base, requests[x].slot)'
    <3>1. x \in DOMAIN requests /\ Overtaken(requests[x].base, requests[x].slot)
      BY <1>1 DEF RequestsAreSound
    <3>2. \A a \in Base, u \in Slots : Overtaken(a, u) => Overtaken(a, u)'
      BY <1>10, OvertakenStable
    <3>. QED  BY <2>1, <3>1, <3>2
  <2>4. \A x \in DOMAIN requests :
           requests'[x].status # "APPROVED" => requests'[x].result = None
    BY <1>1, <1>5 DEF RequestsAreSound
  <2>. QED  BY <1>5, <1>6, <2>2, <2>3, <2>4 DEF RequestsAreSound
<1>17. ApprovedOnBaseline'
  <2> SUFFICES ASSUME NEW x \in DOMAIN requests,
                      requests'[x].status = "APPROVED",
                      NEW y, y = requests'[x].result
               PROVE  /\ y \in DOMAIN records'
                      /\ records'[y].slot = requests'[x].slot
                      /\ records'[y].content = requests'[x].content
                      /\ records'[y].supersedes = requests'[x].base.id
                      /\ BirthVersion(y)' = requests'[x].base.version + 1
                      /\ \A p \in DOMAIN requests :
                            requests'[p].result = y => p = x
    BY <1>5 DEF ApprovedOnBaseline
  <2>1. ASSUME NEW p \in DOMAIN requests, p # q
        PROVE  requests'[p].result = requests[p].result
               /\ requests[p].result # r
    <3>1. CASE requests[p].status = "APPROVED"
      BY <1>1, <1>5, <1>10, <2>1, <3>1 DEF ApprovedOnBaseline
    <3>2. CASE requests[p].status # "APPROVED"
      BY <1>1, <1>5, <2>1, <3>2 DEF RequestsAreSound
    <3>. QED  BY <3>1, <3>2
  <2>2. CASE x = q
    BY <1>3, <1>5, <1>10, <1>11, <2>1, <2>2
  <2>3. CASE x # q
    <3>1. requests'[x] = requests[x] /\ y # r
      BY <1>5, <2>1, <2>3
    <3>2. /\ y \in DOMAIN records
          /\ records[y].slot = requests[x].slot
          /\ records[y].content = requests[x].content
          /\ records[y].supersedes = requests[x].base.id
          /\ BirthVersion(y) = requests[x].base.version + 1
          /\ \A p \in DOMAIN requests : requests[p].result = y => p = x
      BY <1>1, <3>1 DEF ApprovedOnBaseline
    <3>3. \A p \in DOMAIN requests : requests'[p].result = y => p = x
      BY <1>5, <2>1, <3>1, <3>2
    <3>. QED  BY <1>10, <3>1, <3>2, <3>3 DEF RecordsGrow
  <2>. QED  BY <2>2, <2>3
<1>18. OnePendingRequest'
  BY <1>1, <1>5 DEF OnePendingRequest
<1>19. EvidenceFollowsRecord'
  <2>1. ASSUME NEW k \in links', k.record # None
        PROVE  imageStatus'[k.image] = "retained"
    <3>1. CASE k \in links
      <4>1. k.image \in Images /\ imageStatus[k.image] = "retained"
        BY <1>1, <2>1, <3>1 DEF TypeOK, Link, EvidenceFollowsRecord
      <4>. QED  BY <1>6, <4>1
    <3>2. CASE \E l \in links : l.request = q /\ k.image = l.image
      <4>1. k.image \in Images /\ k.image \in ImagesOfRequest(q)
        BY <1>1, <3>2 DEF TypeOK, Link, ImagesOfRequest
      <4>. QED  BY <1>6, <4>1
    <3>. QED  BY <1>7, <3>1, <3>2
  <2>2. ASSUME NEW x \in DOMAIN records', records'[x].action = "ROLLBACK",
               NEW y, y = records'[x].restores
        PROVE  /\ y \in DOMAIN records'
               /\ records'[y].lineage = records'[x].lineage
               /\ records'[y].revision < records'[x].revision
               /\ records'[y].content = records'[x].content
               /\ ImagesOf(x)' = ImagesOf(y)'
    <3>1. x \in DOMAIN records
      BY <1>10, <1>11, <2>2
    <3>2. y = records[x].restores /\ records[x].action = "ROLLBACK"
      BY <1>10, <2>2, <3>1 DEF RecordsGrow
    <3>3. /\ y \in DOMAIN records
          /\ records[y].lineage = records[x].lineage
          /\ records[y].revision < records[x].revision
          /\ records[y].content = records[x].content
          /\ ImagesOf(x) = ImagesOf(y)
      BY <1>1, <3>1, <3>2 DEF EvidenceFollowsRecord
    <3>. QED  BY <1>10, <1>13, <3>1, <3>3 DEF RecordsGrow
  <2>. QED  BY <2>1, <2>2 DEF EvidenceFollowsRecord
<1>20. LinksAreSound'
  <2> SUFFICES ASSUME NEW k \in links'
               PROVE  /\ imageStatus'[k.image] # "orphaned"
                      /\ k.record # None => k.record \in DOMAIN records'
                      /\ k.request # None =>
                            /\ k.request \in DOMAIN requests'
                            /\ requests'[k.request].status = "PENDING"
                               => k.record = None
    BY DEF LinksAreSound
  <2>1. imageStatus'[k.image] # "orphaned"
    <3>1. PICK l \in links : l.image = k.image
      BY <1>7
    <3>2. l.image \in Images /\ imageStatus[l.image] # "orphaned"
      BY <1>1 DEF TypeOK, Link, LinksAreSound
    <3>. QED  BY <1>6, <3>1, <3>2
  <2>2. CASE k \in links /\ k.request # q
    BY <1>1, <1>5, <1>10, <2>1, <2>2 DEF LinksAreSound
  <2>3. CASE k.request = q /\ k.record = r
    BY <1>2, <1>5, <1>10, <2>1, <2>3
  <2>. QED  BY <1>7, <2>2, <2>3
<1>21. OneRequestPerImage'
  BY <1>1, <1>7 DEF OneRequestPerImage
<1>22. NoticesAreSound'
  BY <1>1, <1>2, <1>5, <1>6, <1>8 DEF NoticesAreSound
<1>23. NoticeMatchesDecision'
  <2> SUFFICES ASSUME NEW x \in DOMAIN requests
      PROVE  /\ requests'[x].status = "APPROVED" <=>
                  \E k \in outbox' : k.event = "review-approved" /\ k.request = x
             /\ requests'[x].status = "RETURNED" <=>
                  \E k \in outbox' : k.event = "review-returned" /\ k.request = x
    BY <1>5 DEF NoticeMatchesDecision
  <2>1. /\ requests[x].status = "APPROVED" <=>
             \E k \in outbox : k.event = "review-approved" /\ k.request = x
        /\ requests[x].status = "RETURNED" <=>
             \E k \in outbox : k.event = "review-returned" /\ k.request = x
    BY <1>1 DEF NoticeMatchesDecision
  <2>2. CASE x = q
    BY <1>2, <1>5, <1>6, <1>8, <2>1, <2>2
  <2>3. CASE x # q
    BY <1>5, <1>6, <1>8, <2>1, <2>3
  <2>. QED  BY <2>2, <2>3
<1>. QED  BY <1>9, <1>15, <1>16, <1>17, <1>18, <1>19, <1>20, <1>21, <1>22,
             <1>23 DEF InductiveInvariant

-----------------------------------------------------------------------------
(* The theorems.                                                           *)

\* Every step keeps the invariant: one case per action.
LEMMA NextInvariant ==
    InductiveInvariant /\ [Next]_vars => InductiveInvariant'
<1> SUFFICES ASSUME InductiveInvariant, [Next]_vars
             PROVE  InductiveInvariant'
  OBVIOUS
<1>1. TypeOK'
  BY NextType DEF InductiveInvariant
<1>3. CASE UNCHANGED vars
  <2>1. RecordsGrow /\ EvidenceStays /\ RequestsGrow
    BY <1>3, UnchangedGrows DEF vars
  <2>2. OpsAreSound'
    <3>1. TypeOK /\ OpsAreSound
      BY DEF InductiveInvariant
    <3>2. \A o \in Op : OpIsSound(o) => OpIsSound(o)'
      BY <1>1, <2>1, <3>1, OpStable
    <3>3. \A h \in Handlers : ops'[h] = ops[h] /\ ops[h] \in Op
      BY <1>3, <3>1 DEF vars, TypeOK
    <3>. QED  BY <3>1, <3>2, <3>3 DEF OpsAreSound
  <2>3. RecordInvariant' /\ EvidenceFollowsRecord'
    BY <1>3, RecordsKept, EvidenceKept DEF vars, InductiveInvariant
  <2>4. RequestsAreSound' /\ ApprovedOnBaseline' /\ OnePendingRequest'
    BY <1>3, <2>1, RequestsKept DEF vars
  <2>5. LinksAreSound' /\ OneRequestPerImage' /\ NoticesAreSound'
        /\ NoticeMatchesDecision'
    BY <1>3 DEF vars, InductiveInvariant, LinksAreSound, OneRequestPerImage,
                NoticesAreSound, NoticeMatchesDecision
  <2>. QED  BY <1>1, <2>2, <2>3, <2>4, <2>5 DEF InductiveInvariant
<1>4. ASSUME NEW h \in Handlers, Abandon(h)
      PROVE  InductiveInvariant'
  BY <1>1, <1>4, DoneIsSound, ReadPreserves DEF Abandon, End
<1>. QED
  BY <1>1, <1>3, <1>4, DirectReads, RequestReads, ApproveReads, RollbackReads,
     ConflictStep, SubmitStep, ReturnStep, CorrectStep, DirectStep,
     RollbackStep, ApproveStep DEF Next

\* The inductive invariant holds of every reachable state.
THEOREM InvariantHolds == Spec => []InductiveInvariant
BY InitInvariant, NextInvariant, PTL DEF Spec

\* A slot never has two effective records, whatever handlers race on it.
THEOREM EffectiveRecordIsUnique == Spec => []OneEffectiveRecord
<1>1. InductiveInvariant => OneEffectiveRecord
  BY DEF InductiveInvariant, RecordInvariant
<1>. QED  BY <1>1, InvariantHolds, PTL

\* The revisions of a slot never fork and leave no gap, and no version number
\* comes back.
THEOREM RevisionsAreOrdered ==
    Spec => [](RevisionsFormChain /\ VersionNamesRevision)
<1>1. InductiveInvariant => RevisionsFormChain /\ VersionNamesRevision
  BY DEF InductiveInvariant, RecordInvariant
<1>. QED  BY <1>1, InvariantHolds, PTL

\* Every approved request became one record, in direct succession of the
\* baseline the request was submitted on.
THEOREM ApprovalsAreOnBaseline == Spec => []ApprovedOnBaseline
<1>1. InductiveInvariant => ApprovedOnBaseline
  BY DEF InductiveInvariant
<1>. QED  BY <1>1, InvariantHolds, PTL

\* A request that was found in conflict never matches the effective record
\* again.
THEOREM ConflictsAreFinal == Spec => []ConflictIsFinal
<1>1. InductiveInvariant => ConflictIsFinal
  <2> SUFFICES ASSUME InductiveInvariant, NEW q \in conflicts,
                      requests[q].base \in EffectiveBases(requests[q].slot)
               PROVE  FALSE
    BY DEF ConflictIsFinal
  <2>1. /\ q \in DOMAIN requests
        /\ Overtaken(requests[q].base, requests[q].slot)
        /\ TypeOK
    BY DEF InductiveInvariant, RequestsAreSound
  <2>2. requests[q].slot \in Slots
    BY <2>1 DEF TypeOK, Request
  <2>. QED  BY <2>1, <2>2, EffectiveNotOvertaken
<1>. QED  BY <1>1, InvariantHolds, PTL

\* A formal record keeps its evidence, and a rollback restores the fields and
\* all the evidence of the revision it names.
THEOREM EvidenceIsKept == Spec => [](EvidenceFollowsRecord /\ OneRequestPerImage)
<1>1. InductiveInvariant => EvidenceFollowsRecord /\ OneRequestPerImage
  BY DEF InductiveInvariant
<1>. QED  BY <1>1, InvariantHolds, PTL

\* A decision is announced if and only if it stands.
THEOREM NoticesAreTrue == Spec => []NoticeMatchesDecision
<1>1. InductiveInvariant => NoticeMatchesDecision
  BY DEF InductiveInvariant
<1>. QED  BY <1>1, InvariantHolds, PTL

\* A decided request is never written again.
THEOREM DecidedIsFinal == Spec => DecisionsAreFinal
<1>1. InductiveInvariant /\ [Next]_vars =>
        [\A q \in DOMAIN requests :
            requests[q].status # "PENDING" => requests'[q] = requests[q]]_vars
  <2> SUFFICES ASSUME InductiveInvariant, Next, NEW q \in DOMAIN requests,
                      requests[q].status # "PENDING"
               PROVE  requests'[q] = requests[q]
    OBVIOUS
  <2> USE DEF Next
  <2>1. PICK h \in Handlers :
          \/ UNCHANGED requests
          \/ \E p \in RequestIds : SubmitCommit(h, p)
          \/ \E r \in RecordIds : ApproveCommit(h, r)
          \/ ReturnCommit(h)
          \/ \E c \in Contents : CorrectCommit(h, c)
    BY DEF SubmitRead, ApproveReadRequest, ApproveReadCurrent,
           ApproveOvertaken, ApproveAuditConflict, ReturnRead, CorrectRead,
           CreateRead, PatchRead, ImportRead, DirectRead, DirectCommit,
           RollbackRead, RollbackCommit, Abandon
  <2>2. ASSUME NEW p \in RequestIds, SubmitCommit(h, p)
        PROVE  requests'[q] = requests[q]
    BY <2>2 DEF SubmitCommit
  <2>3. ASSUME NEW r \in RecordIds, ApproveCommit(h, r)
        PROVE  requests'[q] = requests[q]
    BY <2>3 DEF ApproveCommit, RequestUnchanged
  <2>4. CASE ReturnCommit(h)
    BY <2>4 DEF ReturnCommit, RequestUnchanged
  <2>5. ASSUME NEW c \in Contents, CorrectCommit(h, c)
        PROVE  requests'[q] = requests[q]
    BY <2>5 DEF CorrectCommit, RequestUnchanged
  <2>. QED  BY <2>1, <2>2, <2>3, <2>4, <2>5
<1>. QED  BY <1>1, InvariantHolds, PTL DEF Spec, DecisionsAreFinal

\* A confirmed record appears only with the approval of a request whose
\* baseline is effective at that moment.
THEOREM ConfirmationIsApproval == Spec => ConfirmationConsumesRequest
<1>1. InductiveInvariant /\ [Next]_vars =>
        [\A r \in DOMAIN records' \ DOMAIN records :
            records'[r].action = "CONFIRM" =>
              \E q \in DOMAIN requests :
                  /\ requests[q].status = "PENDING"
                  /\ requests[q].base \in EffectiveBases(requests[q].slot)
                  /\ requests'[q].status = "APPROVED"
                  /\ requests'[q].result = r]_vars
  <2> SUFFICES ASSUME InductiveInvariant, Next,
                      NEW x \in DOMAIN records' \ DOMAIN records,
                      records'[x].action = "CONFIRM"
               PROVE  \E q \in DOMAIN requests :
                        /\ requests[q].status = "PENDING"
                        /\ requests[q].base \in EffectiveBases(requests[q].slot)
                        /\ requests'[q].status = "APPROVED"
                        /\ requests'[q].result = x
    OBVIOUS
  <2>1. PICK h \in Handlers :
          \/ UNCHANGED records
          \/ \E r \in RecordIds : ApproveCommit(h, r)
          \/ \E r \in RecordIds : DirectCommit(h, r)
          \/ \E r \in RecordIds : RollbackCommit(h, r)
    BY DEF Next, SubmitRead, SubmitCommit, ApproveReadRequest,
           ApproveReadCurrent, ApproveOvertaken, ApproveAuditConflict,
           ReturnRead, ReturnCommit, CorrectRead, CorrectCommit, CreateRead,
           PatchRead, ImportRead, DirectRead, RollbackRead, Abandon
  <2>2. ASSUME NEW r, NEW s, NEW base, NEW content, NEW action, NEW restores,
               Revise(r, s, base, content, action, restores)
        PROVE  /\ DOMAIN records' = DOMAIN records \cup {r}
               /\ records'[r].action = action
    BY <2>2 DEF Revise, Superseded, NextRevision
  <2>3. ASSUME NEW r \in RecordIds, DirectCommit(h, r)
        PROVE  FALSE
    <3> DEFINE s == ops[h].slot
               b == ops[h].base
               c == ops[h].content
               k == ActionOf(ops[h].kind)
    <3>1. Revise(r, s, b, c, k, None) /\ k # "CONFIRM"
      BY <2>3 DEF DirectCommit, ActionOf
    <3> HIDE DEF s, b, c, k
    <3>2. DOMAIN records' = DOMAIN records \cup {r} /\ records'[r].action = k
      BY <2>2, <3>1
    <3>. QED  BY <3>1, <3>2
  <2>4. ASSUME NEW r \in RecordIds, RollbackCommit(h, r)
        PROVE  FALSE
    <3> DEFINE s == ops[h].slot
               b == ops[h].base
               c == ops[h].content
               t == ops[h].target
    <3>1. Revise(r, s, b, c, "ROLLBACK", t)
      BY <2>4 DEF RollbackCommit
    <3> HIDE DEF s, b, c, t
    <3>2. /\ DOMAIN records' = DOMAIN records \cup {r}
          /\ records'[r].action = "ROLLBACK"
      BY <2>2, <3>1
    <3>. QED  BY <3>2
  <2>5. ASSUME NEW r \in RecordIds, ApproveCommit(h, r)
        PROVE  \E q \in DOMAIN requests :
                        /\ requests[q].status = "PENDING"
                        /\ requests[q].base \in EffectiveBases(requests[q].slot)
                        /\ requests'[q].status = "APPROVED"
                        /\ requests'[q].result = x
    <3> DEFINE q == ops[h].request
               b == ops[h].current
    <3>1. /\ q \in DOMAIN requests
          /\ requests[q].status = "PENDING"
          /\ ops[h].kind = "approve.write"
      BY <2>5 DEF ApproveCommit, RequestUnchanged
    <3>2. Revise(r, requests[q].slot, b, ops[h].content, "CONFIRM", None)
      BY <2>5 DEF ApproveCommit
    <3>3. x = r
      <4> DEFINE s == requests[q].slot
                 c == ops[h].content
      <4>1. Revise(r, s, b, c, "CONFIRM", None)
        BY <3>2
      <4> HIDE DEF s, b, c
      <4>. QED  BY <2>2, <4>1
    <3>4. requests'[q].status = "APPROVED" /\ requests'[q].result = r
      <4>1. TypeOK
        BY DEF InductiveInvariant
      <4>2. requests' = [requests EXCEPT ![q].status = "APPROVED",
                                         ![q].version = @ + 2,
                                         ![q].result = r]
        BY <2>5 DEF ApproveCommit
      <4>3. requests[q] \in Request
        BY <3>1, <4>1 DEF TypeOK
      <4> HIDE DEF q
      <4>. QED  BY <3>1, <4>2, <4>3 DEF Request
    <3>5. /\ b = requests[q].base /\ b \in Base
          /\ BaseWasRead(b, requests[q].slot)
      <4>1. /\ OpIsSound(ops[h])
            /\ requests[q].base \in Base
            /\ BaseWasRead(requests[q].base, requests[q].slot)
        BY <3>1 DEF InductiveInvariant, OpsAreSound, RequestsAreSound, TypeOK,
                    Request
      <4>. QED  BY <3>1, <4>1 DEF OpIsSound
    <3>6. StillCurrent(b) /\ ActiveIndexFree(requests[q].slot, b)
      BY <3>2 DEF Revise
    <3>7. b \in EffectiveBases(requests[q].slot)
      <4>1. SUFFICES ASSUME b \notin EffectiveBases(requests[q].slot)
                     PROVE  FALSE
        OBVIOUS
      <4>2. TypeOK /\ requests[q].slot \in Slots
        BY <3>1 DEF InductiveInvariant, TypeOK, Request
      <4>3. Overtaken(b, requests[q].slot)
        BY <3>5, <4>1, <4>2, NotEffectiveIsOvertaken
      <4>. QED  BY <3>6, <4>2, <4>3
                DEF Overtaken, StillCurrent, ActiveIndexFree, ActiveIn, TypeOK
    <3>. QED  BY <3>1, <3>3, <3>4, <3>5, <3>7
  <2>. QED  BY <2>1, <2>3, <2>4, <2>5
<1>. QED  BY <1>1, InvariantHolds, PTL DEF Spec, ConfirmationConsumesRequest

-----------------------------------------------------------------------------
(* Every step is a step of QualificationRegister or a stutter.             *)

heads == [s \in Slots |-> HeadOf(s)]
entries == [q \in DOMAIN requests |-> EntryOf(q)]

\* The head of a slot is its effective record.
LEMMA HeadIsEffective ==
    ASSUME RecordInvariant, NEW s
    PROVE  /\ ActiveIn(s) = {} =>
                 HeadOf(s) = [version |-> 0, content |-> None]
           /\ \A a \in DOMAIN records :
                 records[a].slot = s /\ records[a].status = "ACTIVE" =>
                   HeadOf(s) = [version |-> records[a].version,
                                content |-> records[a].content]
<1>1. ASSUME NEW a \in DOMAIN records, records[a].slot = s,
             records[a].status = "ACTIVE"
      PROVE  ActiveIn(s) = {a}
  BY <1>1 DEF ActiveIn, RecordInvariant, OneEffectiveRecord
<1>2. ASSUME NEW a, ActiveIn(s) = {a}
      PROVE  HeadOf(s) = [version |-> records[a].version,
                          content |-> records[a].content]
  <2>1. (CHOOSE x \in ActiveIn(s) : TRUE) = a
    BY <1>2
  <2>. QED  BY <1>2, <2>1 DEF HeadOf
<1>. QED  BY <1>1, <1>2 DEF HeadOf

\* Heads and entries move only with their rows.
LEMMA HeadsKept ==
    ASSUME UNCHANGED records PROVE heads' = heads
BY DEF heads, HeadOf, ActiveIn

LEMMA EntriesKept ==
    ASSUME UNCHANGED requests PROVE entries' = entries
BY DEF entries, EntryOf

\* The guarded replacement writes the head of its slot.
LEMMA ReviseWrites ==
    ASSUME TypeOK, RecordInvariant, NEW r \in RecordIds, NEW s \in Slots,
           NEW base \in Base, NEW content \in Contents,
           NEW restores \in MaybeRecord,
           NEW action \in {"CONFIRM", "CORRECT_AND_CONFIRM", "ROLLBACK",
                           "ADMIN_IMPORT"},
           BaseWasRead(base, s),
           Revise(r, s, base, content, action, restores)
    PROVE  /\ heads[s].version = base.version
           /\ heads' = [heads EXCEPT ![s] = [version |-> base.version + 1,
                                             content |-> content]]
<1>1. /\ DOMAIN records' = DOMAIN records \cup {r}
      /\ records'[r] = NextRevision(r, s, base, content, action, restores)
      /\ \A x \in DOMAIN records :
            /\ x # base.id => records'[x] = records[x]
            /\ x = base.id => /\ records'[x].status = "REPLACED"
                              /\ records'[x].version = base.version + 1
      /\ RecordsGrow
      /\ r \notin DOMAIN records
  BY ReviseEffect
<1>2. /\ records'[r].status = "ACTIVE" /\ records'[r].slot = s
      /\ records'[r].version = base.version + 1
      /\ records'[r].content = content
  BY <1>1 DEF NextRevision, NextVersion
<1>3. RecordInvariant'
  BY ReviseKeepsRecords
<1>4. /\ base.id = None =>
            /\ base.version = 0
            /\ \A x \in DOMAIN records : records[x].slot # s
      /\ base.id # None =>
            /\ base.id \in DOMAIN records
            /\ records[base.id].status = "ACTIVE"
            /\ records[base.id].slot = s
            /\ records[base.id].version = base.version
  BY GuardedBase DEF Revise
<1>5. HeadOf(s).version = base.version
  <2>1. CASE base.id = None
    <3>1. ActiveIn(s) = {}
      BY <1>4, <2>1 DEF ActiveIn
    <3>. QED  BY <1>4, <2>1, <3>1, HeadIsEffective
  <2>2. CASE base.id # None
    BY <1>4, <2>2, HeadIsEffective
  <2>. QED  BY <2>1, <2>2
<1>6. HeadOf(s)' = [version |-> base.version + 1, content |-> content]
  <2>1. ActiveIn(s)' = {r}
    BY <1>1, <1>2, <1>3 DEF ActiveIn, RecordInvariant, OneEffectiveRecord
  <2>2. (CHOOSE x \in {r} : TRUE) = r
    OBVIOUS
  <2>. QED  BY <1>2, <2>1, <2>2 DEF HeadOf
<1>7. ASSUME NEW u \in Slots, u # s
      PROVE  HeadOf(u)' = HeadOf(u)
  <2>1. ActiveIn(u)' = ActiveIn(u) /\ \A x \in ActiveIn(u) : x # base.id
    BY <1>1, <1>2, <1>4, <1>7 DEF ActiveIn, RecordsGrow, TypeOK
  <2>2. \A x \in ActiveIn(u) : records'[x] = records[x]
    BY <1>1, <2>1 DEF ActiveIn
  <2>3. ActiveIn(u) # {} => (CHOOSE x \in ActiveIn(u) : TRUE) \in ActiveIn(u)
    OBVIOUS
  <2>. QED  BY <2>1, <2>2, <2>3 DEF HeadOf
<1>. QED  BY <1>5, <1>6, <1>7 DEF heads

\* The initial states of the rows are initial states of the register.
LEMMA InitRefines == Init => Register!Init
<1> SUFFICES ASSUME Init PROVE Register!Init
  OBVIOUS
<1>1. InductiveInvariant
  BY InitInvariant
<1>2. ASSUME NEW s \in Slots
      PROVE  HeadOf(s) \in {Register!Empty}
                             \cup [version: Nat, content: Contents]
  <2>1. RecordInvariant /\ TypeOK
    BY <1>1 DEF InductiveInvariant
  <2>2. CASE ActiveIn(s) = {}
    BY <2>1, <2>2, HeadIsEffective DEF Register!Empty
  <2>3. CASE ActiveIn(s) # {}
    <3>1. PICK a \in DOMAIN records :
             records[a].slot = s /\ records[a].status = "ACTIVE"
      BY <2>3 DEF ActiveIn
    <3>2. records[a].version \in Nat /\ records[a].content \in Contents
      BY <2>1 DEF TypeOK, Record
    <3>. QED  BY <2>1, <3>1, <3>2, HeadIsEffective
  <2>. QED  BY <2>2, <2>3
<1>3. \A q \in DOMAIN requests : requests[q].status = "PENDING"
  <2>1. CASE /\ requests = [q \in {} |-> None]
             /\ links = {}
             /\ imageStatus = [i \in Images |-> "orphaned"]
    BY <2>1
  <2>2. CASE \E q \in RequestIds, s \in Slots, c \in Contents, i \in Images :
               /\ requests = [x \in {q} |-> LegacyRequest(s, c)]
               /\ links = {[image |-> i, request |-> q, record |-> None]}
               /\ imageStatus = [x \in Images |->
                                   IF x = i THEN "linked" ELSE "orphaned"]
    <3>1. PICK q \in RequestIds, s \in Slots, c \in Contents :
             requests = [x \in {q} |-> LegacyRequest(s, c)]
      BY <2>2
    <3>. QED  BY <3>1 DEF LegacyRequest
  <2>. QED  BY <2>1, <2>2, Zenon DEF Init
<1>. QED  BY <1>2, <1>3 DEF Register!Init, EntryOf

\* An administrator's write of a record is a write of the slot.
LEMMA DirectRefines ==
    ASSUME InductiveInvariant, NEW h \in Handlers, NEW r \in RecordIds,
           DirectCommit(h, r) \/ RollbackCommit(h, r)
    PROVE  \E s \in Slots, c \in Contents : Register!Direct(s, c)
<1>1. TypeOK /\ RecordInvariant /\ OpIsSound(ops[h])
  BY DEF InductiveInvariant, OpsAreSound
<1> DEFINE s == ops[h].slot
           b == ops[h].base
           c == ops[h].content
           k == IF ops[h].kind = "rollback" THEN "ROLLBACK"
                ELSE ActionOf(ops[h].kind)
           t == IF ops[h].kind = "rollback" THEN ops[h].target ELSE None
<1>2. /\ s \in Slots /\ b \in Base /\ c \in Contents
      /\ t \in MaybeRecord
      /\ k \in {"CONFIRM", "CORRECT_AND_CONFIRM", "ROLLBACK", "ADMIN_IMPORT"}
      /\ BaseWasRead(b, s)
      /\ Revise(r, s, b, c, k, t)
      /\ UNCHANGED requests
  BY <1>1, OpTypes DEF DirectCommit, RollbackCommit, OpIsSound, ActionOf
<1> HIDE DEF s, b, c, k, t
<1>3. /\ heads[s].version = b.version
      /\ heads' = [heads EXCEPT ![s] = [version |-> b.version + 1,
                                        content |-> c]]
  BY <1>1, <1>2, ReviseWrites
<1>4. entries' = entries
  BY <1>2, EntriesKept
<1>5. Register!Direct(s, c)
  BY <1>2, <1>3, <1>4 DEF Register!Direct, Register!Write, heads, entries
<1>. QED  BY <1>2, <1>5

\* The approval of a request is one compare-and-set on its base.
LEMMA ApproveRefines ==
    ASSUME InductiveInvariant, NEW h \in Handlers, NEW r \in RecordIds,
           ApproveCommit(h, r)
    PROVE  \E q \in RequestIds : Register!Approve(q)
<1>1. TypeOK /\ RecordInvariant /\ OpIsSound(ops[h]) /\ RequestsAreSound
  BY DEF InductiveInvariant, OpsAreSound
<1> DEFINE q == ops[h].request
           s == requests[q].slot
           b == ops[h].current
           c == ops[h].content
<1>2. /\ q \in DOMAIN requests /\ q \in RequestIds
      /\ requests[q].status = "PENDING"
      /\ requests[q].version = ops[h].version
      /\ requests[q] \in Request
      /\ ops[h].kind = "approve.write"
  BY <1>1 DEF ApproveCommit, RequestUnchanged, TypeOK
<1>3. /\ s \in Slots /\ b \in Base /\ c \in Contents
      /\ b = requests[q].base /\ c = requests[q].content
      /\ requests[q].captured
      /\ BaseWasRead(b, s)
  BY <1>1, <1>2, OpTypes
     DEF OpIsSound, RequestWasRead, RequestsAreSound, Request
<1>4. Revise(r, s, b, c, "CONFIRM", None)
  BY DEF ApproveCommit
<1>5. /\ DOMAIN requests' = DOMAIN requests
      /\ \A x \in DOMAIN requests : x # q => requests'[x] = requests[x]
      /\ requests'[q].slot = requests[q].slot
      /\ requests'[q].base = requests[q].base
      /\ requests'[q].captured = requests[q].captured
      /\ requests'[q].content = requests[q].content
      /\ requests'[q].status = "APPROVED"
  BY <1>2 DEF ApproveCommit, Request
<1>6. entries' = [entries EXCEPT ![q].status = "APPROVED"]
  BY <1>2, <1>5 DEF entries, EntryOf
<1>7. /\ entries[q].status = "PENDING" /\ entries[q].base = b.version
      /\ entries[q].slot = s /\ entries[q].content = c
  BY <1>2, <1>3 DEF entries, EntryOf
<1>8. q \in DOMAIN entries
  BY <1>2 DEF entries
<1> HIDE DEF q, s, b, c
<1>9. /\ heads[s].version = b.version
      /\ heads' = [heads EXCEPT ![s] = [version |-> b.version + 1,
                                        content |-> c]]
  <2>1. TypeOK /\ RecordInvariant /\ None \in MaybeRecord
    BY <1>1
  <2>. QED  BY <1>3, <1>4, <2>1, ReviseWrites
<1>10. Register!Approve(q)
  BY <1>3, <1>6, <1>7, <1>8, <1>9
     DEF Register!Approve, Register!Pending, Register!Write, heads, entries
<1>. QED  BY <1>2, <1>10

\* A stored request carries the version its base was read at.
LEMMA SubmitRefines ==
    ASSUME InductiveInvariant, NEW h \in Handlers, NEW q \in RequestIds,
           SubmitCommit(h, q)
    PROVE  \E s \in Slots, c \in Contents :
              \E v \in 0 .. heads[s].version : Register!Submit(q, s, v, c)
<1>1. TypeOK /\ RecordInvariant /\ OpIsSound(ops[h])
  BY DEF InductiveInvariant, OpsAreSound
<1> DEFINE s == ops[h].slot
           b == ops[h].base
           c == ops[h].content
<1>2. s \in Slots /\ b \in Base /\ c \in Contents /\ BaseWasRead(b, s)
  BY <1>1, OpTypes DEF SubmitCommit, OpIsSound
<1>3. /\ q \notin DOMAIN requests
      /\ requests' = [x \in DOMAIN requests \cup {q} |->
                        IF x = q THEN NewRequest(ops[h]) ELSE requests[x]]
      /\ PendingIndexFree(s)
      /\ UNCHANGED records
  BY DEF SubmitCommit
<1>4. b.version \in 0 .. heads[s].version
  <2>1. CASE b.id = None
    <3>1. b.version = 0 /\ heads[s].version \in Nat
      <4>1. CASE ActiveIn(s) = {}
        BY <1>1, <1>2, <2>1, <4>1, HeadIsEffective DEF BaseWasRead, heads
      <4>2. CASE ActiveIn(s) # {}
        <5>1. PICK a \in DOMAIN records :
                 records[a].slot = s /\ records[a].status = "ACTIVE"
          BY <4>2 DEF ActiveIn
        <5>2. records[a].version \in Nat
          BY <1>1 DEF TypeOK, Record
        <5>. QED  BY <1>1, <1>2, <2>1, <5>1, <5>2, HeadIsEffective
                  DEF BaseWasRead, heads
      <4>. QED  BY <4>1, <4>2
    <3>. QED  BY <3>1
  <2>2. CASE b.id # None
    <3>1. /\ b.id \in DOMAIN records /\ records[b.id].slot = s
          /\ BirthVersion(b.id) = b.version
      BY <1>2, <2>2 DEF BaseWasRead
    <3>2. PICK a \in DOMAIN records :
             /\ records[a].status = "ACTIVE" /\ records[a].slot = s
             /\ BirthVersion(b.id) <= BirthVersion(a)
      BY <1>1, <3>1 DEF RecordInvariant, EffectiveIsLatest
    <3>3. BirthVersion(a) = records[a].version /\ records[a].version \in Nat
      BY <1>1, <3>2 DEF BirthVersion, TypeOK, Record
    <3>4. heads[s].version = records[a].version
      BY <1>1, <1>2, <3>2, HeadIsEffective DEF heads
    <3>5. b.version \in Nat
      BY <1>2 DEF Base
    <3>. QED  BY <3>1, <3>2, <3>3, <3>4, <3>5
  <2>. QED  BY <2>1, <2>2
<1>5. NewRequest(ops[h]) =
        [status |-> "PENDING", slot |-> s, version |-> 1, base |-> b,
         captured |-> TRUE, content |-> c, submitted |-> c, result |-> None]
  BY DEF NewRequest
<1> HIDE DEF s, b, c
<1>6. entries' = [x \in DOMAIN entries \cup {q} |->
                    IF x = q THEN Register!Entry(s, b.version, c, "PENDING")
                    ELSE entries[x]]
  BY <1>3, <1>5 DEF entries, EntryOf, Register!Entry
<1>7. \A p \in DOMAIN entries :
         ~(entries[p].slot = s /\ entries[p].status = "PENDING")
  BY <1>3 DEF PendingIndexFree, entries, EntryOf
<1>8. q \notin DOMAIN entries
  BY <1>3 DEF entries
<1>9. heads' = heads
  BY <1>3, HeadsKept
<1>10. Register!Submit(q, s, b.version, c)
  BY <1>2, <1>4, <1>6, <1>7, <1>8, <1>9 DEF Register!Submit, heads, entries
<1>. QED  BY <1>2, <1>4, <1>10

LEMMA CorrectRefines ==
    ASSUME InductiveInvariant, NEW h \in Handlers, NEW c \in Contents,
           CorrectCommit(h, c)
    PROVE  \E q \in RequestIds : Register!Correct(q, c)
<1> DEFINE q == ops[h].request
<1>1. q \in DOMAIN requests /\ q \in RequestIds
      /\ requests[q].status = "PENDING" /\ requests[q] \in Request
  BY DEF CorrectCommit, RequestUnchanged, InductiveInvariant, TypeOK
<1>2. /\ DOMAIN requests' = DOMAIN requests
      /\ \A x \in DOMAIN requests : x # q => requests'[x] = requests[x]
      /\ requests'[q].slot = requests[q].slot
      /\ requests'[q].base = requests[q].base
      /\ requests'[q].captured = requests[q].captured
      /\ requests'[q].status = requests[q].status
      /\ requests'[q].content = c
      /\ UNCHANGED records
  BY <1>1 DEF CorrectCommit, Request
<1>3. entries' = [entries EXCEPT ![q].content = c] /\ heads' = heads
  BY <1>1, <1>2, HeadsKept DEF entries, EntryOf
<1>4. q \in DOMAIN entries /\ entries[q].status = "PENDING"
  BY <1>1 DEF entries, EntryOf
<1>5. Register!Correct(q, c)
  BY <1>3, <1>4 DEF Register!Correct, Register!Pending, heads, entries
<1>. QED  BY <1>1, <1>5

LEMMA ReturnRefines ==
    ASSUME InductiveInvariant, NEW h \in Handlers, ReturnCommit(h)
    PROVE  \E q \in RequestIds : Register!Return(q)
<1> DEFINE q == ops[h].request
<1>1. q \in DOMAIN requests /\ q \in RequestIds
      /\ requests[q].status = "PENDING" /\ requests[q] \in Request
  BY DEF ReturnCommit, RequestUnchanged, InductiveInvariant, TypeOK
<1>2. /\ DOMAIN requests' = DOMAIN requests
      /\ \A x \in DOMAIN requests : x # q => requests'[x] = requests[x]
      /\ requests'[q].slot = requests[q].slot
      /\ requests'[q].base = requests[q].base
      /\ requests'[q].captured = requests[q].captured
      /\ requests'[q].content = requests[q].content
      /\ requests'[q].status = "RETURNED"
      /\ UNCHANGED records
  BY <1>1 DEF ReturnCommit, Request
<1>3. entries' = [entries EXCEPT ![q].status = "RETURNED"] /\ heads' = heads
  BY <1>1, <1>2, HeadsKept DEF entries, EntryOf
<1>4. q \in DOMAIN entries /\ entries[q].status = "PENDING"
  BY <1>1 DEF entries, EntryOf
<1>5. Register!Return(q)
  BY <1>3, <1>4 DEF Register!Return, Register!Pending, heads, entries
<1>. QED  BY <1>1, <1>5

\* Every step is a step of the register or leaves it alone.
LEMMA NextRefines ==
    InductiveInvariant /\ [Next]_vars => [Register!Next]_(Register!vars)
<1> SUFFICES ASSUME InductiveInvariant, [Next]_vars
             PROVE  Register!Next \/ UNCHANGED Register!vars
  OBVIOUS
<1>1. ASSUME UNCHANGED <<records, requests>>
      PROVE  UNCHANGED Register!vars
  BY <1>1, HeadsKept, EntriesKept DEF Register!vars, heads, entries
<1>2. CASE UNCHANGED vars
  BY <1>1, <1>2 DEF vars
<1>3. CASE Next
  <2>1. PICK h \in Handlers :
          \/ UNCHANGED <<records, requests>>
          \/ \E p \in RequestIds : SubmitCommit(h, p)
          \/ \E r \in RecordIds : ApproveCommit(h, r)
          \/ ReturnCommit(h)
          \/ \E c \in Contents : CorrectCommit(h, c)
          \/ \E r \in RecordIds : DirectCommit(h, r) \/ RollbackCommit(h, r)
    BY <1>3 DEF Next, SubmitRead, ApproveReadRequest, ApproveReadCurrent,
                ApproveOvertaken, ApproveAuditConflict, ReturnRead,
                CorrectRead, CreateRead, PatchRead, ImportRead, DirectRead,
                RollbackRead, Abandon
  <2>2. ASSUME NEW p \in RequestIds, SubmitCommit(h, p)
        PROVE  Register!Next
    BY <2>2, SubmitRefines DEF Register!Next, heads
  <2>3. ASSUME NEW r \in RecordIds, ApproveCommit(h, r)
        PROVE  Register!Next
    BY <2>3, ApproveRefines DEF Register!Next
  <2>4. CASE ReturnCommit(h)
    BY <2>4, ReturnRefines DEF Register!Next
  <2>5. ASSUME NEW c \in Contents, CorrectCommit(h, c)
        PROVE  Register!Next
    BY <2>5, CorrectRefines DEF Register!Next
  <2>6. ASSUME NEW r \in RecordIds, DirectCommit(h, r) \/ RollbackCommit(h, r)
        PROVE  Register!Next
    BY <2>6, DirectRefines DEF Register!Next
  <2>. QED  BY <1>1, <2>1, <2>2, <2>3, <2>4, <2>5, <2>6
<1>. QED  BY <1>2, <1>3

\* The handlers implement the register: each takes effect in one step.
THEOREM Refinement == Spec => HandlersAreAtomic
BY InitRefines, NextRefines, InvariantHolds, PTL
   DEF Spec, HandlersAreAtomic, Register!Spec
=============================================================================
