----------------------- MODULE EvidenceLifecycleProofs -----------------------
(***************************************************************************)
(* Proofs of the safety properties of EvidenceLifecycle, for any number of *)
(* images, cleaners, optimisers, reconcilers, updates of rows and faults.  *)
(*                                                                         *)
(* No lock protects an object.  What protects it is that a key, once a row *)
(* had it, is never given to a row again (Published): whoever removes an   *)
(* object removes a published key that no row has, or a key of its own.    *)
(***************************************************************************)
EXTENDS EvidenceLifecycle, FiniteSetTheorems, TLAPS

-----------------------------------------------------------------------------
(* The invariant.                                                          *)

\* A key that is or was a row's, and that no row will be given again: uploads
\* insert once, tasks complete once, and the number of a rebuilt key is less
\* than that of every later update.
Published(k) ==
    /\ upload[k[1]] = "done"
    /\ k[2] = "avif" => task[k[1]].status = "COMPLETED"
    /\ k[2] = "rebuilt" => \/ row[k[1]].status = "none"
                           \/ row[k[1]].stamp > k[3]

\* A row that exists has a key of its own image; one that does not is empty.
RowFits(i) ==
    /\ row[i].status = "none" => row[i] = NoRow
    /\ row[i].status # "none" =>
           /\ upload[i] = "done"
           /\ row[i].key \in Keys /\ row[i].key[1] = i
    /\ Linked(i) => ~ row[i].expired

\* A task is attempted three times, each time from a source.
TaskFits(i) ==
    /\ task[i].status = "none" => task[i].attempts = 0
    /\ task[i].status = "QUEUED" => task[i].attempts < 3
    /\ task[i].status # "none" => task[i].source \in Keys

\* What a process that is not idle has read.
ProcessesFit ==
    /\ \A c \in Cleaners : cleaner[c].stage # "idle" =>
           /\ cleaner[c].image \in Images
           /\ cleaner[c].row.key \in Keys
           /\ cleaner[c].row.key[1] = cleaner[c].image
    /\ \A o \in Optimisers : optimiser[o].stage # "idle" =>
           optimiser[o].image \in Images
    /\ \A r \in Reconcilers :
           /\ reconciler[r].stage \notin {"idle", "sweep", "remove"} =>
                  reconciler[r].image \in Images
           /\ reconciler[r].stage \in {"sweep", "remove"} =>
                  reconciler[r].row.key \in Keys

Shape ==
    /\ TypeOK
    /\ \A i \in Images : RowFits(i) /\ TaskFits(i)
    /\ ProcessesFit

Converting == {"put", "commit", "fail"}

\* A task is converted by the one optimiser that claimed it.
OptimisersExclude ==
    /\ \A o \in Optimisers : optimiser[o].stage \in Converting =>
           task[optimiser[o].image].status = "RUNNING"
    /\ \A o, p \in Optimisers :
           /\ o # p
           /\ optimiser[o].stage \in Converting
           /\ optimiser[p].stage \in Converting
           => optimiser[o].image # optimiser[p].image

Rebuilding == {"read", "write", "switch", "undo", "mark"}

\* The keys of rows and tombstones, and those that clean-up and sweep took
\* from them, are published; so is that of a rebuilt object that lost to
\* another update of the row.
KeysArePublished ==
    /\ \A i \in Images : row[i].status # "none" => Published(row[i].key)
    /\ \A k \in Keys : tombstone[k] = "DELETED" => Published(k)
    /\ \A c \in Cleaners : cleaner[c].stage # "idle" =>
           Published(cleaner[c].row.key)
    /\ \A r \in Reconcilers :
           /\ reconciler[r].stage \in {"sweep", "remove"} =>
                  Published(reconciler[r].row.key)
           /\ reconciler[r].stage = "undo" => Published(Rebuilt(r))

\* A row that reconciliation read is not behind the one it read.
RowsAdvance ==
    \A r \in Reconcilers : reconciler[r].stage \in Rebuilding =>
        LET i == reconciler[r].image
        IN  /\ upload[i] = "done"
            /\ row[i].status = "none" \/ reconciler[r].row.stamp <= row[i].stamp

\* A key that is about to be removed has no row.
SweptIsUnused ==
    \A r \in Reconcilers :
        reconciler[r].stage = "remove" => NotInUse(reconciler[r].row.key)

\* An object that a row is about to refer to is there.
NewObjectsAreStored ==
    /\ \A i \in Images : upload[i] = "put" => UploadKey(i) \in store
    /\ \A o \in Optimisers :
           optimiser[o].stage = "commit" => Target(o) \in store
    /\ \A r \in Reconcilers :
           reconciler[r].stage = "switch" /\ ~ Published(Rebuilt(r)) =>
               Rebuilt(r) \in store

Keeping ==
    /\ OptimisersExclude
    /\ KeysArePublished
    /\ RowsAdvance
    /\ SweptIsUnused
    /\ NewObjectsAreStored

\* An image in clean-up stays an expired orphan until its row is deleted.
CleanedIsExpired ==
    \A c \in Cleaners : cleaner[c].stage # "idle" =>
        LET i == cleaner[c].image
        IN  \/ row[i].status = "none"
            \/ row[i].status = "orphaned" /\ row[i].expired

\* A row that has not expired and vouches for its object has it.
LiveIsStored ==
    \A i \in Images :
        row[i].status # "none" /\ ~ row[i].expired /\ row[i].sanitized =>
            row[i].key \in store

Evidence == CleanedIsExpired /\ LiveIsStored

Lost == store \ Accounted

IInv ==
    /\ Shape
    /\ Keeping
    /\ TombstonesMatchRows
    /\ ~ LateSubmissions => Evidence
    /\ IsFiniteSet(Lost) /\ ObjectsAccountedFor

-----------------------------------------------------------------------------
(* Keys, rows and processes.                                               *)

LEMMA KeyParts ==
    /\ \A i \in Images :
           /\ UploadKey(i) \in Keys
           /\ UploadKey(i)[1] = i /\ UploadKey(i)[2] = "upload"
    /\ \A i \in Images, n \in Attempts :
           /\ AvifKey(i, n) \in Keys
           /\ AvifKey(i, n)[1] = i /\ AvifKey(i, n)[2] = "avif"
    /\ \A i \in Images, n \in 0 .. MaxStamp :
           /\ RebuiltKey(i, n) \in Keys
           /\ RebuiltKey(i, n)[1] = i /\ RebuiltKey(i, n)[2] = "rebuilt"
           /\ RebuiltKey(i, n)[3] = n
    /\ \A k \in Keys : k[1] \in Images
    /\ NoKey \notin Keys
<1>1. \A i \in Images : UploadKey(i) \in Keys
  BY DEF Keys
<1>2. \A i \in Images, n \in Attempts : AvifKey(i, n) \in Keys
  BY DEF Keys
<1>3. \A i \in Images, n \in 0 .. MaxStamp : RebuiltKey(i, n) \in Keys
  BY DEF Keys
<1>4. ASSUME NEW k \in Keys
      PROVE  k[1] \in Images /\ k[2] # "none"
  <2>1. CASE \E i \in Images : k = UploadKey(i)
    BY <2>1 DEF UploadKey
  <2>2. CASE \E i \in Images, n \in Attempts : k = AvifKey(i, n)
    BY <2>2 DEF AvifKey
  <2>3. CASE \E i \in Images, n \in 0 .. MaxStamp : k = RebuiltKey(i, n)
    BY <2>3 DEF RebuiltKey
  <2> QED BY <1>4, <2>1, <2>2, <2>3 DEF Keys
<1>5. NoKey \notin Keys
  BY <1>4 DEF NoKey
<1> QED BY <1>1, <1>2, <1>3, <1>4, <1>5 DEF UploadKey, AvifKey, RebuiltKey

\* Every row is a record of its fields, and any of them may be replaced.
LEMMA RowParts ==
    /\ NoRow \in Row
    /\ \A r \in Row :
           /\ r.status \in {"none", "orphaned", "linked", "retained"}
           /\ r.key \in Keys \cup {NoKey} /\ r.type \in {"jpeg", "avif"}
           /\ r.sanitized \in BOOLEAN /\ r.expired \in BOOLEAN
           /\ r.stamp \in 0 .. MaxStamp
    /\ \A s \in {"none", "orphaned", "linked", "retained"},
          k \in Keys \cup {NoKey}, y \in {"jpeg", "avif"},
          z \in BOOLEAN, e \in BOOLEAN, n \in 0 .. MaxStamp :
           [status |-> s, key |-> k, type |-> y, sanitized |-> z,
            expired |-> e, stamp |-> n] \in Row
BY ConstantsAssumption DEF Row, NoRow

LEMMA NoRowParts ==
    /\ NoRow.status = "none" /\ NoRow.key = NoKey /\ NoRow.stamp = 0
    /\ \A k \in Keys \cup {NoKey} :
           /\ [NoRow EXCEPT !.key = k] \in Row
           /\ [NoRow EXCEPT !.key = k].key = k
<1>1. \A r \in Row, k \in Keys \cup {NoKey} :
          [r EXCEPT !.key = k] \in Row /\ [r EXCEPT !.key = k].key = k
  BY DEF Row
<1>2. NoRow.status = "none" /\ NoRow.key = NoKey /\ NoRow.stamp = 0
  BY DEF NoRow
<1> QED BY <1>1, <1>2, RowParts

LEMMA ProcessParts ==
    \A S : /\ Idle \in Process(S)
           /\ Idle.stage = "idle"
           /\ \A p \in Process(S) :
                  /\ p.stage \in {"idle"} \cup S
                  /\ p.image \in Images \cup {"none"} /\ p.row \in Row
                  /\ \A s \in S :
                         /\ [p EXCEPT !.stage = s] \in Process(S)
                         /\ [p EXCEPT !.stage = s].stage = s
                         /\ [p EXCEPT !.stage = s].image = p.image
                         /\ [p EXCEPT !.stage = s].row = p.row
           /\ \A s \in S, i \in Images \cup {"none"}, r \in Row :
                  [stage |-> s, image |-> i, row |-> r] \in Process(S)
BY RowParts DEF Process, Idle

LEMMA TaskParts ==
    /\ \A t \in Task :
           /\ t.status \in {"none", "QUEUED", "RUNNING", "COMPLETED", "FAILED"}
           /\ t.source \in Keys \cup {NoKey} /\ t.attempts \in 0 .. 3
    /\ \A s \in {"none", "QUEUED", "RUNNING", "COMPLETED", "FAILED"},
          k \in Keys \cup {NoKey}, n \in 0 .. 3 :
           [status |-> s, source |-> k, attempts |-> n] \in Task
BY DEF Task, Attempts

LEMMA TriggerType ==
    ASSUME NEW t \in [Keys -> {"none", "ORPHANED", "DELETED"}], NEW old, NEW new
    PROVE  Trigger(t, old, new) \in [Keys -> {"none", "ORPHANED", "DELETED"}]
BY DEF Trigger

LEMMA UpdatedParts ==
    ASSUME TypeOK, NEW i \in Images, CanUpdate(i)
    PROVE  /\ Updated(i) \in Row
           /\ Updated(i).status = row[i].status /\ Updated(i).key = row[i].key
           /\ Updated(i).type = row[i].type
           /\ Updated(i).sanitized = row[i].sanitized
           /\ Updated(i).expired = row[i].expired
           /\ Updated(i).stamp = row[i].stamp + 1
<1>1. row[i] \in Row
  BY DEF TypeOK
<1>2. \A r \in Row : r.stamp < MaxStamp =>
          LET n == [r EXCEPT !.stamp = @ + 1]
          IN  /\ n \in Row /\ n.status = r.status /\ n.key = r.key
              /\ n.type = r.type /\ n.sanitized = r.sanitized
              /\ n.expired = r.expired /\ n.stamp = r.stamp + 1
  BY ConstantsAssumption DEF Row
<1> QED BY <1>1, <1>2 DEF Updated, CanUpdate

-----------------------------------------------------------------------------
(* What each step writes in a row.                                         *)

\* The row of i is replaced, and the trigger fires.
Replaced(i) ==
    /\ row' = [row EXCEPT ![i] = row'[i]]
    /\ row'[i] \in Row
    /\ tombstone' = Trigger(tombstone, row[i], row'[i])

LEMMA WriteRowReplaces ==
    ASSUME TypeOK, NEW i \in Images, NEW new \in Row, WriteRow(i, new)
    PROVE  Replaced(i) /\ row'[i] = new
BY DEF TypeOK, WriteRow, Replaced

LEMMA InsertWrites ==
    ASSUME TypeOK, NEW i \in Images, UploadInsert(i)
    PROVE  /\ Replaced(i)
           /\ row'[i].status = "orphaned" /\ row'[i].key = UploadKey(i)
           /\ row'[i].expired = FALSE /\ row'[i].stamp = 0
<1> DEFINE Inserted(r) == [r EXCEPT !.status = "orphaned",
                                    !.key = UploadKey(i), !.sanitized = TRUE]
<1>1. \A r \in Row :
          /\ Inserted(r) \in Row /\ Inserted(r).status = "orphaned"
          /\ Inserted(r).key = UploadKey(i)
          /\ Inserted(r).expired = r.expired /\ Inserted(r).stamp = r.stamp
  BY KeyParts DEF Row
<1>2. NoRow \in Row /\ NoRow.expired = FALSE /\ NoRow.stamp = 0
  BY RowParts DEF NoRow
<1>3. WriteRow(i, Inserted(NoRow))
  BY DEF UploadInsert
<1> HIDE DEF Inserted
<1> QED BY <1>1, <1>2, <1>3, WriteRowReplaces

LEMMA LinkWrites ==
    ASSUME TypeOK, NEW i \in Images, SubmitLink(i), row[i].status = "orphaned"
    PROVE  /\ Replaced(i)
           /\ row'[i].status = "linked" /\ row'[i].key = row[i].key
           /\ row'[i].sanitized = row[i].sanitized
           /\ row'[i].expired = FALSE /\ row'[i].stamp = row[i].stamp + 1
<1> DEFINE new == [Updated(i) EXCEPT !.status = "linked", !.expired = FALSE]
<1>1. CanUpdate(i) /\ WriteRow(i, new)
  BY DEF SubmitLink
<1>2. /\ new \in Row /\ new.status = "linked" /\ new.key = row[i].key
      /\ new.sanitized = row[i].sanitized
      /\ new.expired = FALSE /\ new.stamp = row[i].stamp + 1
  BY <1>1, UpdatedParts DEF Row
<1> HIDE DEF new
<1> QED BY <1>1, <1>2, WriteRowReplaces

LEMMA RetainWrites ==
    ASSUME TypeOK, NEW i \in Images, Retain(i)
    PROVE  /\ Replaced(i)
           /\ row'[i].status = "retained" /\ row'[i].key = row[i].key
           /\ row'[i].sanitized = row[i].sanitized
           /\ row'[i].expired = row[i].expired
           /\ row'[i].stamp = row[i].stamp + 1
<1> DEFINE new == [Updated(i) EXCEPT !.status = "retained"]
<1>1. CanUpdate(i) /\ WriteRow(i, new)
  BY DEF Retain
<1>2. /\ new \in Row /\ new.status = "retained" /\ new.key = row[i].key
      /\ new.sanitized = row[i].sanitized
      /\ new.expired = row[i].expired /\ new.stamp = row[i].stamp + 1
  BY <1>1, UpdatedParts DEF Row
<1> HIDE DEF new
<1> QED BY <1>1, <1>2, WriteRowReplaces

LEMMA ExpireWrites ==
    ASSUME TypeOK, NEW i \in Images, Expire(i)
    PROVE  /\ row' = [row EXCEPT ![i] = row'[i]] /\ row'[i] \in Row
           /\ row'[i].status = row[i].status /\ row'[i].key = row[i].key
           /\ row'[i].sanitized = row[i].sanitized
           /\ row'[i].expired = TRUE /\ row'[i].stamp = row[i].stamp
<1> DEFINE new == [row[i] EXCEPT !.expired = TRUE]
<1>1. row' = [row EXCEPT ![i] = new]
  BY DEF Expire
<1>2. /\ new \in Row /\ new.status = row[i].status /\ new.key = row[i].key
      /\ new.sanitized = row[i].sanitized
      /\ new.expired = TRUE /\ new.stamp = row[i].stamp
  BY DEF TypeOK, Row
<1> HIDE DEF new
<1> QED BY <1>1, <1>2 DEF TypeOK

LEMMA MarkWrites ==
    ASSUME TypeOK, NEW i \in Images, CanUpdate(i),
           row' = [row EXCEPT ![i] = [Updated(i) EXCEPT !.sanitized = FALSE]]
    PROVE  /\ row' = [row EXCEPT ![i] = row'[i]] /\ row'[i] \in Row
           /\ row'[i].status = row[i].status /\ row'[i].key = row[i].key
           /\ row'[i].sanitized = FALSE
           /\ row'[i].expired = row[i].expired
           /\ row'[i].stamp = row[i].stamp + 1
<1> DEFINE new == [Updated(i) EXCEPT !.sanitized = FALSE]
<1>1. row' = [row EXCEPT ![i] = new]
  OBVIOUS
<1>2. /\ new \in Row /\ new.status = row[i].status /\ new.key = row[i].key
      /\ new.sanitized = FALSE
      /\ new.expired = row[i].expired /\ new.stamp = row[i].stamp + 1
  BY UpdatedParts DEF Row
<1> HIDE DEF new
<1> QED BY <1>1, <1>2 DEF TypeOK

LEMMA CommitWrites ==
    ASSUME TypeOK, NEW i \in Images, NEW k \in Keys, CanUpdate(i),
           WriteRow(i, [Updated(i) EXCEPT !.key = k, !.type = "avif"])
    PROVE  /\ Replaced(i)
           /\ row'[i].status = row[i].status /\ row'[i].key = k
           /\ row'[i].sanitized = row[i].sanitized
           /\ row'[i].expired = row[i].expired
           /\ row'[i].stamp = row[i].stamp + 1
<1> DEFINE new == [Updated(i) EXCEPT !.key = k, !.type = "avif"]
<1>1. /\ new \in Row /\ new.status = row[i].status /\ new.key = k
      /\ new.sanitized = row[i].sanitized
      /\ new.expired = row[i].expired /\ new.stamp = row[i].stamp + 1
  BY UpdatedParts DEF Row
<1>2. WriteRow(i, new)
  OBVIOUS
<1> HIDE DEF new
<1> QED BY <1>1, <1>2, WriteRowReplaces

LEMMA SwitchWrites ==
    ASSUME TypeOK, NEW i \in Images, NEW k \in Keys, CanUpdate(i),
           WriteRow(i, [Updated(i) EXCEPT !.key = k, !.type = "jpeg",
                                          !.sanitized = TRUE])
    PROVE  /\ Replaced(i)
           /\ row'[i].status = row[i].status /\ row'[i].key = k
           /\ row'[i].expired = row[i].expired
           /\ row'[i].stamp = row[i].stamp + 1
<1> DEFINE new == [Updated(i) EXCEPT !.key = k, !.type = "jpeg",
                                     !.sanitized = TRUE]
<1>1. /\ new \in Row /\ new.status = row[i].status /\ new.key = k
      /\ new.expired = row[i].expired /\ new.stamp = row[i].stamp + 1
  BY UpdatedParts DEF Row
<1>2. WriteRow(i, new)
  OBVIOUS
<1> HIDE DEF new
<1> QED BY <1>1, <1>2, WriteRowReplaces
-----------------------------------------------------------------------------
(* How a step changes the row of an image: who writes it, and what.        *)

Inserted(i) ==
    /\ Replaced(i)
    /\ upload[i] = "put" /\ upload'[i] = "done"
    /\ row'[i].status = "orphaned" /\ row'[i].key = UploadKey(i)
    /\ row'[i].expired = FALSE /\ row'[i].stamp = 0

WasLinked(i) ==
    /\ Replaced(i)
    /\ row[i].expired => LateSubmissions
    /\ row[i].status = "orphaned" /\ row'[i].status = "linked"
    /\ row'[i].key = row[i].key
    /\ row'[i].sanitized = row[i].sanitized
    /\ row'[i].expired = FALSE /\ row'[i].stamp = row[i].stamp + 1

WasRetained(i) ==
    /\ Replaced(i)
    /\ row[i].status = "linked" /\ row'[i].status = "retained"
    /\ row'[i].key = row[i].key
    /\ row'[i].sanitized = row[i].sanitized
    /\ row'[i].expired = row[i].expired
    /\ row'[i].stamp = row[i].stamp + 1

Expired(i) ==
    /\ row' = [row EXCEPT ![i] = row'[i]] /\ row'[i] \in Row
    /\ UNCHANGED tombstone
    /\ row[i].status = "orphaned"
    /\ row'[i].status = row[i].status /\ row'[i].key = row[i].key
    /\ row'[i].sanitized = row[i].sanitized
    /\ row'[i].expired = TRUE /\ row'[i].stamp = row[i].stamp

WasDeleted(i) ==
    /\ Replaced(i)
    /\ row[i].status = "orphaned" /\ row'[i] = NoRow
    /\ \E c \in Cleaners : cleaner[c].stage = "row" /\ cleaner[c].image = i

WasConverted(i) ==
    /\ Replaced(i)
    /\ row[i].status # "none" /\ row'[i].status = row[i].status
    /\ \E o \in Optimisers :
           /\ optimiser[o].stage = "commit" /\ optimiser[o].image = i
           /\ row'[i].key = Target(o)
    /\ task'[i].status = "COMPLETED"
    /\ row'[i].sanitized = row[i].sanitized
    /\ row'[i].expired = row[i].expired
    /\ row'[i].stamp = row[i].stamp + 1

WasRebuilt(i) ==
    /\ Replaced(i)
    /\ row[i].status # "none" /\ row'[i].status = row[i].status
    /\ \E r \in Reconcilers :
           /\ reconciler[r].stage = "switch" /\ reconciler[r].image = i
           /\ Unchanged(r) /\ row'[i].key = Rebuilt(r)
    /\ row'[i].expired = row[i].expired
    /\ row'[i].stamp = row[i].stamp + 1

WasMarked(i) ==
    /\ row' = [row EXCEPT ![i] = row'[i]] /\ row'[i] \in Row
    /\ UNCHANGED tombstone
    /\ row[i].status # "none"
    /\ row'[i].status = row[i].status /\ row'[i].key = row[i].key
    /\ row'[i].sanitized = FALSE
    /\ row'[i].expired = row[i].expired
    /\ row'[i].stamp = row[i].stamp + 1

RowStep(i) ==
    \/ Inserted(i) \/ WasLinked(i) \/ WasRetained(i) \/ Expired(i)
    \/ WasDeleted(i) \/ WasConverted(i) \/ WasRebuilt(i) \/ WasMarked(i)

LEMMA RowActions ==
    ASSUME Next
    PROVE  \/ UNCHANGED <<row, tombstone>>
           \/ \E i \in Images :
                 UploadInsert(i) \/ Expire(i) \/ SubmitLink(i) \/ Retain(i)
           \/ \E c \in Cleaners : CleanRow(c)
           \/ \E o \in Optimisers : OptimiseCommit(o)
           \/ \E r \in Reconcilers : ReconcileSwitch(r) \/ ReconcileMark(r)
BY DEF Next, UploadPut, UploadUndo, UploadDie, SubmitRead, CreateTask,
       RequeueTask, CleanRead, CleanObject, CleanFail, OptimiseRead,
       OptimiseClaim, OptimisePut, OptimiseRefuse, OptimiseError,
       OptimiseFail, OptimiseDie, ReconcileRead, ReconcileVerify,
       ReconcileWrite, ReconcileUndo, ReconcileError, SweepRead, SweepCheck,
       SweepRemove, ReconcileDie

\* The keys of processes that are about to give them to a row.
LEMMA TargetKey ==
    ASSUME Shape, NEW o \in Optimisers, optimiser[o].stage # "idle"
    PROVE  /\ Target(o) \in Keys /\ Target(o)[1] = optimiser[o].image
           /\ Target(o)[2] = "avif"
<1>1. optimiser[o].image \in Images
  BY DEF Shape, ProcessesFit
<1>2. task[optimiser[o].image].attempts \in Attempts
  BY <1>1, TaskParts DEF Shape, TypeOK, Attempts
<1> QED BY <1>1, <1>2, KeyParts DEF Target

LEMMA RebuiltParts ==
    ASSUME Shape, NEW r \in Reconcilers, reconciler[r].stage \in Rebuilding
    PROVE  /\ reconciler[r].image \in Images
           /\ reconciler[r].row \in Row
           /\ reconciler[r].row.stamp \in 0 .. MaxStamp
           /\ Rebuilt(r) \in Keys /\ Rebuilt(r)[1] = reconciler[r].image
           /\ Rebuilt(r)[2] = "rebuilt"
           /\ Rebuilt(r)[3] = reconciler[r].row.stamp
<1>1. reconciler[r].image \in Images
  BY DEF Shape, ProcessesFit, Rebuilding
<1>2. reconciler[r].row \in Row
  BY ProcessParts DEF Shape, TypeOK
<1>3. reconciler[r].row.stamp \in 0 .. MaxStamp
  BY <1>2, RowParts
<1> QED BY <1>1, <1>2, <1>3, KeyParts DEF Rebuilt

LEMMA RowSteps ==
    ASSUME Shape, Next
    PROVE  UNCHANGED <<row, tombstone>> \/ \E i \in Images : RowStep(i)
<1>0. TypeOK
  BY DEF Shape
<1>1. ASSUME NEW i \in Images, UploadInsert(i)
      PROVE  Inserted(i)
  <2>1. upload[i] = "put" /\ upload'[i] = "done"
    BY <1>0, <1>1 DEF UploadInsert, TypeOK
  <2> QED BY <1>0, <1>1, <2>1, InsertWrites DEF Inserted
<1>2. ASSUME NEW i \in Images, Expire(i)
      PROVE  Expired(i)
  BY <1>0, <1>2, ExpireWrites DEF Expire, Expired
<1>3. ASSUME NEW i \in Images, SubmitLink(i)
      PROVE  WasLinked(i) \/ UNCHANGED <<row, tombstone>>
  <2>1. CASE row[i].status = "orphaned"
    <3>1. row[i].expired => LateSubmissions
      BY <1>3 DEF SubmitLink
    <3> QED BY <1>0, <1>3, <2>1, <3>1, LinkWrites DEF WasLinked
  <2>2. CASE row[i].status # "orphaned"
    BY <1>3, <2>2 DEF SubmitLink
  <2> QED BY <2>1, <2>2
<1>4. ASSUME NEW i \in Images, Retain(i)
      PROVE  WasRetained(i)
  <2>1. row[i].status = "linked"
    BY <1>4 DEF Retain
  <2> QED BY <1>0, <1>4, <2>1, RetainWrites DEF WasRetained
<1>5. ASSUME NEW c \in Cleaners, CleanRow(c)
      PROVE  UNCHANGED <<row, tombstone>> \/ WasDeleted(cleaner[c].image)
  <2> DEFINE i == cleaner[c].image
  <2>1. i \in Images /\ cleaner[c].stage = "row"
    BY <1>5 DEF CleanRow, Shape, ProcessesFit
  <2>2. CASE row[i].status = "orphaned"
    <3>1. WriteRow(i, NoRow)
      BY <1>5, <2>2 DEF CleanRow
    <3>2. Replaced(i) /\ row'[i] = NoRow
      BY <1>0, <2>1, <3>1, RowParts, WriteRowReplaces
    <3> QED BY <2>1, <2>2, <3>2 DEF WasDeleted
  <2>3. CASE row[i].status # "orphaned"
    BY <1>5, <2>3 DEF CleanRow
  <2> QED BY <2>2, <2>3
<1>6. ASSUME NEW o \in Optimisers, OptimiseCommit(o)
      PROVE  UNCHANGED <<row, tombstone>> \/ WasConverted(optimiser[o].image)
  <2> DEFINE i == optimiser[o].image
  <2>1. i \in Images /\ optimiser[o].stage = "commit"
    BY <1>6 DEF OptimiseCommit, Shape, ProcessesFit
  <2>2. CASE SourceUnchanged(i)
    <3>1. /\ CanUpdate(i) /\ SetTask(i, "COMPLETED")
          /\ WriteRow(i, [Updated(i) EXCEPT !.key = Target(o),
                                            !.type = "avif"])
      BY <1>6, <2>2 DEF OptimiseCommit
    <3>2. row[i].status # "none"
      BY <2>1, <2>2 DEF SourceUnchanged, Shape, RowFits, NoRow
    <3>3. task'[i].status = "COMPLETED"
      <4>1. task \in [Images -> Task] /\ task[i] \in Task
        BY <1>0, <2>1 DEF TypeOK
      <4>2. task'[i] = [task[i] EXCEPT !.status = "COMPLETED"]
        BY <2>1, <3>1, <4>1 DEF SetTask
      <4> QED BY <4>1, <4>2 DEF Task
    <3>4. Target(o) \in Keys
      BY <2>1, TargetKey
    <3>5. /\ Replaced(i)
          /\ row'[i].status = row[i].status /\ row'[i].key = Target(o)
          /\ row'[i].sanitized = row[i].sanitized
          /\ row'[i].expired = row[i].expired
          /\ row'[i].stamp = row[i].stamp + 1
      BY <1>0, <2>1, <3>1, <3>4, CommitWrites
    <3> QED BY <2>1, <3>2, <3>3, <3>5 DEF WasConverted
  <2>3. CASE ~ SourceUnchanged(i)
    BY <1>6, <2>3 DEF OptimiseCommit
  <2> QED BY <2>2, <2>3
<1>7. ASSUME NEW r \in Reconcilers, ReconcileSwitch(r)
      PROVE  UNCHANGED <<row, tombstone>> \/ WasRebuilt(reconciler[r].image)
  <2> DEFINE i == reconciler[r].image
  <2>1. i \in Images /\ reconciler[r].stage = "switch" /\ Rebuilt(r) \in Keys
    BY <1>7, RebuiltParts DEF ReconcileSwitch, Rebuilding
  <2>2. CASE row[i].status # "none" /\ Unchanged(r)
    <3>1. /\ CanUpdate(i)
          /\ WriteRow(i, [Updated(i) EXCEPT !.key = Rebuilt(r),
                                            !.type = "jpeg",
                                            !.sanitized = TRUE])
      BY <1>7, <2>2 DEF ReconcileSwitch
    <3>2. /\ Replaced(i)
          /\ row'[i].status = row[i].status /\ row'[i].key = Rebuilt(r)
          /\ row'[i].expired = row[i].expired
          /\ row'[i].stamp = row[i].stamp + 1
      BY <1>0, <2>1, <3>1, SwitchWrites
    <3> QED BY <2>1, <2>2, <3>2 DEF WasRebuilt
  <2>3. CASE ~ (row[i].status # "none" /\ Unchanged(r))
    BY <1>7, <2>3 DEF ReconcileSwitch
  <2> QED BY <2>2, <2>3
<1>8. ASSUME NEW r \in Reconcilers, ReconcileMark(r)
      PROVE  UNCHANGED <<row, tombstone>> \/ WasMarked(reconciler[r].image)
  <2> DEFINE i == reconciler[r].image
  <2>1. i \in Images /\ UNCHANGED tombstone
    BY <1>8, RebuiltParts DEF ReconcileMark, Rebuilding
  <2>2. CASE row[i].status # "none" /\ Unchanged(r)
    <3>1. /\ CanUpdate(i)
          /\ row' = [row EXCEPT ![i] = [Updated(i) EXCEPT !.sanitized = FALSE]]
      BY <1>8, <2>2 DEF ReconcileMark
    <3> QED BY <1>0, <2>1, <2>2, <3>1, MarkWrites DEF WasMarked
  <2>3. CASE ~ (row[i].status # "none" /\ Unchanged(r))
    BY <1>8, <2>1, <2>3 DEF ReconcileMark
  <2> QED BY <2>2, <2>3
<1>9. \A c \in Cleaners : CleanRow(c) => cleaner[c].image \in Images
  BY DEF CleanRow, Shape, ProcessesFit
<1>10. \A o \in Optimisers : OptimiseCommit(o) => optimiser[o].image \in Images
  BY DEF OptimiseCommit, Shape, ProcessesFit
<1>11. \A r \in Reconcilers :
          ReconcileSwitch(r) \/ ReconcileMark(r) =>
              reconciler[r].image \in Images
  BY DEF ReconcileSwitch, ReconcileMark, Shape, ProcessesFit
<1> QED BY <1>1, <1>2, <1>3, <1>4, <1>5, <1>6, <1>7, <1>8, <1>9, <1>10, <1>11,
           RowActions DEF RowStep

\* Which actions change the other variables.
LEMMA Frames ==
    ASSUME Next
    PROVE  /\ \/ UNCHANGED upload
              \/ \E i \in Images : UploadPut(i) \/ UploadInsert(i)
                                     \/ UploadUndo(i) \/ UploadDie(i)
           /\ \/ UNCHANGED submission
              \/ \E i \in Images : SubmitRead(i) \/ SubmitLink(i)
           /\ \/ UNCHANGED store
              \/ \E i \in Images : UploadPut(i) \/ UploadUndo(i)
              \/ \E c \in Cleaners : CleanObject(c)
              \/ \E o \in Optimisers : OptimisePut(o) \/ OptimiseFail(o)
              \/ \E r \in Reconcilers : ReconcileWrite(r) \/ ReconcileUndo(r)
                                          \/ SweepRemove(r)
           /\ \/ UNCHANGED <<task, optimiser>>
              \/ UNCHANGED optimiser
                   /\ \E i \in Images : CreateTask(i) \/ RequeueTask(i)
              \/ \E o \in Optimisers :
                    \/ \E i \in Images : OptimiseRead(o, i)
                    \/ OptimiseClaim(o) \/ OptimisePut(o)
                    \/ OptimiseRefuse(o) \/ OptimiseCommit(o)
                    \/ OptimiseError(o) \/ OptimiseFail(o) \/ OptimiseDie(o)
           /\ \/ UNCHANGED cleaner
              \/ \E c \in Cleaners :
                    \/ \E i \in Images : CleanRead(c, i)
                    \/ CleanObject(c) \/ CleanRow(c) \/ CleanFail(c)
           /\ \/ UNCHANGED reconciler
              \/ \E r \in Reconcilers :
                    \/ \E i \in Images : ReconcileRead(r, i)
                    \/ ReconcileVerify(r) \/ ReconcileWrite(r)
                    \/ ReconcileSwitch(r) \/ ReconcileUndo(r)
                    \/ ReconcileError(r) \/ ReconcileMark(r)
                    \/ \E k \in Keys : SweepRead(r, k)
                    \/ SweepCheck(r) \/ SweepRemove(r) \/ ReconcileDie(r)
           /\ UNCHANGED faults \/ Fault
<1>1. CASE \E i \in Images :
              \/ UploadPut(i) \/ UploadInsert(i) \/ UploadUndo(i)
              \/ UploadDie(i) \/ Expire(i) \/ SubmitRead(i) \/ SubmitLink(i)
              \/ Retain(i) \/ CreateTask(i) \/ RequeueTask(i)
  BY <1>1 DEF UploadPut, UploadInsert, UploadUndo, UploadDie, Expire,
              SubmitRead, SubmitLink, Retain, CreateTask, RequeueTask
<1>2. CASE \E c \in Cleaners :
              \/ \E i \in Images : CleanRead(c, i)
              \/ CleanObject(c) \/ CleanRow(c) \/ CleanFail(c)
  BY <1>2 DEF CleanRead, CleanObject, CleanRow, CleanFail
<1>3. CASE \E o \in Optimisers :
              \/ \E i \in Images : OptimiseRead(o, i)
              \/ OptimiseClaim(o) \/ OptimisePut(o) \/ OptimiseRefuse(o)
              \/ OptimiseCommit(o) \/ OptimiseError(o) \/ OptimiseFail(o)
              \/ OptimiseDie(o)
  BY <1>3 DEF OptimiseRead, OptimiseClaim, OptimisePut, OptimiseRefuse,
              OptimiseCommit, OptimiseError, OptimiseFail, OptimiseDie
<1>4. CASE \E r \in Reconcilers :
              \/ \E i \in Images : ReconcileRead(r, i)
              \/ ReconcileVerify(r) \/ ReconcileWrite(r)
              \/ ReconcileSwitch(r) \/ ReconcileUndo(r)
              \/ ReconcileError(r) \/ ReconcileMark(r)
              \/ \E k \in Keys : SweepRead(r, k)
              \/ SweepCheck(r) \/ SweepRemove(r) \/ ReconcileDie(r)
  BY <1>4 DEF ReconcileRead, ReconcileVerify, ReconcileWrite, ReconcileSwitch,
              ReconcileUndo, ReconcileError, ReconcileMark, SweepRead,
              SweepCheck, SweepRemove, ReconcileDie
<1> QED BY <1>1, <1>2, <1>3, <1>4 DEF Next

-----------------------------------------------------------------------------
(* Types, and what rows, tasks and processes hold.                         *)

LEMMA UploadsType ==
    ASSUME Shape, Next
    PROVE  /\ upload' \in [Images -> {"waiting", "put", "done"}]
           /\ \A i \in Images : upload[i] = "done" => upload'[i] = "done"
BY Frames DEF Shape, TypeOK, UploadPut, UploadInsert, UploadUndo, UploadDie

LEMMA SubmissionsType ==
    ASSUME Shape, Next
    PROVE  submission' \in [Images -> {"waiting", "read", "done"}]
BY Frames DEF Shape, TypeOK, SubmitRead, SubmitLink

LEMMA FaultsType ==
    ASSUME Shape, Next
    PROVE  faults' \in 0 .. MaxFaults
BY Frames, ConstantsAssumption DEF Shape, TypeOK, Fault

LEMMA StoreType ==
    ASSUME Shape, Next
    PROVE  store' \subseteq Keys
<1>1. store \subseteq Keys
  BY DEF Shape, TypeOK
<1>2. ASSUME NEW i \in Images, UploadPut(i) PROVE store' \subseteq Keys
  BY <1>1, <1>2, KeyParts DEF UploadPut
<1>3. ASSUME NEW o \in Optimisers, OptimisePut(o) PROVE store' \subseteq Keys
  BY <1>1, <1>3, TargetKey DEF OptimisePut
<1>4. ASSUME NEW r \in Reconcilers, ReconcileWrite(r)
      PROVE  store' \subseteq Keys
  BY <1>1, <1>4, RebuiltParts DEF ReconcileWrite, Rebuilding
<1> QED BY <1>1, <1>2, <1>3, <1>4, Frames
        DEF UploadUndo, CleanObject, OptimiseFail, ReconcileUndo, SweepRemove

LEMMA RowsFit ==
    ASSUME Shape, Next
    PROVE  /\ row' \in [Images -> Row]
           /\ tombstone' \in [Keys -> {"none", "ORPHANED", "DELETED"}]
           /\ \A i \in Images : RowFits(i)'
<1>1. /\ row \in [Images -> Row]
      /\ tombstone \in [Keys -> {"none", "ORPHANED", "DELETED"}]
      /\ \A i \in Images : RowFits(i)
  BY DEF Shape, TypeOK
<1>2. CASE UNCHANGED <<row, tombstone>>
  BY <1>1, <1>2, UploadsType DEF RowFits, Linked
<1>3. ASSUME NEW i \in Images, RowStep(i)
      PROVE  /\ row' \in [Images -> Row]
             /\ tombstone' \in [Keys -> {"none", "ORPHANED", "DELETED"}]
             /\ \A j \in Images : RowFits(j)'
  <2>1. row' = [row EXCEPT ![i] = row'[i]] /\ row'[i] \in Row
    BY <1>3 DEF RowStep, Inserted, WasLinked, WasRetained, Expired, WasDeleted,
                WasConverted, WasRebuilt, WasMarked, Replaced
  <2>2. UNCHANGED tombstone \/ tombstone' = Trigger(tombstone, row[i], row'[i])
    BY <1>3 DEF RowStep, Inserted, WasLinked, WasRetained, Expired, WasDeleted,
                WasConverted, WasRebuilt, WasMarked, Replaced
  <2>3. row' \in [Images -> Row]
    BY <1>1, <2>1
  <2>4. tombstone' \in [Keys -> {"none", "ORPHANED", "DELETED"}]
    BY <1>1, <2>2, TriggerType
  <2>5. ASSUME NEW j \in Images, j # i PROVE RowFits(j)'
    <3>1. row'[j] = row[j]
      BY <1>1, <2>1, <2>5
    <3> QED BY <1>1, <3>1, UploadsType DEF RowFits, Linked
  <2>6. RowFits(i)'
    <3>1. CASE Inserted(i)
      BY <3>1, KeyParts DEF Inserted, RowFits, Linked
    <3>2. CASE WasLinked(i) \/ WasRetained(i) \/ Expired(i) \/ WasMarked(i)
      BY <1>1, <3>2, UploadsType DEF WasLinked, WasRetained, Expired, WasMarked,
                                     RowFits, Linked
    <3>3. CASE WasDeleted(i)
      BY <3>3, NoRowParts DEF WasDeleted, RowFits, Linked
    <3>4. CASE WasConverted(i)
      BY <1>1, <3>4, UploadsType, TargetKey DEF WasConverted, RowFits, Linked
    <3>5. CASE WasRebuilt(i)
      BY <1>1, <3>5, UploadsType, RebuiltParts
      DEF WasRebuilt, RowFits, Linked, Rebuilding
    <3> QED BY <1>3, <3>1, <3>2, <3>3, <3>4, <3>5 DEF RowStep
  <2> QED BY <2>3, <2>4, <2>5, <2>6
<1> QED BY <1>2, <1>3, RowSteps

\* A task after its status is set.
LEMMA SetTaskParts ==
    ASSUME TypeOK, NEW i \in Images,
           NEW s \in {"QUEUED", "RUNNING", "COMPLETED", "FAILED"}, SetTask(i, s)
    PROVE  /\ task' = [task EXCEPT ![i] = task'[i]] /\ task'[i] \in Task
           /\ task'[i].status = s /\ task'[i].source = task[i].source
           /\ task'[i].attempts = task[i].attempts
<1>1. task \in [Images -> Task] /\ task[i] \in Task
  BY DEF TypeOK
<1>2. task'[i] = [task[i] EXCEPT !.status = s]
  BY <1>1 DEF SetTask
<1> QED BY <1>1, <1>2 DEF SetTask, Task

\* How a step changes the task of an image.
TaskStep(i) ==
    /\ task' = [task EXCEPT ![i] = task'[i]] /\ task'[i] \in Task
    /\ \/ /\ task[i].status = "none" /\ task'[i].status = "QUEUED"
          /\ task'[i].source \in Keys /\ task'[i].attempts = task[i].attempts
          /\ UNCHANGED optimiser
       \/ /\ task[i].status = "FAILED" /\ task'[i].status = "QUEUED"
          /\ task[i].attempts < 3
          /\ task'[i].source = task[i].source
          /\ task'[i].attempts = task[i].attempts
          /\ UNCHANGED optimiser
       \/ /\ task[i].status = "QUEUED" /\ task'[i].status = "RUNNING"
          /\ task'[i].source = task[i].source
          /\ task'[i].attempts = task[i].attempts + 1
          /\ \E o \in Optimisers :
                /\ optimiser[o].stage = "claim" /\ optimiser[o].image = i
                /\ optimiser' = [optimiser EXCEPT ![o].stage = "put"]
       \/ /\ task'[i].status \in {"COMPLETED", "FAILED"}
          /\ task'[i].source = task[i].source
          /\ task'[i].attempts = task[i].attempts
          /\ \E o \in Optimisers :
                /\ optimiser[o].stage \in Converting /\ optimiser[o].image = i
                /\ optimiser' = [optimiser EXCEPT ![o] = Idle]

LEMMA TaskSteps ==
    ASSUME Shape, Next
    PROVE  UNCHANGED task \/ \E i \in Images : TaskStep(i)
<1>0. TypeOK /\ task \in [Images -> Task] /\ row \in [Images -> Row]
  BY DEF Shape, TypeOK
<1>1. ASSUME NEW i \in Images, CreateTask(i) PROVE TaskStep(i)
  <2>1. task[i] \in Task /\ row[i] \in Row /\ row[i].key \in Keys
    BY <1>0, <1>1 DEF CreateTask, Linked, Shape, RowFits
  <2>2. task'[i] = [task[i] EXCEPT !.status = "QUEUED", !.source = row[i].key]
    BY <1>0, <1>1 DEF CreateTask
  <2>3. /\ task'[i] \in Task /\ task'[i].status = "QUEUED"
        /\ task'[i].source = row[i].key
        /\ task'[i].attempts = task[i].attempts
    BY <2>1, <2>2 DEF Task
  <2>4. task' = [task EXCEPT ![i] = task'[i]]
    BY <1>0, <1>1 DEF CreateTask
  <2> QED BY <1>1, <2>1, <2>3, <2>4 DEF CreateTask, TaskStep
<1>2. ASSUME NEW i \in Images, RequeueTask(i) PROVE TaskStep(i)
  BY <1>0, <1>2, SetTaskParts DEF RequeueTask, TaskStep
<1>3. ASSUME NEW o \in Optimisers, OptimiseClaim(o)
      PROVE  UNCHANGED task \/ TaskStep(optimiser[o].image)
  <2> DEFINE i == optimiser[o].image
  <2>1. i \in Images /\ optimiser[o].stage = "claim"
    BY <1>3 DEF OptimiseClaim, Shape, ProcessesFit
  <2>2. CASE task[i].status = "QUEUED"
    <3>1. task[i] \in Task /\ task[i].attempts < 3
      BY <1>0, <2>1, <2>2 DEF Shape, TaskFits
    <3>2. task' = [task EXCEPT ![i].status = "RUNNING", ![i].attempts = @ + 1]
      BY <1>3, <2>2 DEF OptimiseClaim
    <3>3. task'[i] = [task[i] EXCEPT !.status = "RUNNING", !.attempts = @ + 1]
      BY <1>0, <2>1, <3>2
    <3>4. /\ task'[i] \in Task /\ task'[i].status = "RUNNING"
          /\ task'[i].source = task[i].source
          /\ task'[i].attempts = task[i].attempts + 1
      <4>1. PICK n \in 0 .. 3 : n = task[i].attempts + 1
        BY <3>1, TaskParts
      <4>2. task'[i] = [task[i] EXCEPT !.status = "RUNNING", !.attempts = n]
        BY <3>3, <4>1
      <4>3. /\ task'[i] \in Task /\ task'[i].status = "RUNNING"
            /\ task'[i].source = task[i].source /\ task'[i].attempts = n
        BY <3>1, <4>2 DEF Task, Attempts
      <4> QED BY <4>1, <4>3
    <3>5. task' = [task EXCEPT ![i] = task'[i]]
      BY <1>0, <2>1, <3>2
    <3>6. optimiser' = [optimiser EXCEPT ![o].stage = "put"]
      BY <1>3, <2>2 DEF OptimiseClaim
    <3> QED BY <2>1, <2>2, <3>4, <3>5, <3>6 DEF TaskStep
  <2>3. CASE task[i].status # "QUEUED"
    BY <1>3, <2>3 DEF OptimiseClaim
  <2> QED BY <2>2, <2>3
<1>4. ASSUME NEW o \in Optimisers,
             OptimiseRefuse(o) \/ OptimiseCommit(o) \/ OptimiseFail(o)
      PROVE  UNCHANGED task \/ TaskStep(optimiser[o].image)
  <2> DEFINE i == optimiser[o].image
  <2>1. i \in Images /\ optimiser[o].stage \in Converting
    BY <1>4 DEF OptimiseRefuse, OptimiseCommit, OptimiseFail, Shape,
                ProcessesFit, Converting
  <2>2. \/ UNCHANGED task
        \/ /\ SetTask(i, "FAILED") \/ SetTask(i, "COMPLETED")
           /\ optimiser' = [optimiser EXCEPT ![o] = Idle]
    BY <1>4 DEF OptimiseRefuse, OptimiseCommit, OptimiseFail
  <2> QED BY <1>0, <2>1, <2>2, SetTaskParts DEF TaskStep
<1>5. UNCHANGED task \/ (\E i \in Images : CreateTask(i) \/ RequeueTask(i))
        \/ \E o \in Optimisers : OptimiseClaim(o) \/ OptimiseRefuse(o)
                                   \/ OptimiseCommit(o) \/ OptimiseFail(o)
  BY Frames DEF OptimiseRead, OptimisePut, OptimiseError, OptimiseDie
<1>6. \A o \in Optimisers :
          OptimiseClaim(o) \/ OptimiseRefuse(o) \/ OptimiseCommit(o)
            \/ OptimiseFail(o) => optimiser[o].image \in Images
  BY DEF OptimiseClaim, OptimiseRefuse, OptimiseCommit, OptimiseFail, Shape,
         ProcessesFit
<1> QED BY <1>1, <1>2, <1>3, <1>4, <1>5, <1>6

LEMMA TasksFit ==
    ASSUME Shape, OptimisersExclude, Next
    PROVE  task' \in [Images -> Task] /\ \A i \in Images : TaskFits(i)'
<1>1. task \in [Images -> Task] /\ \A i \in Images : TaskFits(i)
  BY DEF Shape, TypeOK
<1>2. ASSUME NEW i \in Images, TaskStep(i)
      PROVE  task' \in [Images -> Task] /\ \A j \in Images : TaskFits(j)'
  <2>1. task' = [task EXCEPT ![i] = task'[i]] /\ task'[i] \in Task
    BY <1>2 DEF TaskStep
  <2>2. ASSUME NEW j \in Images, j # i PROVE TaskFits(j)'
    <3>1. task'[j] = task[j]
      BY <1>1, <2>1, <2>2
    <3> QED BY <1>1, <3>1 DEF TaskFits
  <2>3. TaskFits(i)'
    <3>1. task[i] \in Task /\ TaskFits(i)
      BY <1>1
    <3>2. task[i].attempts \in 0 .. 3
      BY <3>1, TaskParts
    <3>3. CASE task'[i].status \in {"COMPLETED", "FAILED"}
               /\ \E o \in Optimisers :
                      /\ optimiser[o].stage \in Converting
                      /\ optimiser[o].image = i
      <4>1. PICK o \in Optimisers :
                optimiser[o].stage \in Converting /\ optimiser[o].image = i
        BY <3>3
      <4>2. task[i].status = "RUNNING"
        BY <4>1 DEF OptimisersExclude
      <4>3. task'[i].source = task[i].source
        BY <1>2, <3>3 DEF TaskStep
      <4> QED BY <3>1, <3>3, <4>2, <4>3 DEF TaskFits
    <3>4. CASE \/ /\ task[i].status = "none" /\ task'[i].status = "QUEUED"
                  /\ task'[i].source \in Keys
                  /\ task'[i].attempts = task[i].attempts
               \/ /\ task[i].status = "FAILED" /\ task'[i].status = "QUEUED"
                  /\ task[i].attempts < 3
                  /\ task'[i].source = task[i].source
                  /\ task'[i].attempts = task[i].attempts
               \/ /\ task[i].status = "QUEUED" /\ task'[i].status = "RUNNING"
                  /\ task'[i].source = task[i].source
      BY <3>1, <3>4 DEF TaskFits
    <3> QED BY <1>2, <3>3, <3>4 DEF TaskStep
  <2> QED BY <1>1, <2>1, <2>2, <2>3
<1>3. CASE UNCHANGED task
  BY <1>1, <1>3 DEF TaskFits
<1> QED BY <1>2, <1>3, TaskSteps

\* How a step changes a cleaner.
CleanerStep(c) ==
    /\ cleaner' = [cleaner EXCEPT ![c] = cleaner'[c]]
    /\ cleaner'[c] \in Process({"object", "row"})
    /\ \/ cleaner'[c].stage = "idle"
       \/ \E i \in Images :
             /\ row[i].status = "orphaned" /\ row[i].expired
             /\ cleaner'[c].image = i /\ cleaner'[c].row = row[i]
             /\ UNCHANGED row
       \/ /\ cleaner[c].stage = "object" /\ cleaner'[c].stage = "row"
          /\ cleaner'[c].image = cleaner[c].image
          /\ cleaner'[c].row = cleaner[c].row

LEMMA CleanerSteps ==
    ASSUME Shape, Next
    PROVE  UNCHANGED cleaner \/ \E c \in Cleaners : CleanerStep(c)
<1> DEFINE P == Process({"object", "row"})
<1>0. cleaner \in [Cleaners -> P] /\ row \in [Images -> Row]
  BY DEF Shape, TypeOK
<1>p. /\ Idle \in P /\ Idle.stage = "idle"
      /\ \A p \in P : /\ [p EXCEPT !.stage = "row"] \in P
                      /\ [p EXCEPT !.stage = "row"].stage = "row"
                      /\ [p EXCEPT !.stage = "row"].image = p.image
                      /\ [p EXCEPT !.stage = "row"].row = p.row
      /\ \A i \in Images, r \in Row :
             [stage |-> "object", image |-> i, row |-> r] \in P
  BY ProcessParts
<1> HIDE DEF P
<1>1. ASSUME NEW c \in Cleaners, NEW i \in Images, CleanRead(c, i)
      PROVE  CleanerStep(c)
  <2> DEFINE new == [stage |-> "object", image |-> i, row |-> row[i]]
  <2>1. new \in P /\ new.image = i /\ new.row = row[i]
    BY <1>0, <1>p
  <2>2. cleaner' = [cleaner EXCEPT ![c] = new]
    BY <1>1 DEF CleanRead
  <2> HIDE DEF new
  <2>3. cleaner' = [cleaner EXCEPT ![c] = cleaner'[c]] /\ cleaner'[c] = new
    BY <1>0, <2>2
  <2> QED BY <1>1, <2>1, <2>3 DEF CleanRead, CleanerStep, P
<1>2. ASSUME NEW c \in Cleaners, CleanObject(c) PROVE CleanerStep(c)
  <2>1. /\ cleaner[c].stage = "object"
        /\ cleaner' = [cleaner EXCEPT ![c].stage = "row"]
    BY <1>2 DEF CleanObject
  <2>2. /\ cleaner' = [cleaner EXCEPT ![c] = cleaner'[c]]
        /\ cleaner'[c] = [cleaner[c] EXCEPT !.stage = "row"]
    BY <1>0, <2>1
  <2>3. cleaner[c] \in P
    BY <1>0
  <2> QED BY <1>p, <2>1, <2>2, <2>3 DEF CleanerStep, P
<1>3. ASSUME NEW c \in Cleaners, CleanRow(c) \/ CleanFail(c)
      PROVE  CleanerStep(c)
  <2>1. cleaner' = [cleaner EXCEPT ![c] = Idle]
    BY <1>3 DEF CleanRow, CleanFail
  <2>2. cleaner' = [cleaner EXCEPT ![c] = cleaner'[c]] /\ cleaner'[c] = Idle
    BY <1>0, <2>1
  <2> QED BY <1>p, <2>2 DEF CleanerStep, P
<1> QED BY <1>1, <1>2, <1>3, Frames

\* How a step changes a reconciliation.
ReconcilerStep(r) ==
    /\ reconciler' = [reconciler EXCEPT ![r] = reconciler'[r]]
    /\ reconciler'[r] \in Process({"read", "write", "switch", "undo", "mark",
                                   "sweep", "remove"})
    /\ \/ reconciler'[r].stage = "idle"
       \/ \E i \in Images :
             /\ row[i].status # "none" /\ UNCHANGED row
             /\ reconciler'[r].stage = "read"
             /\ reconciler'[r].image = i /\ reconciler'[r].row = row[i]
       \/ \E k \in Keys :
             /\ tombstone[k] = "DELETED"
             /\ reconciler'[r].stage = "sweep" /\ reconciler'[r].row.key = k
       \/ /\ reconciler'[r].image = reconciler[r].image
          /\ reconciler'[r].row = reconciler[r].row
          /\ \/ /\ reconciler[r].stage \in Rebuilding
                /\ reconciler'[r].stage \in {"write", "mark"}
             \/ /\ reconciler[r].stage = "write"
                /\ reconciler'[r].stage = "switch"
                /\ store' = store \cup {Rebuilt(r)}
             \/ /\ reconciler[r].stage = "switch"
                /\ reconciler'[r].stage = "undo"
                /\ UNCHANGED row
                /\ \/ row[reconciler[r].image].status = "none"
                   \/ ~ Unchanged(r)
             \/ /\ reconciler[r].stage = "sweep"
                /\ reconciler'[r].stage = "remove"
                /\ NotInUse(reconciler[r].row.key) /\ UNCHANGED row

LEMMA ReconcilerSteps ==
    ASSUME Shape, Next
    PROVE  UNCHANGED reconciler \/ \E r \in Reconcilers : ReconcilerStep(r)
<1> DEFINE stages == {"read", "write", "switch", "undo", "mark", "sweep",
                      "remove"}
           P == Process(stages)
           At(p, s) == [p EXCEPT !.stage = s]
<1>0. reconciler \in [Reconcilers -> P] /\ row \in [Images -> Row]
  BY DEF Shape, TypeOK
<1>p. /\ Idle \in P /\ Idle.stage = "idle"
      /\ \A p \in P, s \in stages :
             /\ At(p, s) \in P /\ At(p, s).stage = s
             /\ At(p, s).image = p.image /\ At(p, s).row = p.row
      /\ \A s \in stages, i \in Images \cup {"none"}, x \in Row :
             [stage |-> s, image |-> i, row |-> x] \in P
  <2>1. P = Process(stages)
    OBVIOUS
  <2> HIDE DEF P, stages
  <2> QED BY <2>1, ProcessParts
<1>d. P = Process({"read", "write", "switch", "undo", "mark", "sweep",
                   "remove"})
  OBVIOUS
<1> HIDE DEF P, At
<1>1. ASSUME NEW r \in Reconcilers, NEW i \in Images, ReconcileRead(r, i)
      PROVE  ReconcilerStep(r)
  <2> DEFINE new == [stage |-> "read", image |-> i, row |-> row[i]]
  <2>1. /\ new \in P /\ new.stage = "read" /\ new.image = i
        /\ new.row = row[i]
    BY <1>0, <1>p
  <2>2. reconciler' = [reconciler EXCEPT ![r] = new]
    BY <1>1 DEF ReconcileRead
  <2> HIDE DEF new
  <2>3. /\ reconciler' = [reconciler EXCEPT ![r] = reconciler'[r]]
        /\ reconciler'[r] = new
    BY <1>0, <2>2
  <2> QED BY <1>1, <1>d, <2>1, <2>3 DEF ReconcileRead, ReconcilerStep
<1>2. ASSUME NEW r \in Reconcilers, NEW k \in Keys, SweepRead(r, k)
      PROVE  ReconcilerStep(r)
  <2> DEFINE x == [NoRow EXCEPT !.key = k]
             new == [stage |-> "sweep", image |-> "none", row |-> x]
  <2>1. x \in Row /\ x.key = k
    BY NoRowParts
  <2>2. reconciler' = [reconciler EXCEPT ![r] = new]
    BY <1>2 DEF SweepRead
  <2> HIDE DEF x
  <2>3. new \in P /\ new.stage = "sweep" /\ new.row = x
    BY <1>p, <2>1
  <2> HIDE DEF new
  <2>4. /\ reconciler' = [reconciler EXCEPT ![r] = reconciler'[r]]
        /\ reconciler'[r] = new
    BY <1>0, <2>2
  <2> QED BY <1>2, <1>d, <2>1, <2>3, <2>4 DEF SweepRead, ReconcilerStep
<1>3. ASSUME NEW r \in Reconcilers, Stop(r) PROVE ReconcilerStep(r)
  <2>1. /\ reconciler' = [reconciler EXCEPT ![r] = reconciler'[r]]
        /\ reconciler'[r] = Idle
    BY <1>0, <1>3 DEF Stop
  <2> QED BY <1>d, <1>p, <2>1 DEF ReconcilerStep
<1>4. ASSUME NEW r \in Reconcilers, NEW s \in stages, Step(r, s)
      PROVE  /\ reconciler' = [reconciler EXCEPT ![r] = reconciler'[r]]
             /\ reconciler'[r] \in P
             /\ reconciler'[r].stage = s
             /\ reconciler'[r].image = reconciler[r].image
             /\ reconciler'[r].row = reconciler[r].row
  <2>1. /\ reconciler' = [reconciler EXCEPT ![r] = reconciler'[r]]
        /\ reconciler'[r] = At(reconciler[r], s)
    BY <1>0, <1>4 DEF Step, At
  <2>2. reconciler[r] \in P
    BY <1>0
  <2> QED BY <1>p, <2>1, <2>2
<1>5. ASSUME NEW r \in Reconcilers, ReconcileVerify(r) \/ ReconcileError(r)
      PROVE  ReconcilerStep(r)
  BY <1>3, <1>4, <1>5, <1>d
  DEF ReconcileVerify, ReconcileError, ReconcilerStep, Rebuilding
<1>6. ASSUME NEW r \in Reconcilers, ReconcileWrite(r) PROVE ReconcilerStep(r)
  BY <1>4, <1>6, <1>d DEF ReconcileWrite, ReconcilerStep
<1>7. ASSUME NEW r \in Reconcilers, ReconcileSwitch(r) PROVE ReconcilerStep(r)
  BY <1>3, <1>4, <1>7, <1>d DEF ReconcileSwitch, ReconcilerStep
<1>8. ASSUME NEW r \in Reconcilers, SweepCheck(r) PROVE ReconcilerStep(r)
  BY <1>3, <1>4, <1>8, <1>d DEF SweepCheck, ReconcilerStep
<1>9. ASSUME NEW r \in Reconcilers,
             ReconcileUndo(r) \/ ReconcileMark(r) \/ SweepRemove(r)
               \/ ReconcileDie(r)
      PROVE  ReconcilerStep(r)
  BY <1>3, <1>9 DEF ReconcileUndo, ReconcileMark, SweepRemove, ReconcileDie
<1> QED BY <1>1, <1>2, <1>5, <1>6, <1>7, <1>8, <1>9, Frames

\* How a step changes an optimiser.
OptimiserStep(o) ==
    /\ optimiser' = [optimiser EXCEPT ![o] = optimiser'[o]]
    /\ optimiser'[o] \in Process({"claim", "put", "commit", "fail"})
    /\ \/ optimiser'[o].stage = "idle"
       \/ /\ optimiser'[o].stage = "claim"
          /\ optimiser'[o].image \in Images
          /\ UNCHANGED task
       \/ /\ optimiser'[o].image = optimiser[o].image
          /\ \/ /\ optimiser[o].stage = "claim"
                /\ optimiser'[o].stage = "put"
                /\ \E i \in Images : TaskStep(i) /\ i = optimiser[o].image
                /\ task[optimiser[o].image].status = "QUEUED"
                /\ task'[optimiser[o].image].status = "RUNNING"
             \/ /\ optimiser[o].stage = "put"
                /\ optimiser'[o].stage = "commit"
                /\ UNCHANGED task /\ store' = store \cup {Target(o)}
             \/ /\ optimiser[o].stage = "commit"
                /\ optimiser'[o].stage = "fail"
                /\ UNCHANGED task

LEMMA OptimiserSteps ==
    ASSUME Shape, Next
    PROVE  UNCHANGED optimiser \/ \E o \in Optimisers : OptimiserStep(o)
<1> DEFINE stages == {"claim", "put", "commit", "fail"}
           P == Process(stages)
           At(p, s) == [p EXCEPT !.stage = s]
<1>0. optimiser \in [Optimisers -> P] /\ row \in [Images -> Row]
  BY DEF Shape, TypeOK
<1>p. /\ Idle \in P /\ Idle.stage = "idle"
      /\ \A p \in P, s \in stages :
             /\ At(p, s) \in P /\ At(p, s).stage = s
             /\ At(p, s).image = p.image /\ At(p, s).row = p.row
      /\ \A s \in stages, i \in Images \cup {"none"}, x \in Row :
             [stage |-> s, image |-> i, row |-> x] \in P
  <2>1. P = Process(stages)
    OBVIOUS
  <2> HIDE DEF P, stages
  <2> QED BY <2>1, ProcessParts
<1>d. P = Process({"claim", "put", "commit", "fail"})
  OBVIOUS
<1> HIDE DEF P, At
<1>1. ASSUME NEW o \in Optimisers, NEW i \in Images, OptimiseRead(o, i)
      PROVE  OptimiserStep(o)
  <2> DEFINE new == [stage |-> "claim", image |-> i, row |-> row[i]]
  <2>1. new \in P /\ new.stage = "claim" /\ new.image = i
    BY <1>0, <1>p
  <2>2. optimiser' = [optimiser EXCEPT ![o] = new]
    BY <1>1 DEF OptimiseRead
  <2> HIDE DEF new
  <2>3. /\ optimiser' = [optimiser EXCEPT ![o] = optimiser'[o]]
        /\ optimiser'[o] = new
    BY <1>0, <2>2
  <2> QED BY <1>1, <1>d, <2>1, <2>3 DEF OptimiseRead, OptimiserStep
<1>2. ASSUME NEW o \in Optimisers, optimiser' = [optimiser EXCEPT ![o] = Idle]
      PROVE  OptimiserStep(o)
  <2>1. /\ optimiser' = [optimiser EXCEPT ![o] = optimiser'[o]]
        /\ optimiser'[o] = Idle
    BY <1>0, <1>2
  <2> QED BY <1>d, <1>p, <2>1 DEF OptimiserStep
<1>3. ASSUME NEW o \in Optimisers, NEW s \in stages,
             optimiser' = [optimiser EXCEPT ![o].stage = s]
      PROVE  /\ optimiser' = [optimiser EXCEPT ![o] = optimiser'[o]]
             /\ optimiser'[o] \in P
             /\ optimiser'[o].stage = s
             /\ optimiser'[o].image = optimiser[o].image
  <2>1. /\ optimiser' = [optimiser EXCEPT ![o] = optimiser'[o]]
        /\ optimiser'[o] = At(optimiser[o], s)
    BY <1>0, <1>3 DEF At
  <2>2. optimiser[o] \in P
    BY <1>0
  <2> QED BY <1>p, <2>1, <2>2
<1>4. ASSUME NEW o \in Optimisers, OptimiseClaim(o) PROVE OptimiserStep(o)
  <2> DEFINE i == optimiser[o].image
  <2>1. i \in Images /\ optimiser[o].stage = "claim"
    BY <1>4 DEF OptimiseClaim, Shape, ProcessesFit
  <2>2. CASE task[i].status = "QUEUED"
    <3>1. optimiser' = [optimiser EXCEPT ![o].stage = "put"]
      BY <1>4, <2>2 DEF OptimiseClaim
    <3>2. /\ optimiser' = [optimiser EXCEPT ![o] = optimiser'[o]]
          /\ optimiser'[o] \in P /\ optimiser'[o].stage = "put"
          /\ optimiser'[o].image = i
      BY <1>3, <3>1
    <3>3. TaskStep(i) /\ task'[i].status = "RUNNING"
      <4>1. task' = [task EXCEPT ![i].status = "RUNNING", ![i].attempts = @ + 1]
        BY <1>4, <2>2 DEF OptimiseClaim
      <4>2. task \in [Images -> Task] /\ task[i] \in Task
        BY <2>1 DEF Shape, TypeOK
      <4>3. task'[i] = [task[i] EXCEPT !.status = "RUNNING",
                                       !.attempts = @ + 1]
        BY <2>1, <4>1, <4>2
      <4>4. task'[i].status = "RUNNING"
        BY <4>2, <4>3 DEF Task
      <4>5. task'[i] # task[i]
        BY <2>2, <4>4
      <4>6. \A j \in Images : TaskStep(j) => j = i
        BY <2>1, <4>1, <4>2, <4>5 DEF TaskStep
      <4> QED BY <4>4, <4>5, <4>6, TaskSteps
    <3> QED BY <1>d, <2>1, <2>2, <3>2, <3>3 DEF OptimiserStep
  <2>3. CASE task[i].status # "QUEUED"
    BY <1>2, <1>4, <2>3 DEF OptimiseClaim
  <2> QED BY <2>2, <2>3
<1>5. ASSUME NEW o \in Optimisers, OptimisePut(o) PROVE OptimiserStep(o)
  BY <1>3, <1>5, <1>d DEF OptimisePut, OptimiserStep
<1>6. ASSUME NEW o \in Optimisers, OptimiseCommit(o) \/ OptimiseError(o)
      PROVE  OptimiserStep(o)
  BY <1>2, <1>3, <1>6, <1>d DEF OptimiseCommit, OptimiseError, OptimiserStep
<1>7. ASSUME NEW o \in Optimisers,
             OptimiseRefuse(o) \/ OptimiseFail(o) \/ OptimiseDie(o)
      PROVE  OptimiserStep(o)
  BY <1>2, <1>7 DEF OptimiseRefuse, OptimiseFail, OptimiseDie
<1> QED BY <1>1, <1>4, <1>5, <1>6, <1>7, Frames

LEMMA ProcessesKept ==
    ASSUME Shape, Next
    PROVE  /\ cleaner' \in [Cleaners -> Process({"object", "row"})]
           /\ optimiser' \in [Optimisers ->
                                Process({"claim", "put", "commit", "fail"})]
           /\ reconciler' \in [Reconcilers ->
                                 Process({"read", "write", "switch", "undo",
                                          "mark", "sweep", "remove"})]
           /\ ProcessesFit'
<1>1. /\ TypeOK /\ ProcessesFit
      /\ row \in [Images -> Row] /\ \A i \in Images : RowFits(i)
  BY DEF Shape, TypeOK
<1>2. /\ cleaner' \in [Cleaners -> Process({"object", "row"})]
      /\ \A c \in Cleaners : cleaner'[c].stage # "idle" =>
             /\ cleaner'[c].image \in Images
             /\ cleaner'[c].row.key \in Keys
             /\ cleaner'[c].row.key[1] = cleaner'[c].image
  <2>1. ASSUME NEW c \in Cleaners, CleanerStep(c)
        PROVE  /\ cleaner' \in [Cleaners -> Process({"object", "row"})]
               /\ \A d \in Cleaners : d # c => cleaner'[d] = cleaner[d]
               /\ cleaner'[c].stage # "idle" =>
                      /\ cleaner'[c].image \in Images
                      /\ cleaner'[c].row.key \in Keys
                      /\ cleaner'[c].row.key[1] = cleaner'[c].image
    BY <1>1, <2>1 DEF CleanerStep, ProcessesFit, TypeOK, RowFits
  <2> QED BY <1>1, <2>1, CleanerSteps DEF ProcessesFit, TypeOK
<1>3. /\ optimiser' \in [Optimisers ->
                           Process({"claim", "put", "commit", "fail"})]
      /\ \A o \in Optimisers : optimiser'[o].stage # "idle" =>
             optimiser'[o].image \in Images
  <2>1. ASSUME NEW o \in Optimisers, OptimiserStep(o)
        PROVE  /\ optimiser' \in [Optimisers ->
                                    Process({"claim", "put", "commit", "fail"})]
               /\ \A p \in Optimisers : p # o => optimiser'[p] = optimiser[p]
               /\ optimiser'[o].stage # "idle" => optimiser'[o].image \in Images
    BY <1>1, <2>1 DEF OptimiserStep, ProcessesFit, TypeOK
  <2> QED BY <1>1, <2>1, OptimiserSteps DEF ProcessesFit, TypeOK
<1>4. /\ reconciler' \in [Reconcilers ->
                            Process({"read", "write", "switch", "undo",
                                     "mark", "sweep", "remove"})]
      /\ \A r \in Reconcilers :
             /\ reconciler'[r].stage \notin {"idle", "sweep", "remove"} =>
                    reconciler'[r].image \in Images
             /\ reconciler'[r].stage \in {"sweep", "remove"} =>
                    reconciler'[r].row.key \in Keys
  <2>1. ASSUME NEW r \in Reconcilers, ReconcilerStep(r)
        PROVE  /\ reconciler' \in [Reconcilers ->
                                     Process({"read", "write", "switch", "undo",
                                              "mark", "sweep", "remove"})]
               /\ \A q \in Reconcilers : q # r =>
                      reconciler'[q] = reconciler[q]
               /\ reconciler'[r].stage \notin {"idle", "sweep", "remove"} =>
                      reconciler'[r].image \in Images
               /\ reconciler'[r].stage \in {"sweep", "remove"} =>
                      reconciler'[r].row.key \in Keys
    BY <1>1, <2>1 DEF ReconcilerStep, ProcessesFit, TypeOK, Rebuilding
  <2> QED BY <1>1, <2>1, ReconcilerSteps DEF ProcessesFit, TypeOK
<1> QED BY <1>2, <1>3, <1>4 DEF ProcessesFit

LEMMA OptimisersKept ==
    ASSUME Shape, OptimisersExclude, Next
    PROVE  OptimisersExclude'
<1>1. /\ optimiser \in [Optimisers ->
                          Process({"claim", "put", "commit", "fail"})]
      /\ task \in [Images -> Task]
      /\ \A o \in Optimisers : optimiser[o].stage \in Converting =>
             optimiser[o].image \in Images
  BY DEF Shape, TypeOK, ProcessesFit, Converting
<1>2. CASE UNCHANGED <<task, optimiser>>
  BY <1>2 DEF OptimisersExclude, Converting
<1>3. ASSUME NEW o \in Optimisers, OptimiserStep(o), UNCHANGED task
      PROVE  OptimisersExclude'
  <2>1. \A p \in Optimisers : p # o => optimiser'[p] = optimiser[p]
    BY <1>1, <1>3 DEF OptimiserStep
  <2>2. optimiser'[o].stage \in Converting =>
            /\ optimiser[o].stage \in Converting
            /\ optimiser'[o].image = optimiser[o].image
    BY <1>3 DEF OptimiserStep, Converting
  <2> QED BY <1>3, <2>1, <2>2 DEF OptimisersExclude, Converting
<1>4. ASSUME NEW i \in Images, TaskStep(i) PROVE OptimisersExclude'
  <2>1. \A j \in Images : j # i => task'[j] = task[j]
    BY <1>1, <1>4 DEF TaskStep
  <2>2. CASE UNCHANGED optimiser /\ task[i].status \in {"none", "FAILED"}
    BY <1>1, <2>1, <2>2 DEF OptimisersExclude, Converting
  <2>3. CASE /\ task[i].status = "QUEUED" /\ task'[i].status = "RUNNING"
             /\ \E o \in Optimisers :
                    /\ optimiser[o].image = i
                    /\ optimiser' = [optimiser EXCEPT ![o].stage = "put"]
    <3>1. PICK o \in Optimisers :
              /\ optimiser[o].image = i
              /\ optimiser' = [optimiser EXCEPT ![o].stage = "put"]
      BY <2>3
    <3>2. \A p \in Optimisers : p # o => optimiser'[p] = optimiser[p]
      BY <1>1, <3>1
    <3>3. optimiser'[o].image = i
      <4>1. optimiser[o] \in Process({"claim", "put", "commit", "fail"})
        BY <1>1
      <4>2. optimiser'[o] = [optimiser[o] EXCEPT !.stage = "put"]
        BY <1>1, <3>1
      <4> QED BY <3>1, <4>1, <4>2 DEF Process
    <3>4. \A p \in Optimisers :
              optimiser[p].stage \in Converting => optimiser[p].image # i
      BY <2>3 DEF OptimisersExclude
    <3> QED BY <1>1, <2>1, <2>3, <3>2, <3>3, <3>4
            DEF OptimisersExclude, Converting
  <2>4. CASE \E o \in Optimisers :
                 /\ optimiser[o].stage \in Converting /\ optimiser[o].image = i
                 /\ optimiser' = [optimiser EXCEPT ![o] = Idle]
    <3>1. PICK o \in Optimisers :
              /\ optimiser[o].stage \in Converting /\ optimiser[o].image = i
              /\ optimiser' = [optimiser EXCEPT ![o] = Idle]
      BY <2>4
    <3>2. /\ \A p \in Optimisers : p # o => optimiser'[p] = optimiser[p]
          /\ optimiser'[o].stage = "idle"
      BY <1>1, <3>1 DEF Idle
    <3>3. \A p \in Optimisers :
              p # o /\ optimiser[p].stage \in Converting =>
                  optimiser[p].image # i
      BY <3>1 DEF OptimisersExclude
    <3> QED BY <1>1, <2>1, <3>2, <3>3 DEF OptimisersExclude, Converting
  <2> QED BY <1>4, <2>2, <2>3, <2>4 DEF TaskStep
<1>5. \/ /\ UNCHANGED task
         /\ UNCHANGED optimiser \/ \E o \in Optimisers : OptimiserStep(o)
      \/ \E i \in Images : TaskStep(i)
  BY TaskSteps, OptimiserSteps
<1> QED BY <1>2, <1>3, <1>4, <1>5

LEMMA ShapeKept ==
    ASSUME Shape, OptimisersExclude, Next
    PROVE  Shape'
BY UploadsType, SubmissionsType, FaultsType, StoreType, RowsFit, TasksFit,
   ProcessesKept DEF Shape, TypeOK

-----------------------------------------------------------------------------
(* Published keys stay published, and are not given to a row again.        *)

\* The row of an image whose upload is done is not inserted again, and its
\* stamp does not decrease.
LEMMA RowsGrow ==
    ASSUME Shape, Next, NEW i \in Images, upload[i] = "done"
    PROVE  \/ row'[i].status = "none"
           \/ row[i].status # "none" /\ row[i].stamp <= row'[i].stamp
<1>1. row[i] \in Row /\ row[i].stamp \in 0 .. MaxStamp
  BY RowParts DEF Shape, TypeOK
<1>2. CASE row'[i] = row[i]
  BY <1>1, <1>2
<1>3. CASE RowStep(i)
  BY <1>1, <1>3, NoRowParts
  DEF RowStep, Inserted, WasLinked, WasRetained, Expired, WasDeleted,
      WasConverted, WasRebuilt, WasMarked
<1>4. ASSUME NEW j \in Images, RowStep(j), j # i PROVE row'[i] = row[i]
  <2>1. row' = [row EXCEPT ![j] = row'[j]]
    BY <1>4 DEF RowStep, Inserted, WasLinked, WasRetained, Expired, WasDeleted,
                WasConverted, WasRebuilt, WasMarked, Replaced
  <2> QED BY <1>4, <2>1 DEF Shape, TypeOK
<1> QED BY <1>2, <1>3, <1>4, RowSteps

LEMMA CompletedStays ==
    ASSUME Shape, OptimisersExclude, Next, NEW i \in Images,
           task[i].status = "COMPLETED"
    PROVE  task'[i].status = "COMPLETED"
<1>1. CASE task'[i] = task[i]
  BY <1>1
<1>2. ~ TaskStep(i)
  BY DEF TaskStep, OptimisersExclude
<1>3. ASSUME NEW j \in Images, TaskStep(j), j # i PROVE task'[i] = task[i]
  BY <1>3 DEF TaskStep, Shape, TypeOK
<1> QED BY <1>1, <1>2, <1>3, TaskSteps

\* k is published after the step.
StaysPublished(k) ==
    /\ upload'[k[1]] = "done"
    /\ k[2] = "avif" => task'[k[1]].status = "COMPLETED"
    /\ k[2] = "rebuilt" => \/ row'[k[1]].status = "none"
                           \/ row'[k[1]].stamp > k[3]

LEMMA PublishedStays ==
    ASSUME Shape, OptimisersExclude, Next, NEW k \in Keys, Published(k)
    PROVE  StaysPublished(k)
<1>1. k[1] \in Images /\ upload[k[1]] = "done"
  BY KeyParts DEF Published
<1>2. upload'[k[1]] = "done"
  BY <1>1, UploadsType
<1>3. k[2] = "avif" => task'[k[1]].status = "COMPLETED"
  BY <1>1, CompletedStays DEF Published
<1>4. ASSUME k[2] = "rebuilt"
      PROVE  row'[k[1]].status = "none" \/ row'[k[1]].stamp > k[3]
  <2>1. /\ row[k[1]] \in Row /\ row[k[1]].stamp \in 0 .. MaxStamp
        /\ row'[k[1]] \in Row /\ row'[k[1]].stamp \in 0 .. MaxStamp
    BY <1>1, RowsFit, RowParts DEF Shape, TypeOK
  <2>2. k[3] \in 0 .. MaxStamp
    <3>1. k \notin {UploadKey(i) : i \in Images}
      BY <1>4 DEF UploadKey
    <3>2. k \notin {AvifKey(i, n) : i \in Images, n \in Attempts}
      BY <1>4 DEF AvifKey
    <3>3. PICK i \in Images, n \in 0 .. MaxStamp : k = RebuiltKey(i, n)
      BY <3>1, <3>2 DEF Keys
    <3> QED BY <3>3, KeyParts
  <2> QED BY <1>1, <1>4, <2>1, <2>2, RowsGrow DEF Published
<1> QED BY <1>2, <1>3, <1>4 DEF StaysPublished

\* A key a row is given was not published.
LEMMA NoReuse ==
    ASSUME Shape, OptimisersExclude, Next,
           NEW k \in Keys, Published(k), NotInUse(k)
    PROVE  NotInUse(k)'
<1> SUFFICES ASSUME NEW j \in Images,
                    row'[j].status # "none", row'[j].key = k
             PROVE  FALSE
  BY DEF NotInUse, RowOfKey
<1>1. ~ (row[j].status # "none" /\ row[j].key = k)
  BY DEF NotInUse, RowOfKey
<1>2. j = k[1]
  BY RowsFit DEF RowFits
<1>3. RowStep(j)
  <2>1. PICK i \in Images : RowStep(i)
    BY <1>1, RowSteps
  <2>2. row' = [row EXCEPT ![i] = row'[i]]
    BY <2>1 DEF RowStep, Inserted, WasLinked, WasRetained, Expired, WasDeleted,
                WasConverted, WasRebuilt, WasMarked, Replaced
  <2>3. i = j
    BY <1>1, <2>2 DEF Shape, TypeOK
  <2> QED BY <2>1, <2>3
<1>4. upload[j] = "done"
  BY <1>2 DEF Published
<1>5. ~ Inserted(j)
  BY <1>4 DEF Inserted
<1>6. ~ (WasLinked(j) \/ WasRetained(j) \/ Expired(j) \/ WasMarked(j))
  BY <1>1 DEF WasLinked, WasRetained, Expired, WasMarked
<1>7. ~ WasDeleted(j)
  BY NoRowParts DEF WasDeleted
<1>8. ~ WasConverted(j)
  <2>1. SUFFICES ASSUME NEW o \in Optimisers, optimiser[o].stage = "commit",
                        optimiser[o].image = j, k = Target(o)
                 PROVE  FALSE
    BY DEF WasConverted
  <2>2. task[j].status = "RUNNING"
    BY <2>1 DEF OptimisersExclude, Converting
  <2>3. task[j].status = "COMPLETED"
    BY <1>2, <2>1, TargetKey DEF Published
  <2> QED BY <2>2, <2>3
<1>9. ~ WasRebuilt(j)
  <2>1. SUFFICES ASSUME NEW r \in Reconcilers, reconciler[r].stage = "switch",
                        reconciler[r].image = j, k = Rebuilt(r),
                        Unchanged(r), row[j].status # "none"
                 PROVE  FALSE
    BY DEF WasRebuilt
  <2>2. row[j].stamp = k[3] /\ k[2] = "rebuilt" /\ k[3] \in 0 .. MaxStamp
    BY <2>1, RebuiltParts DEF Unchanged, Rebuilding
  <2> QED BY <1>2, <2>1, <2>2 DEF Published
<1> QED BY <1>3, <1>5, <1>6, <1>7, <1>8, <1>9 DEF RowStep

LEMMA SweptKept ==
    ASSUME Shape, Keeping, Next
    PROVE  SweptIsUnused'
<1>1. Shape /\ OptimisersExclude /\ KeysArePublished /\ SweptIsUnused
  BY DEF Keeping
<1>2. ASSUME NEW r \in Reconcilers, reconciler[r].stage \in {"sweep", "remove"},
             NotInUse(reconciler[r].row.key)
      PROVE  NotInUse(reconciler[r].row.key)'
             \/ reconciler'[r] # reconciler[r]
  <2> DEFINE k == reconciler[r].row.key
  <2>1. k \in Keys /\ Published(k)
    BY <1>1, <1>2 DEF Shape, ProcessesFit, KeysArePublished
  <2>2. NotInUse(k) => \A j \in Images :
            ~ (row'[j].status # "none" /\ row'[j].key = k)
    BY <1>1, <2>1, NoReuse DEF NotInUse, RowOfKey
  <2> QED BY <1>2, <2>2 DEF NotInUse, RowOfKey
<1>3. ASSUME NEW r \in Reconcilers, reconciler'[r] = reconciler[r],
             reconciler'[r].stage = "remove"
      PROVE  NotInUse(reconciler[r].row.key)'
  BY <1>1, <1>2, <1>3 DEF SweptIsUnused
<1>4. ASSUME NEW r \in Reconcilers, ReconcilerStep(r)
      PROVE  /\ \A q \in Reconcilers : q # r => reconciler'[q] = reconciler[q]
             /\ reconciler'[r].stage = "remove" =>
                   NotInUse(reconciler[r].row.key)'
  <2>1. \A q \in Reconcilers : q # r => reconciler'[q] = reconciler[q]
    BY <1>1, <1>4 DEF ReconcilerStep, Shape, TypeOK
  <2>2. reconciler'[r].stage = "remove" =>
            /\ NotInUse(reconciler[r].row.key) /\ UNCHANGED row
            /\ reconciler'[r].row = reconciler[r].row
    BY <1>4 DEF ReconcilerStep
  <2> QED BY <2>1, <2>2 DEF NotInUse, RowOfKey
<1> QED BY <1>3, <1>4, ReconcilerSteps DEF SweptIsUnused, NotInUse, RowOfKey

\* A step that changes the row of an image changes no other row.
LEMMA OneRow ==
    ASSUME Shape, NEW i \in Images, RowStep(i), NEW j \in Images, j # i
    PROVE  row'[j] = row[j]
<1>1. row' = [row EXCEPT ![i] = row'[i]]
  BY DEF RowStep, Inserted, WasLinked, WasRetained, Expired, WasDeleted,
         WasConverted, WasRebuilt, WasMarked, Replaced
<1> QED BY <1>1 DEF Shape, TypeOK

LEMMA RowKeysArePublished ==
    ASSUME Shape, OptimisersExclude, KeysArePublished, Next,
           NEW i \in Images, row'[i].status # "none"
    PROVE  StaysPublished(row'[i].key)
<1> DEFINE k == row'[i].key
<1>1. k \in Keys /\ k[1] = i /\ upload'[i] = "done"
  BY RowsFit DEF RowFits
<1>2. CASE row[i].status # "none" /\ row[i].key = k
  BY <1>1, <1>2, PublishedStays DEF KeysArePublished
<1>3. CASE RowStep(i)
  <2>1. CASE Inserted(i)
    BY <1>1, <2>1, KeyParts DEF Inserted, StaysPublished
  <2>2. CASE WasLinked(i) \/ WasRetained(i) \/ Expired(i) \/ WasMarked(i)
    BY <1>2, <2>2 DEF WasLinked, WasRetained, Expired, WasMarked
  <2>3. ~ WasDeleted(i)
    BY NoRowParts DEF WasDeleted
  <2>4. CASE WasConverted(i)
    <3>1. k[2] = "avif" /\ task'[i].status = "COMPLETED"
      BY <2>4, TargetKey DEF WasConverted
    <3> QED BY <1>1, <3>1 DEF StaysPublished
  <2>5. CASE WasRebuilt(i)
    <3>1. PICK r \in Reconcilers :
              /\ reconciler[r].stage = "switch" /\ reconciler[r].image = i
              /\ Unchanged(r) /\ k = Rebuilt(r)
      BY <2>5 DEF WasRebuilt
    <3>2. /\ k[2] = "rebuilt" /\ k[3] = row[i].stamp
          /\ k[3] \in 0 .. MaxStamp
      BY <3>1, RebuiltParts DEF Unchanged, Rebuilding
    <3>3. row'[i].stamp > k[3]
      BY <2>5, <3>2 DEF WasRebuilt
    <3> QED BY <1>1, <3>2, <3>3 DEF StaysPublished
  <2> QED BY <1>3, <2>1, <2>2, <2>3, <2>4, <2>5 DEF RowStep
<1>4. CASE row'[i] = row[i]
  BY <1>2, <1>4
<1> QED BY <1>3, <1>4, RowSteps, OneRow

LEMMA DeletedKeysArePublished ==
    ASSUME Shape, OptimisersExclude, KeysArePublished, Next,
           NEW k \in Keys, tombstone'[k] = "DELETED"
    PROVE  StaysPublished(k)
<1>1. CASE tombstone[k] = "DELETED"
  BY <1>1, PublishedStays DEF KeysArePublished
<1>2. ASSUME NEW i \in Images, k = row[i].key
      PROVE  Published(k)
  <2>1. row[i].status # "none"
    BY <1>2, KeyParts, NoRowParts DEF Shape, RowFits
  <2> QED BY <1>2, <2>1 DEF KeysArePublished
<1>3. ASSUME NEW i \in Images,
             tombstone' = Trigger(tombstone, row[i], row'[i])
      PROVE  tombstone[k] = "DELETED" \/ k = row[i].key
  BY <1>3 DEF Trigger
<1>4. UNCHANGED tombstone
        \/ \E i \in Images : tombstone' = Trigger(tombstone, row[i], row'[i])
  BY RowSteps DEF RowStep, Inserted, WasLinked, WasRetained, Expired,
                  WasDeleted, WasConverted, WasRebuilt, WasMarked, Replaced
<1> QED BY <1>1, <1>2, <1>3, <1>4, PublishedStays

LEMMA KeysKept ==
    ASSUME Shape, OptimisersExclude, KeysArePublished, RowsAdvance, Next
    PROVE  KeysArePublished'
<1>s. \A k \in Keys : Published(k) => StaysPublished(k)
  BY PublishedStays
<1>1. \A i \in Images : row'[i].status # "none" => StaysPublished(row'[i].key)
  BY RowKeysArePublished
<1>2. \A k \in Keys : tombstone'[k] = "DELETED" => StaysPublished(k)
  BY DeletedKeysArePublished
<1>3. \A c \in Cleaners : cleaner'[c].stage # "idle" =>
          StaysPublished(cleaner'[c].row.key)
  <2>1. \A c \in Cleaners : cleaner[c].stage # "idle" =>
            StaysPublished(cleaner[c].row.key)
    BY <1>s DEF KeysArePublished, Shape, ProcessesFit
  <2>2. ASSUME NEW c \in Cleaners, CleanerStep(c)
        PROVE  /\ \A d \in Cleaners : d # c => cleaner'[d] = cleaner[d]
               /\ cleaner'[c].stage # "idle" =>
                      StaysPublished(cleaner'[c].row.key)
    <3>1. \A d \in Cleaners : d # c => cleaner'[d] = cleaner[d]
      BY <2>2 DEF CleanerStep, Shape, TypeOK
    <3>2. ASSUME NEW i \in Images, row[i].status = "orphaned"
          PROVE  StaysPublished(row[i].key)
      BY <1>s, <3>2 DEF KeysArePublished, Shape, RowFits
    <3> QED BY <2>1, <2>2, <3>1, <3>2 DEF CleanerStep
  <2> QED BY <2>1, <2>2, CleanerSteps
<1>4. \A r \in Reconcilers :
          /\ reconciler'[r].stage \in {"sweep", "remove"} =>
                 StaysPublished(reconciler'[r].row.key)
          /\ reconciler'[r].stage = "undo" => StaysPublished(Rebuilt(r)')
  <2>1. \A r \in Reconcilers :
            /\ reconciler[r].stage \in {"sweep", "remove"} =>
                   StaysPublished(reconciler[r].row.key)
            /\ reconciler[r].stage = "undo" => StaysPublished(Rebuilt(r))
    BY <1>s, RebuiltParts DEF KeysArePublished, Shape, ProcessesFit, Rebuilding
  <2>2. ASSUME NEW r \in Reconcilers, ReconcilerStep(r)
        PROVE  /\ \A q \in Reconcilers : q # r =>
                      reconciler'[q] = reconciler[q]
               /\ reconciler'[r].stage \in {"sweep", "remove"} =>
                      StaysPublished(reconciler'[r].row.key)
               /\ reconciler'[r].stage = "undo" => StaysPublished(Rebuilt(r)')
    <3>1. \A q \in Reconcilers : q # r => reconciler'[q] = reconciler[q]
      BY <2>2 DEF ReconcilerStep, Shape, TypeOK
    <3>2. \A k \in Keys : tombstone[k] = "DELETED" => StaysPublished(k)
      BY <1>s DEF KeysArePublished
    <3>3. reconciler'[r].stage \in {"sweep", "remove"} =>
              StaysPublished(reconciler'[r].row.key)
      BY <2>1, <2>2, <3>2 DEF ReconcilerStep
    <3>4. ASSUME reconciler'[r].stage = "undo" PROVE StaysPublished(Rebuilt(r)')
      <4> DEFINE i == reconciler[r].image
      <4>1. /\ reconciler[r].stage = "switch" /\ UNCHANGED row
            /\ row[i].status = "none" \/ ~ Unchanged(r)
            /\ Rebuilt(r)' = Rebuilt(r)
        BY <2>2, <3>4 DEF ReconcilerStep, Rebuilt
      <4>2. /\ i \in Images /\ Rebuilt(r) \in Keys
            /\ Rebuilt(r)[1] = i /\ Rebuilt(r)[2] = "rebuilt"
            /\ Rebuilt(r)[3] = reconciler[r].row.stamp
            /\ reconciler[r].row.stamp \in 0 .. MaxStamp
        BY <4>1, RebuiltParts DEF Rebuilding
      <4>3. row[i].stamp \in 0 .. MaxStamp
        BY <4>2, RowParts DEF Shape, TypeOK
      <4>4. Published(Rebuilt(r))
        BY <4>1, <4>2, <4>3 DEF RowsAdvance, Rebuilding, Published, Unchanged
      <4> QED BY <1>s, <4>1, <4>2, <4>4
    <3> QED BY <3>1, <3>3, <3>4
  <2> QED BY <2>1, <2>2, ReconcilerSteps DEF Rebuilt
<1> QED BY <1>1, <1>2, <1>3, <1>4
        DEF KeysArePublished, Published, StaysPublished

LEMMA AdvanceKept ==
    ASSUME Shape, RowsAdvance, Next
    PROVE  RowsAdvance'
<1>1. ASSUME NEW i \in Images
      PROVE  /\ row[i] \in Row /\ row[i].stamp \in 0 .. MaxStamp
             /\ row'[i] \in Row /\ row'[i].stamp \in 0 .. MaxStamp
  BY RowsFit, RowParts DEF Shape, TypeOK
<1>2. ASSUME NEW r \in Reconcilers, reconciler[r].stage \in Rebuilding
      PROVE  LET i == reconciler[r].image
             IN  /\ upload'[i] = "done"
                 /\ row'[i].status = "none"
                      \/ reconciler[r].row.stamp <= row'[i].stamp
  <2> DEFINE i == reconciler[r].image
  <2>1. i \in Images /\ reconciler[r].row.stamp \in 0 .. MaxStamp
    BY <1>2, RebuiltParts
  <2>2. /\ upload[i] = "done"
        /\ row[i].status = "none" \/ reconciler[r].row.stamp <= row[i].stamp
    BY <1>2 DEF RowsAdvance
  <2>3. /\ row[i].stamp \in 0 .. MaxStamp /\ row'[i].stamp \in 0 .. MaxStamp
    BY <1>1, <2>1
  <2> QED BY <2>1, <2>2, <2>3, RowsGrow, UploadsType
<1>3. ASSUME NEW r \in Reconcilers, ReconcilerStep(r)
      PROVE  /\ \A q \in Reconcilers : q # r => reconciler'[q] = reconciler[q]
             /\ reconciler'[r].stage \in Rebuilding =>
                    \/ /\ reconciler[r].stage \in Rebuilding
                       /\ reconciler'[r].image = reconciler[r].image
                       /\ reconciler'[r].row = reconciler[r].row
                    \/ \E i \in Images :
                          /\ row[i].status # "none" /\ UNCHANGED row
                          /\ reconciler'[r].image = i
                          /\ reconciler'[r].row = row[i]
  <2>1. \A q \in Reconcilers : q # r => reconciler'[q] = reconciler[q]
    BY <1>3 DEF ReconcilerStep, Shape, TypeOK
  <2> QED BY <1>3, <2>1 DEF ReconcilerStep, Rebuilding
<1>4. \A i \in Images : row[i].status # "none" => upload'[i] = "done"
  BY UploadsType DEF Shape, RowFits
<1>5. ASSUME NEW r \in Reconcilers, reconciler'[r].stage \in Rebuilding
      PROVE  LET i == reconciler'[r].image
             IN  /\ upload'[i] = "done"
                 /\ row'[i].status = "none"
                      \/ reconciler'[r].row.stamp <= row'[i].stamp
  <2>1. CASE /\ reconciler[r].stage \in Rebuilding
             /\ reconciler'[r].image = reconciler[r].image
             /\ reconciler'[r].row = reconciler[r].row
    BY <1>2, <2>1
  <2>2. CASE \E i \in Images :
                 /\ row[i].status # "none" /\ UNCHANGED row
                 /\ reconciler'[r].image = i /\ reconciler'[r].row = row[i]
    BY <1>1, <1>4, <2>2
  <2>3. CASE reconciler'[r] = reconciler[r]
    BY <1>5, <2>1, <2>3
  <2> QED BY <1>3, <1>5, <2>1, <2>2, <2>3, ReconcilerSteps
<1> QED BY <1>5 DEF RowsAdvance, Rebuilding

-----------------------------------------------------------------------------
(* Which objects are removed.                                              *)

\* Whoever removes an object removes that of its own upload, that of its own
\* conversion, or one that was published: the image's in clean-up, or one that
\* no row uses.
LEMMA Removals ==
    ASSUME Shape, Keeping, Next, NEW k \in store, k \notin store'
    PROVE  \/ \E i \in Images :
                 /\ upload[i] = "put" /\ upload'[i] = "done"
                 /\ k = UploadKey(i)
           \/ \E c \in Cleaners :
                 cleaner[c].stage = "object" /\ k = cleaner[c].row.key
           \/ \E o \in Optimisers :
                 optimiser[o].stage = "fail" /\ k = Target(o)
           \/ Published(k) /\ NotInUse(k)
<1>1. ASSUME NEW i \in Images, UploadUndo(i)
      PROVE  /\ upload[i] = "put" /\ upload'[i] = "done"
             /\ k = UploadKey(i)
  BY <1>1 DEF UploadUndo, Shape, TypeOK
<1>2. ASSUME NEW c \in Cleaners, CleanObject(c)
      PROVE  cleaner[c].stage = "object" /\ k = cleaner[c].row.key
  BY <1>2 DEF CleanObject
<1>3. ASSUME NEW o \in Optimisers, OptimiseFail(o)
      PROVE  optimiser[o].stage = "fail" /\ k = Target(o)
  BY <1>3 DEF OptimiseFail
<1>4. ASSUME NEW r \in Reconcilers, ReconcileUndo(r)
      PROVE  Published(k) /\ NotInUse(k)
  BY <1>4 DEF ReconcileUndo, Keeping, KeysArePublished
<1>5. ASSUME NEW r \in Reconcilers, SweepRemove(r)
      PROVE  Published(k) /\ NotInUse(k)
  BY <1>5 DEF SweepRemove, Keeping, KeysArePublished, SweptIsUnused
<1> QED BY <1>1, <1>2, <1>3, <1>4, <1>5, Frames
        DEF UploadPut, OptimisePut, ReconcileWrite

\* The key of a conversion is neither published nor another conversion's.
LEMMA TargetIsOwn ==
    ASSUME Shape, Keeping, NEW o \in Optimisers,
           optimiser[o].stage \in Converting
    PROVE  /\ ~ Published(Target(o))
           /\ \A i \in Images : Target(o) # UploadKey(i)
           /\ \A p \in Optimisers :
                  optimiser[p].stage \in Converting /\ Target(p) = Target(o) =>
                      p = o
<1>1. /\ Target(o)[1] = optimiser[o].image /\ Target(o)[2] = "avif"
      /\ task[optimiser[o].image].status = "RUNNING"
  BY TargetKey DEF Converting, Keeping, OptimisersExclude
<1>2. \A i \in Images : Target(o) # UploadKey(i)
  BY <1>1, KeyParts
<1>3. ASSUME NEW p \in Optimisers, optimiser[p].stage \in Converting,
             Target(p) = Target(o)
      PROVE  p = o
  <2>1. Target(p)[1] = optimiser[p].image
    BY <1>3, TargetKey DEF Converting
  <2> QED BY <1>1, <1>3, <2>1 DEF Keeping, OptimisersExclude
<1> QED BY <1>1, <1>2, <1>3 DEF Published

\* A conversion that goes on keeps its key.
LEMMA TargetStays ==
    ASSUME Shape, Keeping, Next, NEW o \in Optimisers,
           optimiser[o].stage \in Converting,
           optimiser'[o].stage \in Converting,
           optimiser'[o].image = optimiser[o].image
    PROVE  Target(o)' = Target(o)
<1> DEFINE i == optimiser[o].image
<1>1. i \in Images /\ task[i].status = "RUNNING" /\ task \in [Images -> Task]
  BY DEF Shape, TypeOK, ProcessesFit, Converting, Keeping, OptimisersExclude
<1>2. ~ TaskStep(i)
  <2>1. ASSUME NEW p \in Optimisers, optimiser[p].stage \in Converting,
               optimiser[p].image = i
        PROVE  optimiser' # [optimiser EXCEPT ![p] = Idle]
    <3>1. p = o
      BY <2>1 DEF Keeping, OptimisersExclude
    <3> QED BY <3>1 DEF Shape, TypeOK, Idle, Converting
  <2> QED BY <1>1, <2>1 DEF TaskStep
<1>3. task'[i] = task[i]
  BY <1>1, <1>2, TaskSteps DEF TaskStep
<1> QED BY <1>3 DEF Target

LEMMA NewObjectsKept ==
    ASSUME Shape, Keeping, Next
    PROVE  NewObjectsAreStored'
<1>1. ASSUME NEW i \in Images, upload'[i] = "put"
      PROVE  UploadKey(i) \in store'
  <2>1. CASE upload[i] = "put"
    <3>1. /\ UploadKey(i) \in store /\ ~ Published(UploadKey(i))
          /\ \A j \in Images : UploadKey(i) = UploadKey(j) => i = j
      BY <2>1, KeyParts DEF Keeping, NewObjectsAreStored, Published
    <3>2. \A c \in Cleaners : cleaner[c].stage = "object" =>
              UploadKey(i) # cleaner[c].row.key
      BY <3>1 DEF Keeping, KeysArePublished
    <3>3. \A o \in Optimisers : optimiser[o].stage = "fail" =>
              UploadKey(i) # Target(o)
      BY TargetIsOwn DEF Converting
    <3> QED BY <1>1, <3>1, <3>2, <3>3, Removals
  <2>2. CASE upload[i] # "put"
    <3>1. \E j \in Images : UploadPut(j) \/ UploadInsert(j) \/ UploadUndo(j)
                              \/ UploadDie(j)
      BY <1>1, <2>2, Frames
    <3>2. UploadPut(i)
      BY <1>1, <2>2, <3>1
      DEF UploadPut, UploadInsert, UploadUndo, UploadDie, Shape, TypeOK
    <3> QED BY <3>2 DEF UploadPut
  <2> QED BY <2>1, <2>2
<1>2. ASSUME NEW o \in Optimisers, optimiser'[o].stage = "commit"
      PROVE  Target(o)' \in store'
  <2>1. CASE optimiser[o].stage = "commit" /\ optimiser'[o] = optimiser[o]
    <3>1. Target(o) \in store /\ Target(o)' = Target(o)
      BY <2>1, TargetStays DEF Keeping, NewObjectsAreStored, Converting
    <3>2. ~ Published(Target(o)) /\ \A i \in Images : Target(o) # UploadKey(i)
      BY <2>1, TargetIsOwn DEF Converting
    <3>3. \A p \in Optimisers : optimiser[p].stage = "fail" =>
              Target(o) # Target(p)
      BY <2>1, TargetIsOwn DEF Converting
    <3>4. \A c \in Cleaners : cleaner[c].stage = "object" =>
              Target(o) # cleaner[c].row.key
      BY <3>2 DEF Keeping, KeysArePublished
    <3> QED BY <3>1, <3>2, <3>3, <3>4, Removals
  <2>2. CASE OptimiserStep(o)
    <3>1. /\ optimiser[o].stage = "put" /\ UNCHANGED task
          /\ store' = store \cup {Target(o)}
          /\ optimiser'[o].image = optimiser[o].image
      BY <1>2, <2>2 DEF OptimiserStep
    <3>2. Target(o)' = Target(o)
      BY <3>1 DEF Target
    <3> QED BY <3>1, <3>2
  <2>3. ASSUME NEW p \in Optimisers, p # o, OptimiserStep(p)
        PROVE  optimiser'[o] = optimiser[o]
    BY <2>3 DEF OptimiserStep, Shape, TypeOK
  <2> QED BY <1>2, <2>1, <2>2, <2>3, OptimiserSteps
<1>3. ASSUME NEW r \in Reconcilers, reconciler'[r].stage = "switch",
             ~ StaysPublished(Rebuilt(r)')
      PROVE  Rebuilt(r)' \in store'
  <2>1. CASE reconciler[r].stage = "switch" /\ reconciler'[r] = reconciler[r]
    <3>1. /\ Rebuilt(r) \in Keys /\ Rebuilt(r)[2] = "rebuilt"
          /\ Rebuilt(r)' = Rebuilt(r)
      BY <2>1, RebuiltParts DEF Rebuilding, Rebuilt
    <3>2. ~ Published(Rebuilt(r))
      BY <1>3, <3>1, PublishedStays DEF Keeping
    <3>3. Rebuilt(r) \in store
      BY <2>1, <3>2 DEF Keeping, NewObjectsAreStored
    <3>4. \A c \in Cleaners : cleaner[c].stage = "object" =>
              Rebuilt(r) # cleaner[c].row.key
      BY <3>2 DEF Keeping, KeysArePublished
    <3>5. \A o \in Optimisers : optimiser[o].stage = "fail" =>
              Rebuilt(r) # Target(o)
      BY <3>1, TargetKey
    <3>6. \A i \in Images : Rebuilt(r) # UploadKey(i)
      BY <3>1, KeyParts
    <3> QED BY <3>1, <3>2, <3>3, <3>4, <3>5, <3>6, Removals
  <2>2. CASE ReconcilerStep(r)
    <3>1. /\ reconciler[r].stage = "write"
          /\ store' = store \cup {Rebuilt(r)}
          /\ Rebuilt(r)' = Rebuilt(r)
      BY <1>3, <2>2 DEF ReconcilerStep, Rebuilt
    <3> QED BY <3>1
  <2>3. ASSUME NEW q \in Reconcilers, q # r, ReconcilerStep(q)
        PROVE  reconciler'[r] = reconciler[r]
    BY <2>3 DEF ReconcilerStep, Shape, TypeOK
  <2> QED BY <1>3, <2>1, <2>2, <2>3, ReconcilerSteps
<1> QED BY <1>1, <1>2, <1>3 DEF NewObjectsAreStored, Published, StaysPublished

LEMMA KeepingKept ==
    ASSUME Shape, Keeping, Next
    PROVE  Keeping'
BY OptimisersKept, KeysKept, AdvanceKept, SweptKept, NewObjectsKept DEF Keeping

-----------------------------------------------------------------------------
(* The evidence, where only images that have not expired are linked.       *)

LEMMA CleanedKept ==
    ASSUME Shape, Keeping, CleanedIsExpired, ~ LateSubmissions, Next
    PROVE  CleanedIsExpired'
<1> DEFINE Cleanable(i) == \/ row'[i].status = "none"
                           \/ row'[i].status = "orphaned" /\ row'[i].expired
<1>1. ASSUME NEW c \in Cleaners, cleaner[c].stage # "idle"
      PROVE  Cleanable(cleaner[c].image)
  <2> DEFINE i == cleaner[c].image
  <2>1. i \in Images /\ upload[i] = "done"
    BY <1>1 DEF Shape, ProcessesFit, Keeping, KeysArePublished, Published
  <2>2. \/ row[i].status = "none"
        \/ row[i].status = "orphaned" /\ row[i].expired
    BY <1>1 DEF CleanedIsExpired
  <2>3. CASE row'[i] = row[i]
    BY <2>2, <2>3
  <2>4. CASE RowStep(i)
    BY <2>1, <2>2, <2>4, NoRowParts
    DEF RowStep, Inserted, WasLinked, WasRetained, Expired, WasDeleted,
        WasConverted, WasRebuilt, WasMarked
  <2> QED BY <2>1, <2>3, <2>4, RowSteps, OneRow
<1>2. ASSUME NEW c \in Cleaners, CleanerStep(c), cleaner'[c].stage # "idle"
      PROVE  Cleanable(cleaner'[c].image)
  BY <1>1, <1>2 DEF CleanerStep
<1>3. \A c, d \in Cleaners :
          CleanerStep(c) /\ d # c => cleaner'[d] = cleaner[d]
  BY DEF CleanerStep, Shape, TypeOK
<1>4. \A c \in Cleaners : cleaner'[c].stage # "idle" =>
          Cleanable(cleaner'[c].image)
  BY <1>1, <1>2, <1>3, CleanerSteps
<1> QED BY <1>4 DEF CleanedIsExpired

\* No step both changes rows and removes or adds objects.
LEMMA RowsOrStore ==
    ASSUME Next
    PROVE  UNCHANGED row \/ UNCHANGED store
BY RowActions DEF UploadInsert, Expire, SubmitLink, Retain, CleanRow,
                  OptimiseCommit, ReconcileSwitch, ReconcileMark

LEMMA LiveKept ==
    ASSUME Shape, Keeping, Evidence, ~ LateSubmissions, Next
    PROVE  LiveIsStored'
<1> SUFFICES ASSUME NEW i \in Images,
                    row'[i].status # "none", ~ row'[i].expired,
                    row'[i].sanitized
             PROVE  row'[i].key \in store'
  BY DEF LiveIsStored
<1>1. CASE row'[i] = row[i]
  <2> DEFINE k == row[i].key
  <2>1. /\ k \in store /\ k \in Keys /\ k[1] = i /\ upload[i] = "done"
        /\ Published(k)
    BY <1>1 DEF Evidence, LiveIsStored, Shape, RowFits, Keeping,
                KeysArePublished
  <2>2. \A j \in Images : upload[j] = "put" => k # UploadKey(j)
    BY <2>1, KeyParts
  <2>3. ASSUME NEW c \in Cleaners, cleaner[c].stage = "object"
        PROVE  k # cleaner[c].row.key
    <3>1. cleaner[c].row.key[1] = cleaner[c].image
      BY <2>3 DEF Shape, ProcessesFit
    <3>2. cleaner[c].image # i
      BY <1>1, <2>3 DEF Evidence, CleanedIsExpired
    <3> QED BY <2>1, <3>1, <3>2
  <2>4. \A o \in Optimisers : optimiser[o].stage = "fail" => k # Target(o)
    BY <2>1, TargetIsOwn DEF Converting
  <2>5. ~ NotInUse(k)
    BY <1>1 DEF NotInUse, RowOfKey
  <2> QED BY <1>1, <2>1, <2>2, <2>3, <2>4, <2>5, Removals
<1>2. CASE RowStep(i) /\ row'[i] # row[i]
  <2>1. store' = store
    BY <1>2, RowsOrStore
  <2>2. CASE Inserted(i)
    BY <2>1, <2>2 DEF Inserted, Keeping, NewObjectsAreStored
  <2>3. CASE WasLinked(i)
    BY <2>1, <2>3 DEF WasLinked, Evidence, LiveIsStored
  <2>4. CASE WasRetained(i)
    BY <2>1, <2>4 DEF WasRetained, Evidence, LiveIsStored
  <2>5. ~ Expired(i) /\ ~ WasDeleted(i) /\ ~ WasMarked(i)
    BY NoRowParts DEF Expired, WasDeleted, WasMarked
  <2>6. CASE WasConverted(i)
    BY <2>1, <2>6 DEF WasConverted, Keeping, NewObjectsAreStored
  <2>7. CASE WasRebuilt(i)
    <3>1. PICK r \in Reconcilers :
              /\ reconciler[r].stage = "switch" /\ reconciler[r].image = i
              /\ Unchanged(r) /\ row'[i].key = Rebuilt(r)
      BY <2>7 DEF WasRebuilt
    <3>2. row[i].status # "none"
      BY <2>7 DEF WasRebuilt
    <3>3. /\ Rebuilt(r)[1] = i /\ Rebuilt(r)[2] = "rebuilt"
          /\ Rebuilt(r)[3] = row[i].stamp /\ row[i].stamp \in 0 .. MaxStamp
      BY <3>1, RebuiltParts DEF Unchanged, Rebuilding
    <3>4. ~ Published(Rebuilt(r))
      BY <3>2, <3>3 DEF Published
    <3> QED BY <2>1, <3>1, <3>4 DEF Keeping, NewObjectsAreStored
  <2> QED BY <1>2, <2>2, <2>3, <2>4, <2>5, <2>6, <2>7 DEF RowStep
<1> QED BY <1>1, <1>2, RowSteps, OneRow

-----------------------------------------------------------------------------
(* The tombstones.                                                         *)

\* Only the image a key names can have it.
TombstoneMatches(k) ==
    /\ tombstone[k] = "ORPHANED" <=>
           /\ row[k[1]].key = k
           /\ row[k[1]].status = "orphaned"
    /\ tombstone[k] = "DELETED" =>
           row[k[1]].key # k \/ row[k[1]].status = "none"

KeysMatch == \A k \in Keys : TombstoneMatches(k)

LEMMA OneRowOfKey == Shape => (TombstonesMatchRows <=> KeysMatch)
<1> SUFFICES ASSUME Shape PROVE TombstonesMatchRows <=> KeysMatch
  OBVIOUS
<1>1. ASSUME NEW k \in Keys
      PROVE  /\ k[1] \in Images
             /\ \A i \in Images : i \in RowOfKey(k) <=>
                    /\ i = k[1]
                    /\ row[k[1]].key = k /\ row[k[1]].status # "none"
  BY KeyParts DEF RowOfKey, Shape, RowFits
<1>2. ASSUME NEW k \in Keys
      PROVE  /\ (\E i \in RowOfKey(k) : row[i].status = "orphaned") <=>
                    row[k[1]].key = k /\ row[k[1]].status = "orphaned"
             /\ RowOfKey(k) = {} <=>
                    row[k[1]].key # k \/ row[k[1]].status = "none"
  <2>1. RowOfKey(k) \subseteq Images
    BY DEF RowOfKey
  <2> QED BY <1>1, <2>1
<1> QED BY <1>2 DEF TombstonesMatchRows, KeysMatch, TombstoneMatches

LEMMA TombstonesKept ==
    ASSUME Shape, Shape', TombstonesMatchRows, Next
    PROVE  TombstonesMatchRows'
<1>1. \A k \in Keys : TombstoneMatches(k) /\ k[1] \in Images
  BY OneRowOfKey, KeyParts DEF KeysMatch
<1>2. TombstonesMatchRows' <=> KeysMatch'
  BY OneRowOfKey, PTL
<1>3. ASSUME NEW k \in Keys PROVE TombstoneMatches(k)'
  <2>1. CASE UNCHANGED <<row, tombstone>>
    BY <1>1, <2>1 DEF TombstoneMatches
  <2>2. ASSUME NEW i \in Images, RowStep(i) PROVE TombstoneMatches(k)'
    <3>1. CASE Expired(i) \/ WasMarked(i)
      <4>1. /\ tombstone' = tombstone
            /\ row'[i].key = row[i].key /\ row'[i].status = row[i].status
        BY <3>1 DEF Expired, WasMarked
      <4>2. i # k[1] => row'[k[1]] = row[k[1]]
        BY <1>1, <2>2, OneRow
      <4> QED BY <1>1, <4>1, <4>2 DEF TombstoneMatches
    <3>2. CASE Replaced(i)
      <4>1. tombstone'[k] =
                IF k = row'[i].key
                THEN IF row'[i].status = "orphaned" THEN "ORPHANED" ELSE "none"
                ELSE IF k = row[i].key THEN "DELETED"
                ELSE tombstone[k]
        BY <3>2 DEF Replaced, Trigger
      <4>2. CASE i = k[1]
        <5>1. row'[i].status = "none" => row'[i].key # k
          BY KeyParts, NoRowParts DEF Shape, RowFits
        <5> QED BY <1>1, <4>1, <4>2, <5>1 DEF TombstoneMatches
      <4>3. CASE i # k[1]
        <5>1. k # row'[i].key /\ k # row[i].key
          BY <4>3, KeyParts, NoRowParts DEF Shape, RowFits
        <5>2. row'[k[1]] = row[k[1]]
          BY <1>1, <2>2, <4>3, OneRow
        <5> QED BY <1>1, <4>1, <5>1, <5>2 DEF TombstoneMatches
      <4> QED BY <4>2, <4>3
    <3> QED BY <2>2, <3>1, <3>2
            DEF RowStep, Inserted, WasLinked, WasRetained, WasDeleted,
                WasConverted, WasRebuilt
  <2> QED BY <2>1, <2>2, RowSteps
<1> QED BY <1>2, <1>3 DEF KeysMatch

-----------------------------------------------------------------------------
(* The objects that are accounted for.                                     *)

\* Who vouches for a key.
Vouched(k) ==
    \/ \E i \in Images : row[i].key = k
    \/ k \in Keys /\ tombstone[k] = "DELETED"
    \/ \E i \in Images : upload[i] = "put" /\ k = UploadKey(i)
    \/ \E o \in Optimisers :
          optimiser[o].stage \in {"commit", "fail"} /\ k = Target(o)
    \/ \E r \in Reconcilers :
          reconciler[r].stage \in {"switch", "undo"} /\ k = Rebuilt(r)

LEMMA AccountedIsVouched ==
    /\ \A k : k \in Accounted <=> Vouched(k)
    /\ \A k : k \in Accounted' <=> Vouched(k)'
BY DEF Accounted, Vouched

\* Whatever a step does to rows, the keys of rows and of tombstones remain
\* those of rows or of tombstones.
LEMMA RowsVouch ==
    ASSUME Shape, Next, NEW k \in Keys,
           (\E i \in Images : row[i].key = k) \/ tombstone[k] = "DELETED"
    PROVE  (\E i \in Images : row'[i].key = k) \/ tombstone'[k] = "DELETED"
<1>1. CASE UNCHANGED <<row, tombstone>>
  BY <1>1
<1>2. ASSUME NEW i \in Images, RowStep(i)
      PROVE  (\E j \in Images : row'[j].key = k) \/ tombstone'[k] = "DELETED"
  <2>1. \A j \in Images : j # i => row'[j] = row[j]
    BY <1>2, OneRow
  <2>2. CASE UNCHANGED tombstone /\ row'[i].key = row[i].key
    BY <2>1, <2>2
  <2>3. CASE Replaced(i)
    <3>1. tombstone'[k] =
              IF k = row'[i].key
              THEN IF row'[i].status = "orphaned" THEN "ORPHANED" ELSE "none"
              ELSE IF k = row[i].key THEN "DELETED"
              ELSE tombstone[k]
      BY <2>3 DEF Replaced, Trigger
    <3> QED BY <2>1, <3>1
  <2> QED BY <1>2, <2>2, <2>3
          DEF RowStep, Inserted, WasLinked, WasRetained, Expired, WasDeleted,
              WasConverted, WasRebuilt, WasMarked
<1> QED BY <1>1, <1>2, RowSteps

LEMMA NewObjectsAreVouched ==
    ASSUME Shape, Next, NEW k \in store', k \notin store
    PROVE  Vouched(k)'
<1>1. ASSUME NEW i \in Images, UploadPut(i) PROVE Vouched(k)'
  BY <1>1 DEF UploadPut, Vouched, Shape, TypeOK
<1>2. ASSUME NEW o \in Optimisers, OptimisePut(o) PROVE Vouched(k)'
  <2>1. k = Target(o) /\ UNCHANGED task
    BY <1>2 DEF OptimisePut
  <2>2. /\ optimiser' = [optimiser EXCEPT ![o].stage = "commit"]
        /\ optimiser \in [Optimisers ->
                            Process({"claim", "put", "commit", "fail"})]
    BY <1>2 DEF OptimisePut, Shape, TypeOK
  <2>3. /\ optimiser'[o].stage = "commit"
        /\ optimiser'[o].image = optimiser[o].image
    BY <2>2 DEF Process
  <2> QED BY <2>1, <2>3 DEF Vouched, Target
<1>3. ASSUME NEW r \in Reconcilers, ReconcileWrite(r) PROVE Vouched(k)'
  <2>1. k = Rebuilt(r)
    BY <1>3 DEF ReconcileWrite
  <2>2. /\ reconciler' = [reconciler EXCEPT ![r].stage = "switch"]
        /\ reconciler \in [Reconcilers ->
                             Process({"read", "write", "switch", "undo", "mark",
                                      "sweep", "remove"})]
    BY <1>3 DEF ReconcileWrite, Step, Shape, TypeOK
  <2>3. /\ reconciler'[r].stage = "switch"
        /\ reconciler'[r].image = reconciler[r].image
        /\ reconciler'[r].row = reconciler[r].row
    BY <2>2 DEF Process
  <2> QED BY <2>1, <2>3 DEF Vouched, Rebuilt
<1> QED BY <1>1, <1>2, <1>3, Frames
        DEF UploadUndo, CleanObject, OptimiseFail, ReconcileUndo, SweepRemove

\* Without a fault no object is lost track of.
LEMMA VouchedKept ==
    ASSUME Shape, Keeping, Next, UNCHANGED faults,
           NEW k \in Keys, k \in store', Vouched(k)
    PROVE  Vouched(k)'
<1>0. /\ faults \in 0 .. MaxFaults /\ ~ Fault
      /\ upload \in [Images -> {"waiting", "put", "done"}]
      /\ optimiser \in [Optimisers ->
                          Process({"claim", "put", "commit", "fail"})]
      /\ reconciler \in [Reconcilers ->
                           Process({"read", "write", "switch", "undo", "mark",
                                    "sweep", "remove"})]
  BY ConstantsAssumption DEF Shape, TypeOK, Fault
<1>1. CASE (\E i \in Images : row[i].key = k) \/ tombstone[k] = "DELETED"
  BY <1>1, RowsVouch DEF Vouched
<1>2. ASSUME NEW i \in Images, upload[i] = "put", k = UploadKey(i)
      PROVE  Vouched(k)'
  <2>1. CASE upload'[i] = "put"
    BY <1>2, <2>1 DEF Vouched
  <2>2. CASE upload'[i] # "put"
    <3>1. PICK j \in Images : UploadPut(j) \/ UploadInsert(j) \/ UploadUndo(j)
                                \/ UploadDie(j)
      BY <1>2, <2>2, Frames
    <3>2. j = i /\ ~ UploadPut(j) /\ ~ UploadDie(j)
      BY <1>0, <1>2, <2>2, <3>1
      DEF UploadPut, UploadInsert, UploadUndo, UploadDie
    <3>3. ~ UploadUndo(i)
      BY <1>2 DEF UploadUndo
    <3>4. row'[i].key = k
      BY <1>2, <3>1, <3>2, <3>3, InsertWrites DEF Shape
    <3> QED BY <3>4 DEF Vouched
  <2> QED BY <2>1, <2>2
<1>3. ASSUME NEW o \in Optimisers, optimiser[o].stage \in {"commit", "fail"},
             k = Target(o)
      PROVE  Vouched(k)'
  <2>1. CASE optimiser'[o].stage \in {"commit", "fail"}
             /\ optimiser'[o].image = optimiser[o].image
    <3>1. Target(o)' = k
      BY <1>3, <2>1, TargetStays DEF Converting
    <3> QED BY <2>1, <3>1 DEF Vouched
  <2>2. CASE optimiser'[o] = optimiser[o]
    BY <1>3, <2>1, <2>2
  <2>3. ASSUME OptimiseCommit(o) PROVE Vouched(k)'
    <3> DEFINE i == optimiser[o].image
    <3>1. i \in Images
      BY <1>3 DEF Shape, ProcessesFit
    <3>2. CASE SourceUnchanged(i)
      <4>1. /\ CanUpdate(i)
            /\ WriteRow(i, [Updated(i) EXCEPT !.key = Target(o),
                                              !.type = "avif"])
        BY <2>3, <3>2 DEF OptimiseCommit
      <4>2. row'[i].key = k
        BY <1>3, <3>1, <4>1, CommitWrites DEF Shape
      <4> QED BY <3>1, <4>2 DEF Vouched
    <3>3. CASE ~ SourceUnchanged(i)
      <4>1. optimiser' = [optimiser EXCEPT ![o].stage = "fail"]
        BY <2>3, <3>3 DEF OptimiseCommit
      <4>2. /\ optimiser'[o].stage = "fail"
            /\ optimiser'[o].image = optimiser[o].image
        BY <1>0, <4>1 DEF Process
      <4> QED BY <2>1, <4>2
    <3> QED BY <3>2, <3>3
  <2>4. ~ OptimiseFail(o)
    BY <1>0, <1>3 DEF OptimiseFail
  <2>5. /\ \A i \in Images : ~ OptimiseRead(o, i)
        /\ ~ OptimiseClaim(o) /\ ~ OptimisePut(o) /\ ~ OptimiseRefuse(o)
        /\ ~ OptimiseError(o) /\ ~ OptimiseDie(o)
    BY <1>0, <1>3 DEF OptimiseRead, OptimiseClaim, OptimisePut, OptimiseRefuse,
                      OptimiseError, OptimiseDie
  <2>6. ASSUME NEW p \in Optimisers, p # o,
               \/ \E i \in Images : OptimiseRead(p, i)
               \/ OptimiseClaim(p) \/ OptimisePut(p) \/ OptimiseRefuse(p)
               \/ OptimiseCommit(p) \/ OptimiseError(p) \/ OptimiseFail(p)
               \/ OptimiseDie(p)
        PROVE  optimiser'[o] = optimiser[o]
    BY <1>0, <2>6 DEF OptimiseRead, OptimiseClaim, OptimisePut, OptimiseRefuse,
                      OptimiseCommit, OptimiseError, OptimiseFail, OptimiseDie
  <2> QED BY <2>2, <2>3, <2>4, <2>5, <2>6, Frames
<1>4. ASSUME NEW r \in Reconcilers, reconciler[r].stage \in {"switch", "undo"},
             k = Rebuilt(r)
      PROVE  Vouched(k)'
  <2>1. CASE /\ reconciler'[r].stage \in {"switch", "undo"}
             /\ reconciler'[r].image = reconciler[r].image
             /\ reconciler'[r].row = reconciler[r].row
    BY <1>4, <2>1 DEF Vouched, Rebuilt
  <2>2. CASE reconciler'[r] = reconciler[r]
    BY <1>4, <2>1, <2>2
  <2>3. ASSUME ReconcileSwitch(r) PROVE Vouched(k)'
    <3> DEFINE i == reconciler[r].image
    <3>1. i \in Images
      BY <1>4 DEF Shape, ProcessesFit
    <3>2. CASE row[i].status # "none" /\ Unchanged(r)
      <4>1. /\ CanUpdate(i)
            /\ WriteRow(i, [Updated(i) EXCEPT !.key = Rebuilt(r),
                                              !.type = "jpeg",
                                              !.sanitized = TRUE])
        BY <2>3, <3>2 DEF ReconcileSwitch
      <4>2. row'[i].key = k
        BY <1>4, <3>1, <4>1, SwitchWrites DEF Shape
      <4> QED BY <3>1, <4>2 DEF Vouched
    <3>3. CASE ~ (row[i].status # "none" /\ Unchanged(r))
      <4>1. reconciler' = [reconciler EXCEPT ![r].stage = "undo"]
        BY <2>3, <3>3 DEF ReconcileSwitch, Step
      <4>2. /\ reconciler'[r].stage = "undo"
            /\ reconciler'[r].image = reconciler[r].image
            /\ reconciler'[r].row = reconciler[r].row
        BY <1>0, <4>1 DEF Process
      <4> QED BY <2>1, <4>2
    <3> QED BY <3>2, <3>3
  <2>4. ASSUME ReconcileUndo(r) PROVE Vouched(k)'
    <3>1. ~ NotInUse(k) /\ UNCHANGED row
      BY <1>4, <2>4 DEF ReconcileUndo
    <3> QED BY <3>1 DEF NotInUse, RowOfKey, Vouched
  <2>5. /\ \A i \in Images : ~ ReconcileRead(r, i)
        /\ \A x \in Keys : ~ SweepRead(r, x)
        /\ ~ ReconcileVerify(r) /\ ~ ReconcileWrite(r) /\ ~ ReconcileError(r)
        /\ ~ ReconcileMark(r) /\ ~ SweepCheck(r) /\ ~ SweepRemove(r)
        /\ ~ ReconcileDie(r)
    BY <1>0, <1>4 DEF ReconcileRead, SweepRead, ReconcileVerify, ReconcileWrite,
                      ReconcileError, ReconcileMark, SweepCheck, SweepRemove,
                      ReconcileDie
  <2>6. \/ UNCHANGED reconciler
        \/ ReconcileSwitch(r) \/ ReconcileUndo(r)
        \/ \E q \in Reconcilers : q # r /\ reconciler'[r] = reconciler[r]
    <3>1. ASSUME NEW q \in Reconcilers, q # r,
                 \/ \E i \in Images : ReconcileRead(q, i)
                 \/ ReconcileVerify(q) \/ ReconcileWrite(q)
                 \/ ReconcileSwitch(q) \/ ReconcileUndo(q)
                 \/ ReconcileError(q) \/ ReconcileMark(q)
                 \/ \E x \in Keys : SweepRead(q, x)
                 \/ SweepCheck(q) \/ SweepRemove(q) \/ ReconcileDie(q)
          PROVE  reconciler'[r] = reconciler[r]
      BY <1>0, <3>1
      DEF ReconcileRead, SweepRead, ReconcileVerify, ReconcileWrite,
          ReconcileSwitch, ReconcileUndo, ReconcileError, ReconcileMark,
          SweepCheck, SweepRemove, ReconcileDie, Step, Stop
    <3> QED BY <2>5, <3>1, Frames
  <2> QED BY <2>2, <2>3, <2>4, <2>6
<1> QED BY <1>1, <1>2, <1>3, <1>4 DEF Vouched

\* A fault loses track of one object at most.
LEMMA FaultLosesOne ==
    ASSUME Shape, Keeping, Next, Fault
    PROVE  \E x : \A k \in Keys :
               k \in store' /\ Vouched(k) /\ k # x => Vouched(k)'
<1>0. /\ faults \in 0 .. MaxFaults /\ faults' # faults
      /\ upload \in [Images -> {"waiting", "put", "done"}]
      /\ cleaner \in [Cleaners -> Process({"object", "row"})]
      /\ optimiser \in [Optimisers ->
                          Process({"claim", "put", "commit", "fail"})]
      /\ reconciler \in [Reconcilers ->
                           Process({"read", "write", "switch", "undo", "mark",
                                    "sweep", "remove"})]
  BY ConstantsAssumption DEF Shape, TypeOK, Fault
<1>1. ASSUME NEW i \in Images, UploadDie(i)
      PROVE  \A k \in Keys : Vouched(k) /\ k # UploadKey(i) => Vouched(k)'
  <2>1. \A j \in Images : j # i => upload'[j] = upload[j]
    BY <1>0, <1>1 DEF UploadDie
  <2> QED BY <1>1, <2>1 DEF UploadDie, Vouched, Target, Rebuilt
<1>2. ASSUME NEW c \in Cleaners, CleanFail(c)
      PROVE  \A k \in Keys : Vouched(k) => Vouched(k)'
  BY <1>2 DEF CleanFail, Vouched, Target, Rebuilt
<1>3. ASSUME NEW o \in Optimisers,
             OptimiseError(o) \/ OptimiseFail(o) \/ OptimiseDie(o)
      PROVE  \A k \in Keys : Vouched(k) /\ k # Target(o) => Vouched(k)'
  <2>1. \A p \in Optimisers : p # o => optimiser'[p] = optimiser[p]
    BY <1>0, <1>3 DEF OptimiseError, OptimiseFail, OptimiseDie
  <2>2. ASSUME NEW p \in Optimisers, p # o,
               optimiser[p].stage \in {"commit", "fail"}
        PROVE  Target(p)' = Target(p)
    BY <2>1, <2>2, TargetStays DEF Converting
  <2> QED BY <1>3, <2>1, <2>2
          DEF OptimiseError, OptimiseFail, OptimiseDie, Vouched, Rebuilt
<1>4. ASSUME NEW r \in Reconcilers, ReconcileError(r) \/ ReconcileDie(r)
      PROVE  \A k \in Keys : Vouched(k) /\ k # Rebuilt(r) => Vouched(k)'
  <2>1. \A q \in Reconcilers : q # r => reconciler'[q] = reconciler[q]
    BY <1>0, <1>4 DEF ReconcileError, ReconcileDie, Step, Stop
  <2> QED BY <1>4, <2>1
          DEF ReconcileError, ReconcileDie, Vouched, Target, Rebuilt
<1>5. \/ \E i \in Images : UploadDie(i)
      \/ \E c \in Cleaners : CleanFail(c)
      \/ \E o \in Optimisers :
            OptimiseError(o) \/ OptimiseFail(o) \/ OptimiseDie(o)
      \/ \E r \in Reconcilers : ReconcileError(r) \/ ReconcileDie(r)
  BY <1>0 DEF Next, UploadPut, UploadInsert, UploadUndo, Expire, SubmitRead,
              SubmitLink, Retain, CreateTask, RequeueTask, CleanRead,
              CleanObject, CleanRow, OptimiseRead, OptimiseClaim, OptimisePut,
              OptimiseRefuse, OptimiseCommit, ReconcileRead, ReconcileVerify,
              ReconcileWrite, ReconcileSwitch, ReconcileUndo, ReconcileMark,
              SweepRead, SweepCheck, SweepRemove
<1> QED BY <1>1, <1>2, <1>3, <1>4, <1>5

LEMMA LostKept ==
    ASSUME Shape, Keeping, IsFiniteSet(Lost), ObjectsAccountedFor, Next
    PROVE  IsFiniteSet(Lost') /\ ObjectsAccountedFor'
<1>0. /\ faults \in Nat /\ Cardinality(Lost) <= faults
      /\ store' \subseteq Keys
  BY ConstantsAssumption, StoreType
  DEF ObjectsAccountedFor, Lost, Shape, TypeOK
<1>1. Cardinality(Lost) \in Nat
  BY FS_CardinalityType
<1>2. /\ \A k : k \in Lost <=> k \in store /\ ~ Vouched(k)
      /\ \A k : k \in Lost' <=> k \in store' /\ ~ Vouched(k)'
  BY AccountedIsVouched DEF Lost
<1>3. ASSUME NEW k \in Lost', ~ Vouched(k) PROVE k \in Lost
  BY <1>2, <1>3, NewObjectsAreVouched
<1>4. CASE UNCHANGED faults
  <2>1. Lost' \subseteq Lost
    BY <1>0, <1>2, <1>3, <1>4, VouchedKept
  <2>2. IsFiniteSet(Lost') /\ Cardinality(Lost') <= Cardinality(Lost)
    BY <2>1, FS_Subset
  <2>3. Cardinality(Lost') \in Nat
    BY <2>2, FS_CardinalityType
  <2> QED BY <1>0, <1>1, <1>4, <2>2, <2>3 DEF ObjectsAccountedFor, Lost
<1>5. CASE Fault
  <2>1. PICK x : \A k \in Keys :
            k \in store' /\ Vouched(k) /\ k # x => Vouched(k)'
    BY <1>5, FaultLosesOne
  <2>2. Lost' \subseteq Lost \cup {x}
    BY <1>0, <1>2, <1>3, <2>1
  <2>3. /\ IsFiniteSet(Lost \cup {x})
        /\ Cardinality(Lost \cup {x}) \in {Cardinality(Lost),
                                           Cardinality(Lost) + 1}
    BY FS_AddElement
  <2>4. /\ IsFiniteSet(Lost')
        /\ Cardinality(Lost') <= Cardinality(Lost \cup {x})
    BY <2>2, <2>3, FS_Subset
  <2>5. Cardinality(Lost') \in Nat
    BY <2>4, FS_CardinalityType
  <2> QED BY <1>0, <1>1, <1>5, <2>3, <2>4, <2>5
          DEF ObjectsAccountedFor, Lost, Fault
<1> QED BY <1>4, <1>5, Frames

-----------------------------------------------------------------------------
(* The invariant holds, and what follows from it.                          *)

LEMMA InitKeeps == Init => IInv
<1> SUFFICES ASSUME Init PROVE IInv
  OBVIOUS
<1>1. PICK legacy \in SUBSET Images, lost \in SUBSET Images :
          /\ row = [i \in Images |->
                       IF i \in legacy
                       THEN [NoRow EXCEPT !.status = "linked",
                                          !.key = UploadKey(i)]
                       ELSE NoRow]
          /\ store = {UploadKey(i) : i \in legacy \ lost}
          /\ upload = [i \in Images |-> IF i \in legacy THEN "done"
                                        ELSE "waiting"]
  BY DEF Init
<1>2. /\ tombstone = [k \in Keys |-> "none"]
      /\ task = [i \in Images |-> [status |-> "none", source |-> NoKey,
                                   attempts |-> 0]]
      /\ submission = upload
      /\ cleaner = [c \in Cleaners |-> Idle]
      /\ optimiser = [o \in Optimisers |-> Idle]
      /\ reconciler = [r \in Reconcilers |-> Idle]
      /\ faults = 0
  BY DEF Init
<1> DEFINE Legacy(r, i) == [r EXCEPT !.status = "linked", !.key = UploadKey(i)]
<1>3. \A r \in Row, i \in Images :
          /\ Legacy(r, i) \in Row /\ Legacy(r, i).status = "linked"
          /\ Legacy(r, i).key = UploadKey(i)
          /\ Legacy(r, i).sanitized = r.sanitized
          /\ Legacy(r, i).expired = r.expired
  BY KeyParts DEF Row
<1>4. /\ NoRow \in Row /\ NoRow.status = "none" /\ NoRow.key = NoKey
      /\ NoRow.sanitized = FALSE /\ NoRow.expired = FALSE
  BY RowParts DEF NoRow
<1>5. ASSUME NEW i \in Images
      PROVE  /\ row[i] \in Row
             /\ i \in legacy =>
                    /\ row[i].status = "linked" /\ row[i].key = UploadKey(i)
                    /\ upload[i] = "done"
             /\ i \notin legacy =>
                    row[i] = NoRow /\ upload[i] = "waiting"
             /\ row[i].sanitized = FALSE /\ row[i].expired = FALSE
  BY <1>1, <1>3, <1>4
<1> HIDE DEF Legacy
<1>6. TypeOK
  <2>1. row \in [Images -> Row]
    BY <1>1, <1>5
  <2>2. store \subseteq Keys
    <3>1. \A k \in store : \E i \in Images : k = UploadKey(i)
      BY <1>1
    <3> QED BY <3>1, KeyParts
  <2>3. [status |-> "none", source |-> NoKey, attempts |-> 0] \in Task
    BY DEF Task, Attempts
  <2>4. /\ upload \in [Images -> {"waiting", "put", "done"}]
        /\ upload \in [Images -> {"waiting", "read", "done"}]
    BY <1>1
  <2> QED BY <1>2, <2>1, <2>2, <2>3, <2>4, ProcessParts, ConstantsAssumption
          DEF TypeOK
<1>7. /\ \A c \in Cleaners : cleaner[c].stage = "idle"
      /\ \A o \in Optimisers : optimiser[o].stage = "idle"
      /\ \A r \in Reconcilers : reconciler[r].stage = "idle"
  BY <1>2 DEF Idle
<1>8. Shape
  <2>1. \A i \in Images : RowFits(i)
    <3>1. ASSUME NEW i \in legacy PROVE RowFits(i)
      <4>1. /\ row[i].status = "linked" /\ row[i].expired = FALSE
            /\ row[i].key = UploadKey(i) /\ upload[i] = "done"
        BY <1>5, <3>1
      <4>2. UploadKey(i) \in Keys /\ UploadKey(i)[1] = i
        BY <3>1, KeyParts
      <4> QED BY <4>1, <4>2 DEF RowFits, Linked
    <3>2. ASSUME NEW i \in Images, i \notin legacy PROVE RowFits(i)
      BY <1>4, <1>5, <3>2 DEF RowFits, Linked
    <3> QED BY <3>1, <3>2
  <2>2. \A i \in Images : TaskFits(i)
    BY <1>2 DEF TaskFits
  <2> QED BY <1>6, <1>7, <2>1, <2>2 DEF Shape, ProcessesFit
<1>9. Keeping
  <2>1. \A i \in Images : row[i].status # "none" => Published(row[i].key)
    <3>1. ASSUME NEW i \in Images, row[i].status # "none"
          PROVE  row[i].key = UploadKey(i) /\ upload[i] = "done"
      BY <1>4, <1>5, <3>1
    <3>2. ASSUME NEW i \in Images, upload[i] = "done"
          PROVE  Published(UploadKey(i))
      BY <3>2, KeyParts DEF Published
    <3> QED BY <3>1, <3>2
  <2>2. \A i \in Images : upload[i] # "put"
    BY <1>5
  <2> QED BY <1>2, <1>7, <2>1, <2>2
          DEF Keeping, OptimisersExclude, Converting, KeysArePublished,
              RowsAdvance, Rebuilding, SweptIsUnused, NewObjectsAreStored
<1>10. TombstonesMatchRows
  BY <1>2, <1>4, <1>5 DEF TombstonesMatchRows, RowOfKey
<1>11. Evidence
  BY <1>5, <1>7 DEF Evidence, CleanedIsExpired, LiveIsStored
<1>12. IsFiniteSet(Lost) /\ ObjectsAccountedFor
  <2>1. \A k \in store : k \in Accounted
    BY <1>1, <1>5 DEF Accounted
  <2>2. Lost = {}
    BY <2>1 DEF Lost
  <2> QED BY <1>2, <2>2, FS_EmptySet DEF ObjectsAccountedFor, Lost
<1> QED BY <1>8, <1>9, <1>10, <1>11, <1>12 DEF IInv

LEMMA StepKeeps == IInv /\ [Next]_vars => IInv'
<1> SUFFICES ASSUME IInv, [Next]_vars PROVE IInv'
  OBVIOUS
<1>1. CASE Next
  <2>1. /\ Shape /\ Keeping /\ OptimisersExclude /\ TombstonesMatchRows
        /\ ~ LateSubmissions => Evidence
        /\ IsFiniteSet(Lost) /\ ObjectsAccountedFor
    BY DEF IInv, Keeping
  <2>2. Shape'
    BY <1>1, <2>1, ShapeKept
  <2>3. ~ LateSubmissions => Evidence'
    BY <1>1, <2>1, CleanedKept, LiveKept DEF Evidence
  <2> QED BY <1>1, <2>1, <2>2, <2>3, KeepingKept, TombstonesKept, LostKept
          DEF IInv
<1>2. CASE UNCHANGED vars
  <2>1. Shape' = Shape
    BY <1>2 DEF vars, Shape, TypeOK, RowFits, Linked, TaskFits, ProcessesFit
  <2>2. Keeping' = Keeping
    <3>1. (OptimisersExclude' = OptimisersExclude)
          /\ (RowsAdvance' = RowsAdvance)
      BY <1>2 DEF vars, OptimisersExclude, RowsAdvance
    <3>2. KeysArePublished' = KeysArePublished
      BY <1>2 DEF vars, KeysArePublished, Published, Rebuilt
    <3>3. SweptIsUnused' = SweptIsUnused
      BY <1>2 DEF vars, SweptIsUnused, NotInUse, RowOfKey
    <3>4. NewObjectsAreStored' = NewObjectsAreStored
      BY <1>2 DEF vars, NewObjectsAreStored, Published, Target, Rebuilt
    <3> QED BY <3>1, <3>2, <3>3, <3>4 DEF Keeping
  <2>3. TombstonesMatchRows' = TombstonesMatchRows
    BY <1>2 DEF vars, TombstonesMatchRows, RowOfKey
  <2>4. Evidence' = Evidence
    BY <1>2 DEF vars, Evidence, CleanedIsExpired, LiveIsStored
  <2>5. Lost' = Lost /\ ObjectsAccountedFor' = ObjectsAccountedFor
    BY <1>2 DEF vars, Lost, Accounted, Target, Rebuilt, ObjectsAccountedFor
  <2> QED BY <2>1, <2>2, <2>3, <2>4, <2>5 DEF IInv
<1> QED BY <1>1, <1>2

LEMMA Kept == Spec => []IInv
BY InitKeeps, StepKeeps, PTL DEF Spec

\* Rows, objects, tombstones, tasks and processes have their types, whatever
\* the number of images and processes.
THEOREM TypeCorrect == Spec => []TypeOK
<1>1. IInv => TypeOK
  BY DEF IInv, Shape
<1> QED BY <1>1, Kept, PTL

\* The trigger keeps the tombstones: ORPHANED for exactly the keys of orphaned
\* rows, DELETED for none that a row uses.
THEOREM TombstonesAreTrue == Spec => []TombstonesMatchRows
<1>1. IInv => TombstonesMatchRows
  BY DEF IInv
<1> QED BY <1>1, Kept, PTL

\* Where no submission links an image that has expired, evidence in use whose
\* provenance is vouched for has its object: no clean-up, conversion or
\* reconciliation, and no failure of one, removes it.
THEOREM EvidenceIsKept == ~ LateSubmissions => (Spec => []EvidenceIsStored)
<1> SUFFICES ASSUME ~ LateSubmissions PROVE Spec => []EvidenceIsStored
  OBVIOUS
<1>1. IInv => EvidenceIsStored
  BY DEF IInv, Shape, RowFits, Linked, Evidence, LiveIsStored,
         EvidenceIsStored
<1> QED BY <1>1, Kept, PTL

\* An object that no row, tombstone or process accounts for is that of a
\* fault, and each fault leaves one at most.
THEOREM ObjectsAreAccounted == Spec => []ObjectsAccountedFor
<1>1. IInv => ObjectsAccountedFor
  BY DEF IInv
<1> QED BY <1>1, Kept, PTL

\* What the clean-up's test says holds of every process if no submission links
\* an image that has expired: only the row of an orphan loses its object.
THEOREM OnlyOrphansLose == ~ LateSubmissions => (Spec => OnlyOrphansAreDeleted)
<1> SUFFICES ASSUME ~ LateSubmissions PROVE Spec => OnlyOrphansAreDeleted
  OBVIOUS
<1> DEFINE Orphans == \A i \in Images :
                          row[i].key \in store /\ row[i].key \notin store'
                              => row[i].status = "orphaned"
<1>1. ASSUME IInv, Next, NEW i \in Images,
             row[i].key \in store, row[i].key \notin store'
      PROVE  row[i].status = "orphaned"
  <2> DEFINE k == row[i].key
  <2>1. Shape /\ Keeping /\ Evidence
    BY <1>1 DEF IInv
  <2>2. row[i].status # "none"
    BY <1>1, <2>1, KeyParts, NoRowParts DEF Shape, TypeOK, RowFits
  <2>3. k[1] = i /\ upload[i] = "done" /\ Published(k)
    BY <2>1, <2>2 DEF Shape, RowFits, Keeping, KeysArePublished
  <2>4. \A j \in Images : upload[j] = "put" => k # UploadKey(j)
    BY <2>3, KeyParts
  <2>5. ASSUME NEW c \in Cleaners, cleaner[c].stage = "object",
               k = cleaner[c].row.key
        PROVE  row[i].status = "orphaned"
    <3>1. cleaner[c].image = i
      BY <2>1, <2>3, <2>5 DEF Shape, ProcessesFit
    <3> QED BY <2>1, <2>2, <2>5, <3>1 DEF Evidence, CleanedIsExpired
  <2>6. \A o \in Optimisers : optimiser[o].stage = "fail" => k # Target(o)
    BY <2>1, <2>3, TargetIsOwn DEF Converting
  <2>7. ~ NotInUse(k)
    BY <2>2 DEF NotInUse, RowOfKey
  <2> QED BY <1>1, <2>1, <2>4, <2>5, <2>6, <2>7, Removals
<1>2. IInv /\ [Next]_vars => [Orphans]_vars
  BY <1>1
<1> QED BY <1>2, Kept, PTL DEF Spec, OnlyOrphansAreDeleted
=============================================================================
