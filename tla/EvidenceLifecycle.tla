------------------------- MODULE EvidenceLifecycle -------------------------
(***************************************************************************)
(* The rows of the evidence images and the objects of the private bucket,  *)
(* which no transaction covers together.  Uploads put an object and then   *)
(* insert its row; submissions link rows; the daily clean-up deletes the   *)
(* object and then the row of an expired orphan; the optimiser replaces a  *)
(* JPEG by an AVIF under a new key; reconciliation rebuilds images of      *)
(* unknown provenance under a key derived from the row, and removes the    *)
(* objects whose tombstone says they are deleted.  A trigger keeps the     *)
(* tombstones.  Any process may fail or die between two of its steps.      *)
(***************************************************************************)
EXTENDS Integers, FiniteSets

CONSTANTS
    Images, Cleaners, Optimisers, Reconcilers,
    LateSubmissions,    \* a submission may link an image that has expired
    MaxStamp,           \* bound of the number of updates of a row
    MaxFaults           \* bound of the number of faults

ASSUME ConstantsAssumption ==
    /\ LateSubmissions \in BOOLEAN
    /\ MaxStamp \in Nat \ {0} /\ MaxFaults \in Nat

VARIABLES
    row,        \* EvidenceImage; stamp counts the updates, as updatedAt does
    store,      \* keys of the objects in the bucket
    tombstone,  \* GalleryObjectTombstone, by key
    task,       \* ImageOptimizationTask, by image
    upload, submission, cleaner, optimiser, reconciler,
    faults

vars == <<row, store, tombstone, task, upload, submission, cleaner,
          optimiser, reconciler, faults>>

\* Keys name the image and the writer.  An uploaded or converted object gets
\* a fresh key; the key of a rebuilt one follows from the row it was read in.
UploadKey(i) == <<i, "upload", 0>>
AvifKey(i, attempt) == <<i, "avif", attempt>>
RebuiltKey(i, stamp) == <<i, "rebuilt", stamp>>

Attempts == 0 .. 3

Keys == {UploadKey(i) : i \in Images}
          \cup {AvifKey(i, n) : i \in Images, n \in Attempts}
          \cup {RebuiltKey(i, n) : i \in Images, n \in 0 .. MaxStamp}

NoKey == <<"none", "none", 0>>

Row == [status: {"none", "orphaned", "linked", "retained"},
        key: Keys \cup {NoKey}, type: {"jpeg", "avif"}, sanitized: BOOLEAN,
        expired: BOOLEAN, stamp: 0 .. MaxStamp]

NoRow == [status |-> "none", key |-> NoKey, type |-> "jpeg",
          sanitized |-> FALSE, expired |-> FALSE, stamp |-> 0]

Task == [status: {"none", "QUEUED", "RUNNING", "COMPLETED", "FAILED"},
         source: Keys \cup {NoKey}, attempts: Attempts]

Process(stages) == [stage: {"idle"} \cup stages, image: Images \cup {"none"},
                    row: Row]

Idle == [stage |-> "idle", image |-> "none", row |-> NoRow]

TypeOK ==
    /\ row \in [Images -> Row]
    /\ store \subseteq Keys
    /\ tombstone \in [Keys -> {"none", "ORPHANED", "DELETED"}]
    /\ task \in [Images -> Task]
    /\ upload \in [Images -> {"waiting", "put", "done"}]
    /\ submission \in [Images -> {"waiting", "read", "done"}]
    /\ cleaner \in [Cleaners -> Process({"object", "row"})]
    /\ optimiser \in [Optimisers ->
                        Process({"claim", "put", "commit", "fail"})]
    /\ reconciler \in [Reconcilers ->
                         Process({"read", "write", "switch", "undo", "mark",
                                  "sweep", "remove"})]
    /\ faults \in 0 .. MaxFaults

-----------------------------------------------------------------------------
(* The database.                                                           *)

Linked(i) == row[i].status \in {"linked", "retained"}

RowOfKey(k) == {i \in Images : row[i].status # "none" /\ row[i].key = k}

\* Mutant: a row that is no longer orphaned keeps its tombstone.
TriggerKeeps(t, old, new) ==
    [k \in Keys |->
        IF k = new.key /\ new.status = "orphaned" THEN "ORPHANED"
        ELSE IF k = old.key /\ old.key # new.key THEN "DELETED"
        ELSE t[k]]

\* The trigger: the key that was left is deleted, the new one orphaned or
\* in use.  A deleted row leaves its key and takes none.
Trigger(t, old, new) ==
    [k \in Keys |->
        IF k = new.key
        THEN IF new.status = "orphaned" THEN "ORPHANED" ELSE "none"
        ELSE IF k = old.key THEN "DELETED"
        ELSE t[k]]

\* Writes the row of i in a statement that fires the trigger.
WriteRow(i, new) ==
    /\ row' = [row EXCEPT ![i] = new]
    /\ tombstone' = Trigger(tombstone, row[i], new)

Updated(i) == [row[i] EXCEPT !.stamp = @ + 1]

CanUpdate(i) == row[i].stamp < MaxStamp

Fault == faults < MaxFaults /\ faults' = faults + 1

-----------------------------------------------------------------------------
(* Upload, expiry and submission.                                          *)

UploadPut(i) ==
    /\ upload[i] = "waiting"
    /\ row[i].status = "none"
    /\ store' = store \cup {UploadKey(i)}
    /\ upload' = [upload EXCEPT ![i] = "put"]
    /\ UNCHANGED <<row, tombstone, task, submission, cleaner,
                   optimiser, reconciler, faults>>

UploadInsert(i) ==
    /\ upload[i] = "put"
    /\ WriteRow(i, [NoRow EXCEPT !.status = "orphaned", !.key = UploadKey(i),
                                 !.sanitized = TRUE])
    /\ upload' = [upload EXCEPT ![i] = "done"]
    /\ UNCHANGED <<store, task, submission, cleaner, optimiser,
                   reconciler, faults>>

\* Mutant: the insertion fails and the object stays.
UploadAbandon(i) ==
    /\ upload[i] = "put"
    /\ upload' = [upload EXCEPT ![i] = "done"]
    /\ UNCHANGED <<row, store, tombstone, task, submission, cleaner,
                   optimiser, reconciler, faults>>

\* The insertion fails and the object is removed.
UploadUndo(i) ==
    /\ upload[i] = "put"
    /\ store' = store \ {UploadKey(i)}
    /\ upload' = [upload EXCEPT ![i] = "done"]
    /\ UNCHANGED <<row, tombstone, task, submission, cleaner,
                   optimiser, reconciler, faults>>

\* The process dies, or neither the insertion nor the removal succeeds.
UploadDie(i) ==
    /\ upload[i] = "put"
    /\ Fault
    /\ upload' = [upload EXCEPT ![i] = "done"]
    /\ UNCHANGED <<row, store, tombstone, task, submission, cleaner,
                   optimiser, reconciler>>

Expire(i) ==
    /\ row[i].status = "orphaned" /\ ~row[i].expired
    /\ row' = [row EXCEPT ![i].expired = TRUE]
    /\ UNCHANGED <<store, tombstone, task, upload, submission,
                   cleaner, optimiser, reconciler, faults>>

SubmitRead(i) ==
    /\ submission[i] = "waiting"
    /\ row[i].status = "orphaned"
    /\ submission' = [submission EXCEPT ![i] = "read"]
    /\ UNCHANGED <<row, store, tombstone, task, upload, cleaner,
                   optimiser, reconciler, faults>>

\* The claim of the image; it fails if the row is gone.
SubmitLink(i) ==
    /\ submission[i] = "read"
    /\ row[i].expired => LateSubmissions
    /\ CanUpdate(i)
    /\ submission' = [submission EXCEPT ![i] = "done"]
    /\ IF row[i].status = "orphaned"
       THEN WriteRow(i, [Updated(i) EXCEPT !.status = "linked",
                                           !.expired = FALSE])
       ELSE UNCHANGED <<row, tombstone>>
    /\ UNCHANGED <<store, task, upload, cleaner, optimiser,
                   reconciler, faults>>

\* An approval retains the image.
Retain(i) ==
    /\ row[i].status = "linked"
    /\ CanUpdate(i)
    /\ WriteRow(i, [Updated(i) EXCEPT !.status = "retained"])
    /\ UNCHANGED <<store, task, upload, submission, cleaner,
                   optimiser, reconciler, faults>>

-----------------------------------------------------------------------------
(* The clean-up of expired orphans.                                        *)

Set(p, stage) == [p EXCEPT !.stage = stage]

CleanRead(c, i) ==
    /\ cleaner[c].stage = "idle"
    /\ row[i].status = "orphaned" /\ row[i].expired
    /\ cleaner' = [cleaner EXCEPT ![c] = [stage |-> "object", image |-> i,
                                          row |-> row[i]]]
    /\ UNCHANGED <<row, store, tombstone, task, upload, submission,
                   optimiser, reconciler, faults>>

CleanObject(c) ==
    /\ cleaner[c].stage = "object"
    /\ store' = store \ {cleaner[c].row.key}
    /\ cleaner' = [cleaner EXCEPT ![c].stage = "row"]
    /\ UNCHANGED <<row, tombstone, task, upload, submission,
                   optimiser, reconciler, faults>>

\* The references of a linked image refuse the deletion of its row.
CleanRow(c) ==
    LET i == cleaner[c].image IN
    /\ cleaner[c].stage = "row"
    /\ IF row[i].status = "orphaned" THEN WriteRow(i, NoRow)
       ELSE UNCHANGED <<row, tombstone>>
    /\ cleaner' = [cleaner EXCEPT ![c] = Idle]
    /\ UNCHANGED <<store, task, upload, submission, optimiser,
                   reconciler, faults>>

\* The bucket or the database fails, or the worker dies.
CleanFail(c) ==
    /\ cleaner[c].stage # "idle"
    /\ Fault
    /\ cleaner' = [cleaner EXCEPT ![c] = Idle]
    /\ UNCHANGED <<row, store, tombstone, task, upload, submission,
                   optimiser, reconciler>>

-----------------------------------------------------------------------------
(* The optimiser.                                                          *)

Target(o) ==
    AvifKey(optimiser[o].image, task[optimiser[o].image].attempts)

SetTask(i, status) == task' = [task EXCEPT ![i].status = status]

CreateTask(i) ==
    /\ Linked(i) /\ row[i].type = "jpeg" /\ row[i].sanitized
    /\ task[i].status = "none"
    /\ task' = [task EXCEPT ![i].status = "QUEUED", ![i].source = row[i].key]
    /\ UNCHANGED <<row, store, tombstone, upload, submission,
                   cleaner, optimiser, reconciler, faults>>

\* Mutant: a task is tried again without end.
RequeueAnyTask(i) ==
    /\ task[i].status = "FAILED"
    /\ SetTask(i, "QUEUED")
    /\ UNCHANGED <<row, store, tombstone, upload, submission,
                   cleaner, optimiser, reconciler, faults>>

RequeueTask(i) ==
    /\ task[i].status = "FAILED" /\ task[i].attempts < 3
    /\ SetTask(i, "QUEUED")
    /\ UNCHANGED <<row, store, tombstone, upload, submission,
                   cleaner, optimiser, reconciler, faults>>

OptimiseRead(o, i) ==
    /\ optimiser[o].stage = "idle"
    /\ task[i].status = "QUEUED"
    /\ optimiser' = [optimiser EXCEPT ![o] = [stage |-> "claim", image |-> i,
                                              row |-> row[i]]]
    /\ UNCHANGED <<row, store, tombstone, task, upload, submission,
                   cleaner, reconciler, faults>>

OptimiseClaim(o) ==
    LET i == optimiser[o].image IN
    /\ optimiser[o].stage = "claim"
    /\ IF task[i].status = "QUEUED"
       THEN /\ task' = [task EXCEPT ![i].status = "RUNNING",
                                    ![i].attempts = @ + 1]
            /\ optimiser' = [optimiser EXCEPT ![o].stage = "put"]
       ELSE /\ optimiser' = [optimiser EXCEPT ![o] = Idle]
            /\ UNCHANGED task
    /\ UNCHANGED <<row, store, tombstone, upload, submission,
                   cleaner, reconciler, faults>>

\* The source is read, verified and converted; the result is stored.
OptimisePut(o) ==
    LET old == optimiser[o].row IN
    /\ optimiser[o].stage = "put"
    /\ old.sanitized /\ old.key = task[optimiser[o].image].source
    /\ old.key \in store
    /\ store' = store \cup {Target(o)}
    /\ optimiser' = [optimiser EXCEPT ![o].stage = "commit"]
    /\ UNCHANGED <<row, tombstone, task, upload, submission,
                   cleaner, reconciler, faults>>

\* The image cannot be read, verified or made smaller.
OptimiseRefuse(o) ==
    /\ optimiser[o].stage = "put"
    /\ SetTask(optimiser[o].image, "FAILED")
    /\ optimiser' = [optimiser EXCEPT ![o] = Idle]
    /\ UNCHANGED <<row, store, tombstone, upload, submission,
                   cleaner, reconciler, faults>>

SourceUnchanged(i) ==
    /\ row[i].key = task[i].source
    /\ row[i].type = "jpeg" /\ row[i].sanitized

\* If the row changed during the conversion, the transaction fails.
OptimiseCommit(o) ==
    LET i == optimiser[o].image IN
    /\ optimiser[o].stage = "commit"
    /\ IF SourceUnchanged(i)
       THEN /\ CanUpdate(i)
            /\ WriteRow(i, [Updated(i) EXCEPT !.key = Target(o),
                                              !.type = "avif"])
            /\ SetTask(i, "COMPLETED")
            /\ optimiser' = [optimiser EXCEPT ![o] = Idle]
       ELSE /\ optimiser' = [optimiser EXCEPT ![o].stage = "fail"]
            /\ UNCHANGED <<row, tombstone, task>>
    /\ UNCHANGED <<store, upload, submission, cleaner, reconciler,
                   faults>>

\* The transaction fails for another reason.
OptimiseError(o) ==
    /\ optimiser[o].stage = "commit"
    /\ Fault
    /\ optimiser' = [optimiser EXCEPT ![o].stage = "fail"]
    /\ UNCHANGED <<row, store, tombstone, task, upload, submission,
                   cleaner, reconciler>>

\* The converted object is removed, if the bucket lets it.
OptimiseFail(o) ==
    /\ optimiser[o].stage = "fail"
    /\ \/ store' = store \ {Target(o)} /\ UNCHANGED faults
       \/ Fault /\ UNCHANGED store
    /\ SetTask(optimiser[o].image, "FAILED")
    /\ optimiser' = [optimiser EXCEPT ![o] = Idle]
    /\ UNCHANGED <<row, tombstone, upload, submission, cleaner,
                   reconciler>>

\* The task of a dead worker stays RUNNING.
OptimiseDie(o) ==
    /\ optimiser[o].stage # "idle"
    /\ Fault
    /\ optimiser' = [optimiser EXCEPT ![o] = Idle]
    /\ UNCHANGED <<row, store, tombstone, task, upload, submission,
                   cleaner, reconciler>>

-----------------------------------------------------------------------------
(* Reconciliation.                                                         *)

Rebuilt(r) == RebuiltKey(reconciler[r].image, reconciler[r].row.stamp)

\* The row is the one that was read.
Unchanged(r) == row[reconciler[r].image].stamp = reconciler[r].row.stamp

Step(r, stage) == reconciler' = [reconciler EXCEPT ![r].stage = stage]

Stop(r) == reconciler' = [reconciler EXCEPT ![r] = Idle]

ReconcileRead(r, i) ==
    /\ reconciler[r].stage = "idle"
    /\ row[i].status # "none"
    /\ reconciler' = [reconciler EXCEPT ![r] = [stage |-> "read", image |-> i,
                                                row |-> row[i]]]
    /\ UNCHANGED <<row, store, tombstone, task, upload, submission,
                   cleaner, optimiser, faults>>

ReconcileVerify(r) ==
    LET old == reconciler[r].row IN
    /\ reconciler[r].stage = "read"
    /\ \/ old.key \in store /\ old.sanitized /\ Stop(r)
       \/ old.key \in store /\ ~old.sanitized /\ Step(r, "write")
       \/ old.key \notin store /\ Step(r, "mark")
    /\ UNCHANGED <<row, store, tombstone, task, upload, submission,
                   cleaner, optimiser, faults>>

ReconcileWrite(r) ==
    /\ reconciler[r].stage = "write"
    /\ store' = store \cup {Rebuilt(r)}
    /\ Step(r, "switch")
    /\ UNCHANGED <<row, tombstone, task, upload, submission,
                   cleaner, optimiser, faults>>

\* The transaction also writes the tombstone of the replaced key, as the
\* trigger just did.
ReconcileSwitch(r) ==
    LET i == reconciler[r].image IN
    /\ reconciler[r].stage = "switch"
    /\ IF row[i].status # "none" /\ Unchanged(r)
       THEN /\ CanUpdate(i)
            /\ WriteRow(i, [Updated(i) EXCEPT !.key = Rebuilt(r),
                                              !.type = "jpeg",
                                              !.sanitized = TRUE])
            /\ Stop(r)
       ELSE Step(r, "undo") /\ UNCHANGED <<row, tombstone>>
    /\ UNCHANGED <<store, task, upload, submission, cleaner,
                   optimiser, faults>>

\* Mutant: the object is removed whoever uses it.
Unused(k) == TRUE

NotInUse(k) == RowOfKey(k) = {}

\* Another reconciliation may have published the same key.
ReconcileUndo(r) ==
    /\ reconciler[r].stage = "undo"
    /\ store' = IF NotInUse(Rebuilt(r)) THEN store \ {Rebuilt(r)} ELSE store
    /\ Stop(r)
    /\ UNCHANGED <<row, tombstone, task, upload, submission,
                   cleaner, optimiser, faults>>

\* The bucket or the database fails.
ReconcileError(r) ==
    /\ reconciler[r].stage \in {"read", "write", "switch", "undo"}
    /\ Fault
    /\ Step(r, "mark")
    /\ UNCHANGED <<row, store, tombstone, task, upload, submission,
                   cleaner, optimiser>>

\* The image becomes unreadable until it is rebuilt.
ReconcileMark(r) ==
    LET i == reconciler[r].image IN
    /\ reconciler[r].stage = "mark"
    /\ IF row[i].status # "none" /\ Unchanged(r)
       THEN /\ CanUpdate(i)
            /\ row' = [row EXCEPT ![i] = [Updated(i) EXCEPT !.sanitized = FALSE]]
       ELSE UNCHANGED row
    /\ Stop(r)
    /\ UNCHANGED <<store, tombstone, task, upload, submission,
                   cleaner, optimiser, faults>>

\* A tombstone is read, and then whether a row uses its key.
SweepRead(r, k) ==
    /\ reconciler[r].stage = "idle"
    /\ tombstone[k] = "DELETED"
    /\ reconciler' = [reconciler EXCEPT
                        ![r] = [stage |-> "sweep", image |-> "none",
                                row |-> [NoRow EXCEPT !.key = k]]]
    /\ UNCHANGED <<row, store, tombstone, task, upload, submission,
                   cleaner, optimiser, faults>>

SweepCheck(r) ==
    /\ reconciler[r].stage = "sweep"
    /\ IF NotInUse(reconciler[r].row.key) THEN Step(r, "remove") ELSE Stop(r)
    /\ UNCHANGED <<row, store, tombstone, task, upload, submission,
                   cleaner, optimiser, faults>>

SweepRemove(r) ==
    /\ reconciler[r].stage = "remove"
    /\ store' = store \ {reconciler[r].row.key}
    /\ Stop(r)
    /\ UNCHANGED <<row, tombstone, task, upload, submission,
                   cleaner, optimiser, faults>>

ReconcileDie(r) ==
    /\ reconciler[r].stage # "idle"
    /\ Fault
    /\ Stop(r)
    /\ UNCHANGED <<row, store, tombstone, task, upload, submission,
                   cleaner, optimiser>>

-----------------------------------------------------------------------------
\* Some images are from before their provenance was kept, and the objects of
\* some of these are lost.
Init ==
    \E legacy \in SUBSET Images : \E lost \in SUBSET legacy :
        /\ row = [i \in Images |->
                     IF i \in legacy
                     THEN [NoRow EXCEPT !.status = "linked",
                                        !.key = UploadKey(i)]
                     ELSE NoRow]
        /\ store = {UploadKey(i) : i \in legacy \ lost}
        /\ tombstone = [k \in Keys |-> "none"]
        /\ task = [i \in Images |-> [status |-> "none", source |-> NoKey,
                                     attempts |-> 0]]
        /\ upload = [i \in Images |-> IF i \in legacy THEN "done"
                                      ELSE "waiting"]
        /\ submission = upload
        /\ cleaner = [c \in Cleaners |-> Idle]
        /\ optimiser = [o \in Optimisers |-> Idle]
        /\ reconciler = [r \in Reconcilers |-> Idle]
        /\ faults = 0

Next ==
    \/ \E i \in Images :
          \/ UploadPut(i) \/ UploadInsert(i) \/ UploadUndo(i) \/ UploadDie(i)
          \/ Expire(i) \/ SubmitRead(i) \/ SubmitLink(i) \/ Retain(i)
          \/ CreateTask(i) \/ RequeueTask(i)
    \/ \E c \in Cleaners :
          \/ \E i \in Images : CleanRead(c, i)
          \/ CleanObject(c) \/ CleanRow(c) \/ CleanFail(c)
    \/ \E o \in Optimisers :
          \/ \E i \in Images : OptimiseRead(o, i)
          \/ OptimiseClaim(o) \/ OptimisePut(o) \/ OptimiseRefuse(o)
          \/ OptimiseCommit(o) \/ OptimiseError(o) \/ OptimiseFail(o)
          \/ OptimiseDie(o)
    \/ \E r \in Reconcilers :
          \/ \E i \in Images : ReconcileRead(r, i)
          \/ ReconcileVerify(r) \/ ReconcileWrite(r) \/ ReconcileSwitch(r)
          \/ ReconcileUndo(r) \/ ReconcileError(r) \/ ReconcileMark(r)
          \/ \E k \in Keys : SweepRead(r, k)
          \/ SweepCheck(r) \/ SweepRemove(r) \/ ReconcileDie(r)

Spec == Init /\ [][Next]_vars

-----------------------------------------------------------------------------
(* Properties.                                                             *)

\* Evidence that a submission or a record uses, and whose provenance is
\* vouched for, has its object, however uploads, clean-up, conversions,
\* reconciliations and their failures interleave.
EvidenceIsStored ==
    \A i \in Images : Linked(i) /\ row[i].sanitized => row[i].key \in store

\* What the name of the clean-up's test says: only expired orphans lose their
\* object.
OnlyOrphansAreDeleted ==
    [][\A i \in Images :
          row[i].key \in store /\ row[i].key \notin store'
            => row[i].status = "orphaned"]_vars

\* The tombstones tell the state of the keys: ORPHANED exactly those of
\* orphaned rows, and DELETED none that a row uses.
TombstonesMatchRows ==
    \A k \in Keys :
        /\ tombstone[k] = "ORPHANED" <=>
               \E i \in RowOfKey(k) : row[i].status = "orphaned"
        /\ tombstone[k] = "DELETED" => RowOfKey(k) = {}

\* Keys that a row, a tombstone or a process still vouches for.
Accounted ==
    {row[i].key : i \in Images}
      \cup {k \in Keys : tombstone[k] = "DELETED"}
      \cup {UploadKey(i) : i \in {j \in Images : upload[j] = "put"}}
      \cup {Target(o) : o \in {p \in Optimisers :
                                 optimiser[p].stage \in {"commit", "fail"}}}
      \cup {Rebuilt(r) : r \in {q \in Reconcilers :
                                  reconciler[q].stage \in {"switch", "undo"}}}

\* No object is lost track of, except one for every fault.
ObjectsAccountedFor == Cardinality(store \ Accounted) <= faults
=============================================================================
