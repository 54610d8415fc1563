---------------------------- MODULE GalleryBackup ----------------------------
(***************************************************************************)
(* A backup plan of the gallery: its runs, the workers that execute them,  *)
(* the artefacts at the backup target, and what a run restores.            *)
(*                                                                         *)
(* A run is claimed with the time of its snapshot, which is its fencing    *)
(* token and part of its artefact's name: a worker that lost its run to    *)
(* another, after two hours, goes on beside it until it looks.  An         *)
(* incremental manifest lists what changed after the plan's watermark, the *)
(* snapshot of its last success; a restore replays the manifests since the *)
(* last full one.                                                          *)
(*                                                                         *)
(* Time is a counter that snapshots and commits advance, one clock for all *)
(* processes.  A write of an image is stamped before it commits: a         *)
(* manifest sees the commits that precede it, and selects by the stamps.   *)
(***************************************************************************)
EXTENDS Integers, FiniteSets, FiniteSetsExt, Sequences

CONSTANTS
    Keys,           \* object keys; an image that is converted gets another
    Workers,
    FirstMode,      \* the mode the plan was created with
    ModeEdits,      \* whether an operator edits the plan's row: no route does
    MaxRuns,        \* bounds: runs, time, ticks from a stamp to the commit,
    MaxTime,        \* take-overs of runs, and faults
    MaxDelay,
    MaxTakeovers,
    MaxFaults

Modes == {"FULL", "INCREMENTAL"}

ASSUME ConstantsAssumption ==
    /\ FirstMode \in Modes /\ ModeEdits \in BOOLEAN
    /\ {MaxRuns, MaxTime, MaxDelay, MaxTakeovers, MaxFaults} \subseteq Nat

VARIABLES
    now,
    image,          \* EvidenceImage, by object key
    tombstone,      \* GalleryObjectTombstone: deletedAt, by key; 0 if none
    written,        \* when the last write of a key committed: the code does
                    \* not know it, the properties ask for it
    lastSuccessfulAt,   \* the watermark of the plan, 0 if none
    runs,           \* BackupRun, in the order of createdAt
    store,          \* the artefacts at the target
    worker,
    takeovers, faults

vars == <<now, image, tombstone, written, lastSuccessfulAt, runs, store,
          worker, takeovers, faults>>

Times == 0 .. MaxTime

RunIds == 1 .. MaxRuns

Run == [status: {"QUEUED", "RUNNING", "SUCCEEDED", "FAILED"}, mode: Modes,
        started: Times]

\* Its name is the run and the time of the snapshot.
Artefact == [run: RunIds, at: Times, objects: SUBSET Keys, gone: SUBSET Keys]

Stages == {"idle", "claim", "images", "archive", "complete", "advance"}

Worker == [stage: Stages, run: RunIds \cup {0}, snapshot: Times,
           since: Times,        \* the watermark, as read before the claim
           objects: SUBSET Keys, gone: SUBSET Keys]

Idle == [stage |-> "idle", run |-> 0, snapshot |-> 0, since |-> 0,
         objects |-> {}, gone |-> {}]

TypeOK ==
    /\ now \in Times
    /\ image \in [Keys -> [status: {"none", "orphaned", "kept"}, stamp: Times]]
    /\ tombstone \in [Keys -> Times]
    /\ written \in [Keys -> Times]
    /\ lastSuccessfulAt \in Times
    /\ runs \in Seq(Run) /\ Len(runs) <= MaxRuns
    /\ store \subseteq Artefact
    /\ worker \in [Workers -> Worker]
    /\ takeovers \in 0 .. MaxTakeovers
    /\ faults \in 0 .. MaxFaults

-----------------------------------------------------------------------------
(* The images, as far as a backup sees them.  The trigger stamps or clears *)
(* the tombstone in the statement that writes the row.                     *)

Gallery == <<image, tombstone, written>>

Tick == now < MaxTime /\ now' = now + 1

\* A transaction that writes the rows of these keys commits.
Commit(keys) ==
    /\ Tick
    /\ written' = [k \in Keys |-> IF k \in keys THEN now' ELSE written[k]]
    /\ UNCHANGED <<lastSuccessfulAt, runs, store, worker, takeovers, faults>>

\* Its stamps are older: updatedAt is taken when the statement is built,
\* which may then wait for the row, and deletedAt when the transaction begins.
Stamps == {t \in 1 .. now' : now' - t <= MaxDelay}

Upload(k) ==
    /\ image[k].status = "none" /\ tombstone[k] = 0
    /\ Commit({k})
    /\ \E updatedAt, deletedAt \in Stamps :
          /\ image' = [image EXCEPT
                         ![k] = [status |-> "orphaned", stamp |-> updatedAt]]
          /\ tombstone' = [tombstone EXCEPT ![k] = deletedAt]

\* A submission links it, or a decision writes it again.
Keep(k) ==
    /\ image[k].status # "none"
    /\ Commit({k})
    /\ \E updatedAt \in Stamps :
          image' = [image EXCEPT ![k] = [status |-> "kept", stamp |-> updatedAt]]
    /\ tombstone' = [tombstone EXCEPT ![k] = 0]

CleanUp(k) ==
    /\ image[k].status = "orphaned"
    /\ Commit({k})
    /\ image' = [image EXCEPT ![k] = [status |-> "none", stamp |-> 0]]
    /\ \E deletedAt \in Stamps :
          tombstone' = [tombstone EXCEPT ![k] = deletedAt]

\* The optimiser, or reconciliation, gives the image another object.
Convert(k, l) ==
    /\ image[k].status = "kept"
    /\ image[l].status = "none" /\ tombstone[l] = 0
    /\ Commit({k, l})
    /\ \E updatedAt, deletedAt \in Stamps :
          /\ image' = [image EXCEPT
                         ![k] = [status |-> "none", stamp |-> 0],
                         ![l] = [status |-> "kept", stamp |-> updatedAt]]
          /\ tombstone' = [tombstone EXCEPT ![k] = deletedAt]

-----------------------------------------------------------------------------
(* The plan and the queue of its runs.                                     *)

\* By the schedule, when no run of the plan is unfinished, or by an
\* administrator at any time: both take the mode of the plan.
CreateRun(mode) ==
    /\ Len(runs) < MaxRuns
    /\ mode = FirstMode \/ ModeEdits
    /\ runs' = Append(runs, [status |-> "QUEUED", mode |-> mode, started |-> 0])
    /\ UNCHANGED <<now, Gallery, lastSuccessfulAt, store, worker, takeovers,
                   faults>>

\* Mutant: a stale run gets a status of its own.
MarkStale(r) ==
    /\ runs[r].status = "RUNNING" /\ takeovers < MaxTakeovers
    /\ takeovers' = takeovers + 1
    /\ runs' = [runs EXCEPT ![r].status = "STALE"]
    /\ UNCHANGED <<now, Gallery, lastSuccessfulAt, store, worker, faults>>

\* A run that is RUNNING for two hours is queued again, whether its worker
\* died or is slow.
RecoverStale(r) ==
    /\ runs[r].status = "RUNNING" /\ takeovers < MaxTakeovers
    /\ takeovers' = takeovers + 1
    /\ runs' = [runs EXCEPT ![r].status = "QUEUED", ![r].started = 0]
    /\ UNCHANGED <<now, Gallery, lastSuccessfulAt, store, worker, faults>>

-----------------------------------------------------------------------------
(* executeBackupRun                                                        *)

Step(w, stage) == worker' = [worker EXCEPT ![w].stage = stage]

Leave(w) == worker' = [worker EXCEPT ![w] = Idle]

\* The artefact a worker writes.
Product(w) == [run |-> worker[w].run, at |-> worker[w].snapshot,
               objects |-> worker[w].objects, gone |-> worker[w].gone]

\* The oldest queued run; the run and its plan are read, then the clock.
Pick(w) ==
    /\ worker[w].stage = "idle"
    /\ Tick
    /\ \E r \in DOMAIN runs :
           /\ runs[r].status = "QUEUED"
           /\ \A q \in 1 .. r - 1 : runs[q].status # "QUEUED"
           /\ worker' = [worker EXCEPT ![w] =
                  [Idle EXCEPT !.stage = "claim", !.run = r,
                               !.snapshot = now', !.since = lastSuccessfulAt]]
    /\ UNCHANGED <<Gallery, lastSuccessfulAt, runs, store, takeovers, faults>>

Claim(w) ==
    LET r == worker[w].run
    IN  /\ worker[w].stage = "claim"
        /\ IF runs[r].status = "QUEUED"
           THEN /\ runs' = [runs EXCEPT ![r].status = "RUNNING",
                                        ![r].started = worker[w].snapshot]
                /\ Step(w, "images")
           ELSE Leave(w) /\ UNCHANGED runs
        /\ UNCHANGED <<now, Gallery, lastSuccessfulAt, store, takeovers,
                       faults>>

\* Mutant: the lease is the status alone.
OwnsRunning(w) == runs[worker[w].run].status = "RUNNING"

\* hasBackupRunLease, and the guard of every write that ends a run.
Owns(w) ==
    LET run == runs[worker[w].run]
    IN  run.status = "RUNNING" /\ run.started = worker[w].snapshot

Incremental(w) == runs[worker[w].run].mode = "INCREMENTAL"

\* The first backup has to be a full one.
LacksBaseline(w) == Incremental(w) /\ worker[w].since = 0

\* What a manifest lists of the images and tombstones.
Listed(w, stamp) ==
    /\ stamp <= worker[w].snapshot
    /\ Incremental(w) /\ worker[w].since # 0 => stamp > worker[w].since

ReadImages(w) ==
    /\ worker[w].stage = "images" /\ ~ LacksBaseline(w)
    /\ worker' = [worker EXCEPT
           ![w].stage = "archive",
           ![w].objects = {k \in Keys : image[k].status = "kept"
                                        /\ Listed(w, image[k].stamp)}]
    /\ UNCHANGED <<now, Gallery, lastSuccessfulAt, runs, store, takeovers,
                   faults>>

\* A key that is both an object and deleted refuses the manifest.
Deleted(w) == {k \in Keys : tombstone[k] # 0 /\ Listed(w, tombstone[k])}

\* The tombstones are read in a statement of their own, then the objects; a
\* worker that still holds its run copies the artefact to the target.
Archive(w) ==
    LET artefact == [Product(w) EXCEPT !.gone = Deleted(w)]
    IN  /\ worker[w].stage = "archive"
        /\ worker[w].objects \cap Deleted(w) = {}
        /\ IF Owns(w)
           THEN /\ store' = store \cup {artefact}
                /\ worker' = [worker EXCEPT ![w].stage = "complete",
                                            ![w].gone = artefact.gone]
           ELSE Leave(w) /\ UNCHANGED store
        /\ UNCHANGED <<now, Gallery, lastSuccessfulAt, runs, takeovers, faults>>

\* Mutant: a worker that lost its run leaves its artefact behind.
Forget(w) == UNCHANGED store

\* deleteArtifact
Discard(w) == store' = store \ {Product(w)}

\* The artefact is read back, and the run ends if it is still the worker's.
Complete(w) ==
    /\ worker[w].stage = "complete"
    /\ IF Owns(w)
       THEN /\ runs' = [runs EXCEPT ![worker[w].run].status = "SUCCEEDED"]
            /\ Step(w, "advance") /\ UNCHANGED store
       ELSE Leave(w) /\ Discard(w) /\ UNCHANGED runs
    /\ UNCHANGED <<now, Gallery, lastSuccessfulAt, takeovers, faults>>

\* Mutant: the watermark is the time of completion.
AdvanceToNow(w) ==
    /\ worker[w].stage = "advance"
    /\ lastSuccessfulAt' = now
    /\ Leave(w)
    /\ UNCHANGED <<now, Gallery, runs, store, takeovers, faults>>

\* The watermark only moves forward.
Advance(w) ==
    /\ worker[w].stage = "advance"
    /\ lastSuccessfulAt' = Max({lastSuccessfulAt, worker[w].snapshot})
    /\ Leave(w)
    /\ UNCHANGED <<now, Gallery, runs, store, takeovers, faults>>

Fault == faults < MaxFaults /\ faults' = faults + 1

\* The end of an execution that threw: the artefact is removed, unless its
\* run is committed, and the run fails if it is still the worker's.
Throw(w) ==
    /\ IF worker[w].stage = "complete" THEN Discard(w) ELSE UNCHANGED store
    /\ runs' = IF Owns(w) THEN [runs EXCEPT ![worker[w].run].status = "FAILED"]
               ELSE runs
    /\ Leave(w)
    /\ UNCHANGED <<now, Gallery, lastSuccessfulAt, takeovers>>

\* The refusals of the code itself.
Refused(w) ==
    CASE worker[w].stage = "images" -> LacksBaseline(w)
      [] worker[w].stage = "archive" -> worker[w].objects \cap Deleted(w) # {}
      [] OTHER -> FALSE

Refuse(w) == Refused(w) /\ Throw(w) /\ UNCHANGED faults

\* The store, the target or the database fails, or an object is gone.
Error(w) == worker[w].stage \notin {"idle", "claim"} /\ Fault /\ Throw(w)

\* The process dies, or the artefact of a lost run cannot be deleted.
Crash(w) ==
    /\ worker[w].stage # "idle"
    /\ Fault
    /\ Leave(w)
    /\ UNCHANGED <<now, Gallery, lastSuccessfulAt, runs, store, takeovers>>

-----------------------------------------------------------------------------
\* Some images are older than the plan.
Init ==
    /\ now = 0
    /\ image \in [Keys -> [status: {"none", "kept"}, stamp: {0}]]
    /\ tombstone = [k \in Keys |-> 0]
    /\ written = [k \in Keys |-> 0]
    /\ lastSuccessfulAt = 0
    /\ runs = << >>
    /\ store = {}
    /\ worker = [w \in Workers |-> Idle]
    /\ takeovers = 0 /\ faults = 0

Execute(w) ==
    \/ Claim(w) \/ ReadImages(w) \/ Archive(w) \/ Complete(w) \/ Advance(w)
    \/ Refuse(w)

Next ==
    \/ \E k \in Keys : Upload(k) \/ Keep(k) \/ CleanUp(k)
    \/ \E k, l \in Keys : Convert(k, l)
    \/ \E mode \in Modes : CreateRun(mode)
    \/ \E r \in DOMAIN runs : RecoverStale(r)
    \/ \E w \in Workers : Pick(w) \/ Execute(w) \/ Error(w) \/ Crash(w)

Spec == Init /\ [][Next]_vars

-----------------------------------------------------------------------------
(* Restore: selectGalleryRestoreRuns and applyGalleryManifest.             *)

Succeeded == {r \in DOMAIN runs : runs[r].status = "SUCCEEDED"}

\* The successful runs from the last full one, in the order of creation.
Baselines(r) == {f \in Succeeded : f <= r /\ runs[f].mode = "FULL"}

Chain(r) ==
    {q \in Succeeded : q <= r /\ \E f \in Baselines(r) :
                                     \A g \in Baselines(r) : g <= f /\ f <= q}

Manifest(r) == CHOOSE a \in store : a.run = r /\ a.at = runs[r].started

\* The last manifest of the chain that names a key decides.
Restored(r) ==
    {k \in Keys :
        \E q \in Chain(r) :
            /\ k \in Manifest(q).objects
            /\ \A p \in Chain(r) : p > q => k \notin Manifest(p).gone}

-----------------------------------------------------------------------------
(* Properties.                                                             *)

\* A successful run has its artefact, and it is the one of the claim that
\* succeeded: workers that lost the run overwrite and delete their own only.
SucceededIsStored ==
    \A r \in Succeeded :
        Cardinality({a \in store : a.run = r /\ a.at = runs[r].started}) = 1

\* Every other artefact is still in the hands of the worker that wrote it,
\* or a fault lost it.
ArtefactsAccountedFor ==
    Cardinality({a \in store :
        /\ ~ (runs[a.run].status = "SUCCEEDED" /\ runs[a.run].started = a.at)
        /\ \A w \in Workers : worker[w].stage = "complete" => Product(w) # a})
    <= faults

\* The order of creation, in which a restore replays manifests, is the order
\* of the snapshots.  Only a run that was taken over after a newer one was
\* requested by hand breaks it.
RunsInOrder ==
    \A q, r \in Succeeded : q < r => runs[q].started < runs[r].started

\* A write that committed after a manifest of the chain was due to list it.
Straddles(k, stamp, r) ==
    \E q \in Chain(r) : stamp <= runs[q].started /\ runs[q].started < written[k]

\* Every successful run can be restored, its chain begins with a full one, and
\* the restore is right about every key whose last write committed before the
\* run's snapshot, whatever else changed while a manifest was read, failed, was
\* taken over or missed its watermark.  No increment need list a write that has
\* an older snapshot of the chain between its stamp and its commit; such keys,
\* and no others, may wait for their next write or the next full run.
RestoreMatchesGallery ==
    RunsInOrder =>
        \A r \in Succeeded, k \in Keys :
            LET due(stamp) == /\ written[k] <= runs[r].started
                              /\ ~ Straddles(k, stamp, r)
            IN  /\ Chain(r) # {}
                /\ image[k].status = "kept" /\ due(image[k].stamp)
                       => k \in Restored(r)
                /\ tombstone[k] # 0 /\ due(tombstone[k])
                       => k \notin Restored(r)

\* Gallery backups support full and incremental modes: when all its runs
\* ended, and nothing failed, a plan has succeeded at least once.
BothModesWork ==
    /\ Len(runs) = MaxRuns /\ faults = 0 /\ takeovers = 0
    /\ \A r \in DOMAIN runs : runs[r].status \in {"SUCCEEDED", "FAILED"}
    => Succeeded # {}
=============================================================================
