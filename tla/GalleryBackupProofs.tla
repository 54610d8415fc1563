-------------------------- MODULE GalleryBackupProofs --------------------------
(***************************************************************************)
(* Proofs of the safety properties of GalleryBackup, for any number of     *)
(* keys, workers, runs, take-overs and faults.                             *)
(*                                                                         *)
(* A snapshot names one claim, one artefact and at most one run that       *)
(* started with it, which is why workers that lost their runs do no harm.  *)
(* A manifest is read over several steps while the gallery changes; it is  *)
(* right about every key whose last write committed before its snapshot,   *)
(* because whatever changes later commits later.  The stamps tell less: a  *)
(* write may take its own before a snapshot and commit after it.           *)
(***************************************************************************)
EXTENDS GalleryBackup, FiniteSetTheorems, SequenceTheorems,
        WellFoundedInduction, TLAPS

-----------------------------------------------------------------------------
(* The invariant.                                                          *)

\* No stamp is ahead of its commit, and an image in use has no tombstone.
GalleryFits ==
    \A k \in Keys :
        /\ image[k].stamp <= written[k] /\ tombstone[k] <= written[k]
        /\ written[k] <= now
        /\ image[k].status = "kept" => tombstone[k] = 0

\* A snapshot belongs to one worker and is later than the watermark that the
\* worker read.
WorkersFit ==
    /\ \A w \in Workers : worker[w].stage # "idle" =>
           /\ worker[w].run \in DOMAIN runs
           /\ worker[w].snapshot \in 1 .. now
           /\ worker[w].since < worker[w].snapshot
    /\ \A v, w \in Workers :
           /\ v # w /\ worker[v].stage # "idle" /\ worker[w].stage # "idle"
           => worker[v].snapshot # worker[w].snapshot

\* A run starts with the snapshot of the worker that claimed it, and of no
\* other; a worker before the end of its run has not completed it.
RunsFit ==
    /\ \A r \in DOMAIN runs : runs[r].started <= now
    /\ \A r \in DOMAIN runs :
           runs[r].status = "SUCCEEDED" => runs[r].started # 0
    /\ \A q, r \in DOMAIN runs :
           q # r /\ runs[q].started = runs[r].started => runs[r].started = 0
    /\ \A w \in Workers, r \in DOMAIN runs :
           /\ worker[w].stage # "idle"
           /\ runs[r].started = worker[w].snapshot
           => /\ r = worker[w].run /\ worker[w].stage # "claim"
              /\ runs[r].status = "SUCCEEDED" <=> worker[w].stage = "advance"
    /\ \A w \in Workers : worker[w].stage = "advance" =>
           runs[worker[w].run].started = worker[w].snapshot

\* An artefact is that of one claim.
StoreFits ==
    /\ \A a \in store : a.run \in DOMAIN runs /\ a.at \in 1 .. now
    /\ \A a, b \in store : a.at = b.at => a = b
    /\ \A w \in Workers :
           /\ worker[w].stage \in {"claim", "images", "archive"} =>
                  \A a \in store : a.at # worker[w].snapshot
           /\ worker[w].stage = "complete" => Product(w) \in store
    /\ \A r \in Succeeded :
           \E a \in store : a.run = r /\ a.at = runs[r].started

Shape == TypeOK /\ GalleryFits /\ WorkersFit /\ RunsFit /\ StoreFits

\* A watermark is the snapshot of a success.
IsWatermark(t) == \E s \in Succeeded : runs[s].started = t

WatermarksAreSnapshots ==
    /\ lastSuccessfulAt <= now
    /\ lastSuccessfulAt # 0 => IsWatermark(lastSuccessfulAt)
    /\ \A w \in Workers :
           worker[w].stage # "idle" /\ worker[w].since # 0 =>
               IsWatermark(worker[w].since)

\* What a manifest of the changes since a watermark, or of all changes, to a
\* snapshot has to list, by the stamp of a write and its commit.
Covers(mode, at, since, stamp, commit) ==
    commit <= at /\ (mode = "INCREMENTAL" => stamp > since)

\* The objects a manifest lists are right about the keys whose last write
\* committed before its snapshot.
ObjectsTell(mode, at, since, objects) ==
    /\ mode = "INCREMENTAL" => since < at /\ IsWatermark(since)
    /\ \A k \in Keys :
           /\ /\ image[k].status = "kept"
              /\ Covers(mode, at, since, image[k].stamp, written[k])
              => k \in objects
           /\ tombstone[k] # 0 /\ written[k] <= at => k \notin objects

\* So are the deletions it lists.
GoneTells(mode, at, since, gone) ==
    \A k \in Keys :
        /\ /\ tombstone[k] # 0
           /\ Covers(mode, at, since, tombstone[k], written[k])
           => k \in gone
        /\ image[k].status = "kept" /\ written[k] <= at => k \notin gone

ManifestsTell ==
    /\ \A w \in Workers : worker[w].stage = "archive" =>
           ObjectsTell(runs[worker[w].run].mode, worker[w].snapshot,
                       worker[w].since, worker[w].objects)
    /\ \A a \in store : \E since \in Times :
           /\ ObjectsTell(runs[a.run].mode, a.at, since, a.objects)
           /\ GoneTells(runs[a.run].mode, a.at, since, a.gone)

\* The snapshot of a full success precedes those of the incremental ones.
BaselineIsFirst ==
    \A r \in Succeeded :
        runs[r].mode = "INCREMENTAL" =>
            \E f \in Succeeded :
                runs[f].mode = "FULL" /\ runs[f].started < runs[r].started

Telling == WatermarksAreSnapshots /\ ManifestsTell /\ BaselineIsFirst

Stray ==
    {a \in store :
        /\ ~ (runs[a.run].status = "SUCCEEDED" /\ runs[a.run].started = a.at)
        /\ \A w \in Workers : worker[w].stage = "complete" => Product(w) # a}

IInv ==
    /\ Shape
    /\ Telling
    /\ IsFiniteSet(Stray) /\ ArtefactsAccountedFor

-----------------------------------------------------------------------------
(* What the steps do.                                                      *)

\* A step of the gallery commits what it changes at the new time.
GalleryStep ==
    /\ now' = now + 1 /\ now' \in Times
    /\ image' \in [Keys -> [status: {"none", "orphaned", "kept"}, stamp: Times]]
    /\ tombstone' \in [Keys -> Times] /\ written' \in [Keys -> Times]
    /\ \A k \in Keys :
           \/ /\ image'[k] = image[k] /\ tombstone'[k] = tombstone[k]
              /\ written'[k] = written[k]
           \/ /\ written'[k] = now'
              /\ image'[k].stamp <= now' /\ tombstone'[k] <= now'
              /\ image'[k].status = "kept" => tombstone'[k] = 0
    /\ UNCHANGED <<lastSuccessfulAt, runs, store, worker, takeovers, faults>>

NewRun(mode) == [status |-> "QUEUED", mode |-> mode, started |-> 0]

\* The run r is replaced, by one of the same mode.
RunBecomes(r, status, started) ==
    /\ r \in DOMAIN runs
    /\ runs' = [runs EXCEPT ![r] = runs'[r]] /\ runs'[r] \in Run
    /\ runs'[r].status = status /\ runs'[r].started = started
    /\ runs'[r].mode = runs[r].mode

\* The worker goes on with its run.
GoesOn(w, stage) ==
    /\ worker' = [worker EXCEPT ![w] = worker'[w]] /\ worker'[w] \in Worker
    /\ worker'[w].stage = stage /\ worker'[w].run = worker[w].run
    /\ worker'[w].snapshot = worker[w].snapshot
    /\ worker'[w].since = worker[w].since

PickStep(w) ==
    /\ worker[w].stage = "idle"
    /\ now' = now + 1 /\ now' \in Times
    /\ worker' = [worker EXCEPT ![w] = worker'[w]] /\ worker'[w] \in Worker
    /\ worker'[w].stage = "claim" /\ worker'[w].run \in DOMAIN runs
    /\ worker'[w].snapshot = now' /\ worker'[w].since = lastSuccessfulAt
    /\ UNCHANGED <<Gallery, lastSuccessfulAt, runs, store, takeovers, faults>>

ClaimStep(w) ==
    /\ worker[w].stage = "claim" /\ GoesOn(w, "images")
    /\ runs[worker[w].run].status = "QUEUED"
    /\ RunBecomes(worker[w].run, "RUNNING", worker[w].snapshot)
    /\ UNCHANGED <<now, Gallery, lastSuccessfulAt, store, takeovers, faults>>

ReadStep(w) ==
    /\ worker[w].stage = "images" /\ ~ LacksBaseline(w)
    /\ GoesOn(w, "archive")
    /\ worker'[w].objects = {k \in Keys : image[k].status = "kept"
                                            /\ Listed(w, image[k].stamp)}
    /\ UNCHANGED <<now, Gallery, lastSuccessfulAt, runs, store, takeovers,
                   faults>>

ArchiveStep(w) ==
    /\ worker[w].stage = "archive" /\ GoesOn(w, "complete")
    /\ Owns(w)
    /\ worker'[w].objects = worker[w].objects
    /\ worker'[w].gone = Deleted(w)
    /\ store' = store \cup {Product(w)'}
    /\ UNCHANGED <<now, Gallery, lastSuccessfulAt, runs, takeovers, faults>>

CompleteStep(w) ==
    /\ worker[w].stage = "complete" /\ GoesOn(w, "advance")
    /\ Owns(w)
    /\ RunBecomes(worker[w].run, "SUCCEEDED", worker[w].snapshot)
    /\ UNCHANGED <<now, Gallery, lastSuccessfulAt, store, takeovers, faults>>

\* The worker leaves its run, whether it lost it, ended it or failed.
LeaveStep(w) ==
    /\ worker[w].stage # "idle"
    /\ worker' = [worker EXCEPT ![w] = Idle]
    /\ UNCHANGED <<now, Gallery, takeovers>>
    /\ \/ UNCHANGED lastSuccessfulAt
       \/ /\ worker[w].stage = "advance"
          /\ lastSuccessfulAt' \in {lastSuccessfulAt, worker[w].snapshot}
    /\ \/ UNCHANGED runs
       \/ Owns(w) /\ RunBecomes(worker[w].run, "FAILED", worker[w].snapshot)
    /\ \/ store' = store
       \/ worker[w].stage = "complete" /\ store' = store \ {Product(w)}
    /\ \/ UNCHANGED faults \/ Fault
    /\ \/ Fault
       \/ worker[w].stage = "complete" => store' = store \ {Product(w)}

-----------------------------------------------------------------------------
(* Runs, workers and the clock.                                            *)

LEMMA RunParts ==
    /\ \A x \in Run :
           /\ x.status \in {"QUEUED", "RUNNING", "SUCCEEDED", "FAILED"}
           /\ x.mode \in Modes /\ x.started \in Times
    /\ \A m \in Modes : /\ NewRun(m) \in Run /\ NewRun(m).status = "QUEUED"
                        /\ NewRun(m).started = 0 /\ NewRun(m).mode = m
BY ConstantsAssumption DEF Run, NewRun, Times

LEMMA WorkerParts ==
    /\ Idle \in Worker /\ Idle.stage = "idle"
    /\ \A x \in Worker :
           /\ x.stage \in Stages /\ x.run \in RunIds \cup {0}
           /\ x.snapshot \in Times /\ x.since \in Times
           /\ x.objects \subseteq Keys /\ x.gone \subseteq Keys
BY ConstantsAssumption DEF Worker, Idle, Stages, Times

LEMMA RunsAreRuns ==
    ASSUME TypeOK
    PROVE  /\ Len(runs) \in Nat /\ DOMAIN runs = 1 .. Len(runs)
           /\ DOMAIN runs \subseteq RunIds
           /\ \A r \in DOMAIN runs : runs[r] \in Run
BY ConstantsAssumption, ElementOfSeq, LenProperties DEF TypeOK, RunIds

\* The run a step replaces, and the others.
LEMMA RunBecomesParts ==
    ASSUME TypeOK, NEW r, NEW x, NEW t, RunBecomes(r, x, t)
    PROVE  /\ runs' \in Seq(Run) /\ Len(runs') = Len(runs)
           /\ DOMAIN runs' = DOMAIN runs
           /\ \A q \in DOMAIN runs : q # r => runs'[q] = runs[q]
<1>1. r \in 1 .. Len(runs) /\ runs \in Seq(Run)
  BY RunsAreRuns DEF RunBecomes, TypeOK
<1>2. runs'[r] \in Run /\ runs' = [runs EXCEPT ![r] = runs'[r]]
  BY DEF RunBecomes
<1> DEFINE e == runs'[r]
<1> HIDE DEF e
<1>3. e \in Run /\ runs' = [runs EXCEPT ![r] = e]
  BY <1>2 DEF e
<1>4. /\ runs' \in Seq(Run) /\ Len(runs') = Len(runs)
      /\ \A q \in 1 .. Len(runs) : runs'[q] = IF q = r THEN e ELSE runs[q]
  BY <1>1, <1>3, ExceptSeq
<1>5. DOMAIN runs' = 1 .. Len(runs') /\ DOMAIN runs = 1 .. Len(runs)
  BY <1>1, <1>4, LenProperties
<1> QED BY <1>4, <1>5

LEMMA SetStatus ==
    ASSUME TypeOK, NEW r \in DOMAIN runs,
           NEW x \in {"QUEUED", "RUNNING", "SUCCEEDED", "FAILED"},
           runs' = [runs EXCEPT ![r].status = x]
    PROVE  RunBecomes(r, x, runs[r].started)
<1>1. runs[r] \in Run /\ DOMAIN runs = 1 .. Len(runs)
  BY RunsAreRuns
<1>2. runs'[r] = [runs[r] EXCEPT !.status = x]
  OBVIOUS
<1>3. /\ runs'[r] \in Run /\ runs'[r].status = x
      /\ runs'[r].started = runs[r].started /\ runs'[r].mode = runs[r].mode
  BY <1>1, <1>2 DEF Run
<1> QED BY <1>3 DEF RunBecomes

LEMMA SetStatusAndStart ==
    ASSUME TypeOK, NEW r \in DOMAIN runs, NEW t \in Times,
           NEW x \in {"QUEUED", "RUNNING", "SUCCEEDED", "FAILED"},
           runs' = [runs EXCEPT ![r].status = x, ![r].started = t]
    PROVE  RunBecomes(r, x, t)
<1>1. runs[r] \in Run
  BY RunsAreRuns
<1>2. runs'[r] = [runs[r] EXCEPT !.status = x, !.started = t]
  OBVIOUS
<1>3. /\ runs'[r] \in Run /\ runs'[r].status = x
      /\ runs'[r].started = t /\ runs'[r].mode = runs[r].mode
  BY <1>1, <1>2 DEF Run
<1>4. runs' = [runs EXCEPT ![r] = runs'[r]]
  BY <1>2
<1> QED BY <1>3, <1>4 DEF RunBecomes

\* A worker that is moved to a stage.
LEMMA StepGoesOn ==
    ASSUME TypeOK, NEW w \in Workers, NEW x \in Stages, Step(w, x)
    PROVE  /\ GoesOn(w, x)
           /\ worker'[w].objects = worker[w].objects
           /\ worker'[w].gone = worker[w].gone
<1>1. worker \in [Workers -> Worker] /\ worker[w] \in Worker
  BY DEF TypeOK
<1>2. worker'[w] = [worker[w] EXCEPT !.stage = x]
  BY <1>1 DEF Step
<1>3. /\ worker'[w] \in Worker /\ worker'[w].stage = x
      /\ worker'[w].run = worker[w].run
      /\ worker'[w].snapshot = worker[w].snapshot
      /\ worker'[w].since = worker[w].since
      /\ worker'[w].objects = worker[w].objects
      /\ worker'[w].gone = worker[w].gone
  BY <1>1, <1>2 DEF Worker
<1>4. worker' = [worker EXCEPT ![w] = worker'[w]]
  BY <1>1, <1>2 DEF Step
<1> QED BY <1>3, <1>4 DEF GoesOn

LEMMA LaterOfTwo ==
    ASSUME NEW a \in Nat, NEW b \in Nat
    PROVE  Max({a, b}) \in {a, b}
<1>1. \E x \in {a, b} : \A y \in {a, b} : x >= y
  <2>1. CASE a >= b
    BY <2>1
  <2>2. CASE ~ (a >= b)
    BY <2>2
  <2> QED BY <2>1, <2>2
<1> QED BY <1>1 DEF Max

-----------------------------------------------------------------------------
(* Every step is one of these.                                             *)

\* What a commit does to the clock and to the keys it writes.
LEMMA Commits ==
    ASSUME TypeOK, NEW keys \in SUBSET Keys, Commit(keys)
    PROVE  /\ now' = now + 1 /\ now' \in Times
           /\ written' \in [Keys -> Times]
           /\ \A k \in keys : written'[k] = now'
           /\ \A k \in Keys \ keys : written'[k] = written[k]
           /\ \A t \in Stamps : t \in Times /\ t <= now'
           /\ UNCHANGED <<lastSuccessfulAt, runs, store, worker, takeovers,
                          faults>>
<1>1. now' = now + 1 /\ now' \in Times /\ now' \in Nat
  BY ConstantsAssumption DEF TypeOK, Commit, Tick, Times
<1>2. written' = [k \in Keys |-> IF k \in keys THEN now' ELSE written[k]]
  BY DEF Commit
<1>3. \A k \in Keys : written[k] \in Times
  BY DEF TypeOK
<1>4. /\ written' \in [Keys -> Times]
      /\ \A k \in keys : written'[k] = now'
      /\ \A k \in Keys \ keys : written'[k] = written[k]
  BY <1>1, <1>2, <1>3
<1>5. \A t \in Stamps : t \in Times /\ t <= now'
  BY <1>1, ConstantsAssumption DEF Stamps, Times
<1> QED BY <1>1, <1>4, <1>5 DEF Commit

LEMMA GallerySteps ==
    ASSUME TypeOK, NEW k \in Keys,
           \/ Upload(k) \/ Keep(k) \/ CleanUp(k)
           \/ \E l \in Keys : Convert(k, l)
    PROVE  GalleryStep
<1> DEFINE Image == [status: {"none", "orphaned", "kept"}, stamp: Times]
           none == [status |-> "none", stamp |-> 0]
           orphan(t) == [status |-> "orphaned", stamp |-> t]
           kept(t) == [status |-> "kept", stamp |-> t]
<1>1. /\ image \in [Keys -> Image] /\ tombstone \in [Keys -> Times]
      /\ 0 \in Times
  BY ConstantsAssumption DEF TypeOK, Times
<1>2. /\ none \in Image /\ none.status = "none" /\ none.stamp = 0
      /\ \A t \in Times :
             /\ orphan(t) \in Image /\ orphan(t).status = "orphaned"
             /\ orphan(t).stamp = t
             /\ kept(t) \in Image /\ kept(t).status = "kept"
             /\ kept(t).stamp = t
  BY <1>1
<1> HIDE DEF Image, none, orphan, kept
\* A step that writes the row of k alone.
<1>3. ASSUME Commit({k}),
             NEW row \in Image, NEW t \in Times,
             row.stamp <= now', t <= now', row.status = "kept" => t = 0,
             image' = [image EXCEPT ![k] = row],
             tombstone' = [tombstone EXCEPT ![k] = t]
      PROVE  GalleryStep
  <2>1. /\ image' \in [Keys -> Image] /\ tombstone' \in [Keys -> Times]
        /\ image'[k] = row /\ tombstone'[k] = t
        /\ \A m \in Keys : m # k =>
               image'[m] = image[m] /\ tombstone'[m] = tombstone[m]
    BY <1>1, <1>3
  <2>2. /\ now' = now + 1 /\ now' \in Times
        /\ written' \in [Keys -> Times] /\ written'[k] = now'
        /\ \A m \in Keys : m # k => written'[m] = written[m]
        /\ UNCHANGED <<lastSuccessfulAt, runs, store, worker, takeovers,
                       faults>>
    BY <1>3, Commits
  <2> QED BY <1>3, <2>1, <2>2 DEF GalleryStep, Image
<1>4. CASE Upload(k)
  <2>1. Commit({k})
    BY <1>4 DEF Upload
  <2>2. PICK updatedAt, deletedAt \in Stamps :
            /\ image' = [image EXCEPT ![k] = orphan(updatedAt)]
            /\ tombstone' = [tombstone EXCEPT ![k] = deletedAt]
    BY <1>4 DEF Upload, orphan
  <2>3. /\ updatedAt \in Times /\ updatedAt <= now'
        /\ deletedAt \in Times /\ deletedAt <= now'
    BY <2>1, Commits
  <2> QED BY <1>2, <1>3, <2>1, <2>2, <2>3
<1>5. CASE Keep(k)
  <2>1. Commit({k})
    BY <1>5 DEF Keep
  <2>2. PICK updatedAt \in Stamps :
            image' = [image EXCEPT ![k] = kept(updatedAt)]
    BY <1>5 DEF Keep, kept
  <2>3. /\ updatedAt \in Times /\ updatedAt <= now' /\ 0 <= now'
        /\ tombstone' = [tombstone EXCEPT ![k] = 0]
    BY <1>5, <2>1, Commits, ConstantsAssumption DEF Keep, Times
  <2> QED BY <1>1, <1>2, <1>3, <2>1, <2>2, <2>3
<1>6. CASE CleanUp(k)
  <2>1. Commit({k}) /\ image' = [image EXCEPT ![k] = none]
    BY <1>6 DEF CleanUp, none
  <2>2. PICK deletedAt \in Stamps :
            tombstone' = [tombstone EXCEPT ![k] = deletedAt]
    BY <1>6 DEF CleanUp
  <2>3. deletedAt \in Times /\ deletedAt <= now' /\ 0 <= now'
    BY <2>1, Commits, ConstantsAssumption DEF Times
  <2> QED BY <1>2, <1>3, <2>1, <2>2, <2>3
<1>7. ASSUME NEW l \in Keys, Convert(k, l) PROVE GalleryStep
  <2>1. /\ image[k].status = "kept" /\ image[l].status = "none"
        /\ tombstone[l] = 0 /\ Commit({k, l})
    BY <1>7 DEF Convert
  <2>2. PICK updatedAt, deletedAt \in Stamps :
            /\ image' = [image EXCEPT ![k] = none, ![l] = kept(updatedAt)]
            /\ tombstone' = [tombstone EXCEPT ![k] = deletedAt]
    BY <1>7 DEF Convert, none, kept
  <2>3. /\ updatedAt \in Times /\ updatedAt <= now'
        /\ deletedAt \in Times /\ deletedAt <= now' /\ 0 <= now'
        /\ now' = now + 1 /\ now' \in Times
        /\ written' \in [Keys -> Times]
        /\ written'[k] = now' /\ written'[l] = now'
        /\ \A m \in Keys : m # k /\ m # l => written'[m] = written[m]
        /\ UNCHANGED <<lastSuccessfulAt, runs, store, worker, takeovers,
                       faults>>
    BY <2>1, Commits, ConstantsAssumption DEF Times
  <2>4. k # l
    BY <2>1
  <2>5. /\ image' \in [Keys -> Image] /\ tombstone' \in [Keys -> Times]
        /\ image'[k] = none /\ image'[l] = kept(updatedAt)
        /\ tombstone'[k] = deletedAt /\ tombstone'[l] = 0
        /\ \A m \in Keys : m # k /\ m # l =>
               image'[m] = image[m] /\ tombstone'[m] = tombstone[m]
    BY <1>1, <1>2, <2>1, <2>2, <2>3, <2>4
  <2> QED BY <1>2, <2>3, <2>5 DEF GalleryStep, Image
<1> QED BY <1>4, <1>5, <1>6, <1>7

LEMMA PickSteps ==
    ASSUME TypeOK, NEW w \in Workers, Pick(w)
    PROVE  PickStep(w)
<1>1. PICK r \in DOMAIN runs :
          worker' = [worker EXCEPT ![w] =
              [Idle EXCEPT !.stage = "claim", !.run = r,
                           !.snapshot = now', !.since = lastSuccessfulAt]]
  BY DEF Pick
<1> DEFINE new == [Idle EXCEPT !.stage = "claim", !.run = r,
                               !.snapshot = now', !.since = lastSuccessfulAt]
<1>2. now' = now + 1 /\ now' \in Times /\ lastSuccessfulAt \in Times
  BY ConstantsAssumption DEF TypeOK, Pick, Tick, Times
<1>3. r \in RunIds
  BY RunsAreRuns
<1>4. /\ new \in Worker /\ new.stage = "claim" /\ new.run = r
      /\ new.snapshot = now' /\ new.since = lastSuccessfulAt
  BY <1>2, <1>3 DEF Idle, Worker, Stages
<1> HIDE DEF new
<1>5. /\ worker'[w] = new
      /\ worker' = [worker EXCEPT ![w] = worker'[w]]
  BY <1>1 DEF new, TypeOK
<1> QED BY <1>2, <1>4, <1>5 DEF Pick, PickStep

LEMMA OwnersAreWorkers ==
    ASSUME TypeOK, WorkersFit, NEW w \in Workers, worker[w].stage # "idle"
    PROVE  /\ worker[w] \in Worker /\ worker[w].run \in DOMAIN runs
           /\ worker[w].run \in RunIds
           /\ runs[worker[w].run] \in Run
           /\ worker[w].snapshot \in Times /\ worker[w].since \in Times
           /\ worker[w].objects \subseteq Keys /\ worker[w].gone \subseteq Keys
<1>1. worker[w] \in Worker /\ worker[w].run \in DOMAIN runs
  BY DEF TypeOK, WorkersFit
<1> QED BY <1>1, WorkerParts, RunsAreRuns

LEMMA ReadSteps ==
    ASSUME TypeOK, NEW w \in Workers, ReadImages(w)
    PROVE  ReadStep(w)
<1> DEFINE objects == {k \in Keys : image[k].status = "kept"
                                      /\ Listed(w, image[k].stamp)}
<1>1. worker' = [worker EXCEPT ![w].stage = "archive", ![w].objects = objects]
  BY DEF ReadImages
<1>2. objects \subseteq Keys
  OBVIOUS
<1> HIDE DEF objects
<1>3. worker \in [Workers -> Worker] /\ worker[w] \in Worker
  BY DEF TypeOK
<1>4. worker'[w] = [worker[w] EXCEPT !.stage = "archive", !.objects = objects]
  BY <1>1, <1>3
<1>5. /\ worker'[w] \in Worker /\ worker'[w].stage = "archive"
      /\ worker'[w].run = worker[w].run
      /\ worker'[w].snapshot = worker[w].snapshot
      /\ worker'[w].since = worker[w].since
      /\ worker'[w].objects = objects
  BY <1>2, <1>3, <1>4 DEF Worker, Stages
<1>6. worker' = [worker EXCEPT ![w] = worker'[w]]
  BY <1>1, <1>3, <1>4
<1> QED BY <1>5, <1>6 DEF ReadImages, ReadStep, GoesOn, objects

LEMMA ArchiveSteps ==
    ASSUME TypeOK, WorkersFit, NEW w \in Workers, Archive(w)
    PROVE  ArchiveStep(w) \/ LeaveStep(w)
<1> DEFINE gone == Deleted(w)
<1>1. gone \subseteq Keys
  BY DEF Deleted
<1>2. worker \in [Workers -> Worker] /\ worker[w] \in Worker
  BY DEF TypeOK
<1>3. CASE Owns(w)
  <2>1. [Product(w) EXCEPT !.gone = gone] =
            [run |-> worker[w].run, at |-> worker[w].snapshot,
             objects |-> worker[w].objects, gone |-> gone]
    BY DEF Product
  <2>2. /\ store' = store \cup {[Product(w) EXCEPT !.gone = gone]}
        /\ worker' = [worker EXCEPT ![w].stage = "complete",
              ![w].gone = [Product(w) EXCEPT !.gone = gone].gone]
    BY <1>3 DEF Archive
  <2>3. [Product(w) EXCEPT !.gone = gone].gone = gone
    BY <2>1
  <2> HIDE DEF gone
  <2>4. worker'[w] = [worker[w] EXCEPT !.stage = "complete", !.gone = gone]
    BY <1>2, <2>2, <2>3
  <2>5. /\ worker'[w] \in Worker /\ worker'[w].stage = "complete"
        /\ worker'[w].run = worker[w].run
        /\ worker'[w].snapshot = worker[w].snapshot
        /\ worker'[w].since = worker[w].since
        /\ worker'[w].objects = worker[w].objects
        /\ worker'[w].gone = gone
    BY <1>1, <1>2, <2>4 DEF Worker, Stages
  <2>6. worker' = [worker EXCEPT ![w] = worker'[w]]
    BY <1>2, <2>2, <2>3, <2>4
  <2>7. Product(w)' = [run |-> worker[w].run, at |-> worker[w].snapshot,
                       objects |-> worker[w].objects, gone |-> gone]
    BY <2>5 DEF Product
  <2>8. store' = store \cup {Product(w)'}
    BY <2>1, <2>2, <2>7
  <2> QED BY <1>3, <2>5, <2>6, <2>8 DEF Archive, ArchiveStep, GoesOn, gone
<1>4. CASE ~ Owns(w)
  BY <1>4 DEF Archive, LeaveStep, Leave
<1> QED BY <1>3, <1>4

LEMMA ClaimSteps ==
    ASSUME TypeOK, WorkersFit, NEW w \in Workers, Claim(w)
    PROVE  ClaimStep(w) \/ LeaveStep(w)
<1> DEFINE r == worker[w].run
<1>1. worker[w].stage = "claim" /\ r \in DOMAIN runs
        /\ worker[w].snapshot \in Times
  BY OwnersAreWorkers DEF Claim
<1>2. CASE runs[r].status = "QUEUED"
  <2>1. /\ runs' = [runs EXCEPT ![r].status = "RUNNING",
                                ![r].started = worker[w].snapshot]
        /\ Step(w, "images")
    BY <1>2 DEF Claim
  <2>2. RunBecomes(r, "RUNNING", worker[w].snapshot)
    BY <1>1, <2>1, SetStatusAndStart
  <2>3. GoesOn(w, "images")
    BY <2>1, StepGoesOn DEF Stages
  <2> QED BY <1>1, <1>2, <2>2, <2>3 DEF Claim, ClaimStep
<1>3. CASE runs[r].status # "QUEUED"
  BY <1>1, <1>3 DEF Claim, LeaveStep, Leave
<1> QED BY <1>2, <1>3

LEMMA CompleteSteps ==
    ASSUME TypeOK, WorkersFit, NEW w \in Workers, Complete(w)
    PROVE  CompleteStep(w) \/ LeaveStep(w)
<1> DEFINE r == worker[w].run
<1>1. worker[w].stage = "complete" /\ r \in DOMAIN runs
  BY OwnersAreWorkers DEF Complete
<1>2. CASE Owns(w)
  <2>1. /\ runs' = [runs EXCEPT ![r].status = "SUCCEEDED"]
        /\ Step(w, "advance")
    BY <1>2 DEF Complete
  <2>2. RunBecomes(r, "SUCCEEDED", worker[w].snapshot)
    BY <1>1, <1>2, <2>1, SetStatus DEF Owns
  <2>3. GoesOn(w, "advance")
    BY <2>1, StepGoesOn DEF Stages
  <2> QED BY <1>1, <1>2, <2>2, <2>3 DEF Complete, CompleteStep
<1>3. CASE ~ Owns(w)
  BY <1>1, <1>3 DEF Complete, LeaveStep, Leave, Discard
<1> QED BY <1>2, <1>3

LEMMA LeaveSteps ==
    ASSUME TypeOK, WorkersFit, NEW w \in Workers,
           Advance(w) \/ Refuse(w) \/ Error(w) \/ Crash(w)
    PROVE  LeaveStep(w)
<1>1. ASSUME Advance(w) PROVE LeaveStep(w)
  <2>1. worker[w].stage = "advance"
    BY <1>1 DEF Advance
  <2>2. lastSuccessfulAt \in Nat /\ worker[w].snapshot \in Nat
    BY <2>1, OwnersAreWorkers, ConstantsAssumption DEF TypeOK, Times
  <2>3. lastSuccessfulAt' \in {lastSuccessfulAt, worker[w].snapshot}
    BY <1>1, <2>2, LaterOfTwo DEF Advance
  <2> QED BY <1>1, <2>1, <2>3 DEF Advance, LeaveStep, Leave, Gallery
<1>2. ASSUME Crash(w) PROVE LeaveStep(w)
  BY <1>2 DEF Crash, LeaveStep, Leave
<1>3. ASSUME Throw(w), worker[w].stage # "idle",
             UNCHANGED faults \/ Fault
      PROVE  LeaveStep(w)
  <2>1. worker[w].run \in DOMAIN runs
    BY <1>3, OwnersAreWorkers
  <2>2. \/ UNCHANGED runs
        \/ Owns(w) /\ RunBecomes(worker[w].run, "FAILED", worker[w].snapshot)
    <3>1. CASE Owns(w)
      <4>1. runs' = [runs EXCEPT ![worker[w].run].status = "FAILED"]
        BY <1>3, <3>1 DEF Throw
      <4> QED BY <2>1, <3>1, <4>1, SetStatus DEF Owns
    <3>2. CASE ~ Owns(w)
      BY <1>3, <3>2 DEF Throw
    <3> QED BY <3>1, <3>2
  <2> QED BY <1>3, <2>2 DEF Throw, LeaveStep, Leave, Discard
<1>4. Refuse(w) => worker[w].stage # "idle"
  BY DEF Refuse, Refused
<1> QED BY <1>1, <1>2, <1>3, <1>4 DEF Refuse, Error

CreateStep ==
    /\ Len(runs) < MaxRuns
    /\ \E mode \in Modes : runs' = Append(runs, NewRun(mode))
    /\ UNCHANGED <<now, Gallery, lastSuccessfulAt, store, worker, takeovers,
                   faults>>

RecoverStep(r) ==
    /\ runs[r].status = "RUNNING" /\ RunBecomes(r, "QUEUED", 0)
    /\ takeovers' \in 0 .. MaxTakeovers
    /\ UNCHANGED <<now, Gallery, lastSuccessfulAt, store, worker, faults>>

LEMMA Steps ==
    ASSUME TypeOK, WorkersFit, Next
    PROVE  \/ GalleryStep
           \/ CreateStep
           \/ \E r \in DOMAIN runs : RecoverStep(r)
           \/ \E w \in Workers :
                 \/ PickStep(w) \/ ClaimStep(w) \/ ReadStep(w)
                 \/ ArchiveStep(w) \/ CompleteStep(w) \/ LeaveStep(w)
<1>1. ASSUME NEW mode \in Modes, CreateRun(mode) PROVE CreateStep
  BY <1>1 DEF CreateRun, CreateStep, NewRun, Gallery
<1>2. ASSUME NEW r \in DOMAIN runs, RecoverStale(r) PROVE RecoverStep(r)
  <2>1. /\ runs' = [runs EXCEPT ![r].status = "QUEUED", ![r].started = 0]
        /\ 0 \in Times
    BY <1>2, ConstantsAssumption DEF RecoverStale, Times
  <2>2. RunBecomes(r, "QUEUED", 0)
    BY <2>1, SetStatusAndStart
  <2>3. takeovers' \in 0 .. MaxTakeovers
    BY <1>2, ConstantsAssumption DEF RecoverStale, TypeOK
  <2> QED BY <1>2, <2>2, <2>3 DEF RecoverStale, RecoverStep, Gallery
<1> QED BY <1>1, <1>2, GallerySteps, PickSteps, ClaimSteps, ReadSteps,
           ArchiveSteps, CompleteSteps, LeaveSteps DEF Next, Execute

\* The step only changes this worker.
OnlyWorker(w) == worker' = [worker EXCEPT ![w] = worker'[w]]

LEMMA WorkerMoves ==
    ASSUME TypeOK, NEW w \in Workers,
           \/ PickStep(w) \/ ClaimStep(w) \/ ReadStep(w) \/ ArchiveStep(w)
           \/ CompleteStep(w) \/ LeaveStep(w)
    PROVE  /\ OnlyWorker(w) /\ worker'[w] \in Worker
           /\ worker' \in [Workers -> Worker]
           /\ \A v \in Workers : v # w => worker'[v] = worker[v]
           /\ LeaveStep(w) => worker'[w] = Idle /\ worker'[w].stage = "idle"
<1>1. worker \in [Workers -> Worker]
  BY DEF TypeOK
<1>2. CASE LeaveStep(w)
  <2>1. worker' = [worker EXCEPT ![w] = Idle]
    BY <1>2 DEF LeaveStep
  <2> QED BY <1>1, <2>1, WorkerParts DEF OnlyWorker
<1>3. CASE ~ LeaveStep(w)
  <2>1. OnlyWorker(w) /\ worker'[w] \in Worker
    BY <1>3 DEF PickStep, ClaimStep, ReadStep, ArchiveStep, CompleteStep,
                GoesOn, OnlyWorker
  <2> QED BY <1>1, <1>3, <2>1 DEF OnlyWorker
<1> QED BY <1>2, <1>3

\* Runs are created and change their status; they keep their mode, and the
\* successful ones stay as they are.
RunsGrow ==
    /\ runs' \in Seq(Run) /\ Len(runs') <= MaxRuns
    /\ DOMAIN runs \subseteq DOMAIN runs'
    /\ \A r \in DOMAIN runs :
           /\ runs'[r] \in Run /\ runs'[r].mode = runs[r].mode
           /\ runs[r].status = "SUCCEEDED" => runs'[r] = runs[r]
    /\ \A r \in DOMAIN runs' : r \notin DOMAIN runs =>
           runs'[r].status = "QUEUED" /\ runs'[r].started = 0

LEMMA CreateParts ==
    ASSUME TypeOK, CreateStep
    PROVE  /\ RunsGrow
           /\ \A r \in DOMAIN runs : runs'[r] = runs[r]
<1>1. PICK mode \in Modes : runs' = Append(runs, NewRun(mode))
  BY DEF CreateStep
<1>2. /\ runs \in Seq(Run) /\ Len(runs) \in Nat
      /\ DOMAIN runs = 1 .. Len(runs)
      /\ NewRun(mode) \in Run /\ NewRun(mode).status = "QUEUED"
      /\ NewRun(mode).started = 0
  BY RunsAreRuns, RunParts DEF TypeOK
<1> DEFINE new == NewRun(mode)
<1> HIDE DEF new
<1>3. /\ runs' = Append(runs, new) /\ new \in Run /\ new.status = "QUEUED"
      /\ new.started = 0
  BY <1>1, <1>2 DEF new
<1>4. /\ runs' \in Seq(Run) /\ Len(runs') = Len(runs) + 1
      /\ \A r \in 1 .. Len(runs) : runs'[r] = runs[r]
      /\ runs'[Len(runs) + 1] = new
  BY <1>2, <1>3, AppendProperties
<1>5. DOMAIN runs' = 1 .. Len(runs')
  BY <1>4, LenProperties
<1>6. Len(runs') <= MaxRuns
  BY <1>2, <1>4, ConstantsAssumption DEF CreateStep
<1> QED BY <1>2, <1>3, <1>4, <1>5, <1>6, RunsAreRuns DEF RunsGrow

LEMMA RunsDoGrow ==
    ASSUME TypeOK, WorkersFit, Next
    PROVE  RunsGrow
<1>1. ASSUME NEW r, NEW x, NEW t, RunBecomes(r, x, t),
             runs[r].status # "SUCCEEDED"
      PROVE  RunsGrow
  BY <1>1, RunBecomesParts, RunsAreRuns DEF RunsGrow, TypeOK, RunBecomes
<1>2. CASE UNCHANGED runs
  BY <1>2, RunsAreRuns DEF RunsGrow, TypeOK
<1>3. CASE CreateStep
  BY <1>3, CreateParts
<1>4. \A r \in DOMAIN runs : RecoverStep(r) => RunsGrow
  BY <1>1 DEF RecoverStep
<1>5. ASSUME NEW w \in Workers,
             ClaimStep(w) \/ CompleteStep(w) \/ LeaveStep(w)
      PROVE  RunsGrow
  BY <1>1, <1>2, <1>5 DEF ClaimStep, CompleteStep, LeaveStep, Owns
<1> QED BY <1>2, <1>3, <1>4, <1>5, Steps
        DEF GalleryStep, PickStep, ReadStep, ArchiveStep

-----------------------------------------------------------------------------
(* The types.                                                              *)

LEMMA ArtefactParts ==
    ASSUME TypeOK, WorkersFit, NEW w \in Workers, worker[w].stage # "idle"
    PROVE  /\ Product(w) \in Artefact
           /\ Product(w).run = worker[w].run
           /\ Product(w).at = worker[w].snapshot
           /\ Product(w).objects = worker[w].objects
           /\ Product(w).gone = worker[w].gone
BY OwnersAreWorkers DEF Product, Artefact

\* The artefact a worker is about to write.
LEMMA NewArtefact ==
    ASSUME TypeOK, WorkersFit, NEW w \in Workers, ArchiveStep(w)
    PROVE  /\ Product(w)' \in Artefact
           /\ (Product(w)').run = worker[w].run
           /\ (Product(w)').at = worker[w].snapshot
           /\ (Product(w)').objects = worker[w].objects
           /\ (Product(w)').gone = Deleted(w)
<1>1. worker[w].stage # "idle"
  BY DEF ArchiveStep
<1>2. Deleted(w) \subseteq Keys
  BY DEF Deleted
<1>3. Product(w)' = [run |-> worker[w].run, at |-> worker[w].snapshot,
                     objects |-> worker[w].objects, gone |-> Deleted(w)]
  BY DEF Product, ArchiveStep, GoesOn
<1> QED BY <1>1, <1>2, <1>3, OwnersAreWorkers DEF Artefact

LEMMA TypesKept ==
    ASSUME TypeOK, WorkersFit, Next
    PROVE  TypeOK'
<1>1. runs' \in Seq(Run) /\ Len(runs') <= MaxRuns
  BY RunsDoGrow DEF RunsGrow
<1>2. worker' \in [Workers -> Worker]
  BY Steps, WorkerMoves
  DEF GalleryStep, CreateStep, RecoverStep, TypeOK
<1>3. /\ now' \in Times
      /\ image' \in [Keys -> [status: {"none", "orphaned", "kept"},
                              stamp: Times]]
      /\ tombstone' \in [Keys -> Times] /\ written' \in [Keys -> Times]
  BY Steps
  DEF GalleryStep, CreateStep, RecoverStep, PickStep, ClaimStep, ReadStep,
      ArchiveStep, CompleteStep, LeaveStep, Gallery, TypeOK
<1>4. store' \subseteq Artefact
  <2>1. \A w \in Workers : ArchiveStep(w) => store' \subseteq Artefact
    BY NewArtefact DEF ArchiveStep, TypeOK
  <2> QED BY <2>1, Steps
          DEF GalleryStep, CreateStep, RecoverStep, PickStep,
              ClaimStep, ReadStep, CompleteStep, LeaveStep, TypeOK
<1>5. lastSuccessfulAt' \in Times
  <2>1. ASSUME NEW w \in Workers, LeaveStep(w) PROVE lastSuccessfulAt' \in Times
    BY <2>1, OwnersAreWorkers DEF LeaveStep, TypeOK
  <2> QED BY <2>1, Steps
          DEF GalleryStep, CreateStep, RecoverStep, PickStep,
              ClaimStep, ReadStep, ArchiveStep, CompleteStep, TypeOK
<1>6. takeovers' \in 0 .. MaxTakeovers /\ faults' \in 0 .. MaxFaults
  BY Steps, ConstantsAssumption
  DEF GalleryStep, CreateStep, RecoverStep, PickStep, ClaimStep,
      ReadStep, ArchiveStep, CompleteStep, LeaveStep, Fault, TypeOK
<1> QED BY <1>1, <1>2, <1>3, <1>4, <1>5, <1>6 DEF TypeOK

-----------------------------------------------------------------------------
(* The shape is kept.                                                      *)

LEMMA ClockMoves ==
    ASSUME TypeOK, WorkersFit, Next
    PROVE  now' \in Nat /\ now \in Nat /\ now <= now'
BY Steps, ConstantsAssumption
DEF GalleryStep, CreateStep, RecoverStep, PickStep, ClaimStep, ReadStep,
    ArchiveStep, CompleteStep, LeaveStep, TypeOK, Times

LEMMA GalleryKept ==
    ASSUME Shape, Next
    PROVE  GalleryFits'
<1>1. /\ TypeOK /\ WorkersFit /\ GalleryFits
      /\ now \in Nat /\ now' \in Nat /\ now <= now'
  BY ClockMoves DEF Shape
<1>2. ASSUME NEW k \in Keys
      PROVE  /\ image[k].stamp <= written[k] /\ tombstone[k] <= written[k]
             /\ written[k] <= now
             /\ image[k].status = "kept" => tombstone[k] = 0
             /\ written[k] \in Nat
  BY <1>1, ConstantsAssumption DEF GalleryFits, TypeOK, Times
<1>3. CASE GalleryStep
  <2>1. ASSUME NEW k \in Keys
        PROVE  /\ image'[k].stamp <= written'[k]
               /\ tombstone'[k] <= written'[k] /\ written'[k] <= now'
               /\ image'[k].status = "kept" => tombstone'[k] = 0
    BY <1>1, <1>2, <1>3 DEF GalleryStep
  <2> QED BY <2>1 DEF GalleryFits
<1>4. CASE UNCHANGED Gallery
  <2>1. ASSUME NEW k \in Keys
        PROVE  /\ image'[k].stamp <= written'[k]
               /\ tombstone'[k] <= written'[k] /\ written'[k] <= now'
               /\ image'[k].status = "kept" => tombstone'[k] = 0
    BY <1>1, <1>2, <1>4 DEF Gallery
  <2> QED BY <2>1 DEF GalleryFits
<1> QED BY <1>1, <1>3, <1>4, Steps
        DEF CreateStep, RecoverStep, PickStep, ClaimStep, ReadStep,
            ArchiveStep, CompleteStep, LeaveStep

LEMMA WorkersKept ==
    ASSUME Shape, lastSuccessfulAt <= now, Next
    PROVE  WorkersFit'
<1>1. /\ TypeOK /\ WorkersFit
      /\ now \in Nat /\ now' \in Nat /\ now <= now'
      /\ DOMAIN runs \subseteq DOMAIN runs'
  BY ClockMoves, RunsDoGrow DEF Shape, RunsGrow
<1>2. ASSUME NEW v \in Workers, worker[v].stage # "idle"
      PROVE  /\ worker[v].run \in DOMAIN runs'
             /\ worker[v].snapshot \in 1 .. now'
             /\ worker[v].since < worker[v].snapshot
             /\ worker[v].snapshot <= now
  BY <1>1, <1>2 DEF WorkersFit
<1>3. CASE UNCHANGED worker
  BY <1>1, <1>2, <1>3 DEF WorkersFit
<1>4. ASSUME NEW w \in Workers, OnlyWorker(w),
             \A v \in Workers : v # w => worker'[v] = worker[v],
             worker'[w].stage = "idle"
      PROVE  WorkersFit'
  BY <1>1, <1>2, <1>4 DEF WorkersFit
<1>5. ASSUME NEW w \in Workers, worker[w].stage # "idle",
             \A v \in Workers : v # w => worker'[v] = worker[v],
             worker'[w].run = worker[w].run,
             worker'[w].snapshot = worker[w].snapshot,
             worker'[w].since = worker[w].since
      PROVE  WorkersFit'
  BY <1>1, <1>2, <1>5 DEF WorkersFit
<1>6. ASSUME NEW w \in Workers, PickStep(w) PROVE WorkersFit'
  <2>1. /\ worker'[w].run \in DOMAIN runs' /\ worker'[w].snapshot = now'
        /\ now' = now + 1 /\ worker'[w].since <= now
    BY <1>1, <1>6 DEF PickStep
  <2>2. lastSuccessfulAt \in Nat /\ worker'[w].since = lastSuccessfulAt
    BY <1>6, ConstantsAssumption DEF PickStep, TypeOK, Shape, Times
  <2>3. \A v \in Workers : v # w => worker'[v] = worker[v]
    BY <1>1, <1>6, WorkerMoves
  <2>4. \A v \in Workers : v # w /\ worker[v].stage # "idle" =>
            worker[v].snapshot # now'
    BY <1>1, <1>2, <2>1
  <2> QED BY <1>1, <1>2, <2>1, <2>2, <2>3, <2>4 DEF WorkersFit
<1>7. ASSUME NEW w \in Workers,
             \/ ClaimStep(w) \/ ReadStep(w) \/ ArchiveStep(w)
             \/ CompleteStep(w)
      PROVE  WorkersFit'
  <2>1. /\ worker[w].stage # "idle"
        /\ worker'[w].run = worker[w].run
        /\ worker'[w].snapshot = worker[w].snapshot
        /\ worker'[w].since = worker[w].since
    BY <1>7 DEF ClaimStep, ReadStep, ArchiveStep, CompleteStep, GoesOn
  <2> QED BY <1>1, <1>5, <1>7, <2>1, WorkerMoves
<1>8. \A w \in Workers : LeaveStep(w) => WorkersFit'
  BY <1>1, <1>4, WorkerMoves
<1> QED BY <1>1, <1>3, <1>6, <1>7, <1>8, Steps
        DEF GalleryStep, CreateStep, RecoverStep

LEMMA RunsKept ==
    ASSUME Shape, Next
    PROVE  RunsFit'
<1>1. /\ TypeOK /\ WorkersFit /\ RunsFit
      /\ now \in Nat /\ now' \in Nat /\ now <= now'
  BY ClockMoves DEF Shape
<1>2. ASSUME NEW r \in DOMAIN runs
      PROVE  /\ runs[r].started \in Nat /\ runs[r].started <= now
             /\ runs[r].started <= now'
  BY <1>1, RunsAreRuns, RunParts, ConstantsAssumption DEF RunsFit, Times
<1>3. ASSUME NEW w \in Workers, worker[w].stage # "idle"
      PROVE  /\ worker[w].run \in DOMAIN runs
             /\ worker[w].snapshot \in Nat /\ worker[w].snapshot # 0
             /\ worker[w].snapshot <= now'
  BY <1>1, <1>3 DEF WorkersFit
<1>4. CASE UNCHANGED <<runs, worker>>
  BY <1>1, <1>2, <1>4 DEF RunsFit
<1>5. CASE CreateStep
  <2>1. /\ UNCHANGED worker
        /\ \A r \in DOMAIN runs : r \in DOMAIN runs' /\ runs'[r] = runs[r]
        /\ \A r \in DOMAIN runs' : r \notin DOMAIN runs =>
               runs'[r].status = "QUEUED" /\ runs'[r].started = 0
    BY <1>1, <1>5, CreateParts DEF CreateStep, RunsGrow
  <2> QED BY <1>1, <1>2, <1>3, <2>1 DEF RunsFit
<1>6. ASSUME NEW r \in DOMAIN runs, RecoverStep(r) PROVE RunsFit'
  <2>1. /\ UNCHANGED worker /\ DOMAIN runs' = DOMAIN runs
        /\ \A q \in DOMAIN runs : q # r => runs'[q] = runs[q]
        /\ runs'[r].status = "QUEUED" /\ runs'[r].started = 0
        /\ runs[r].status = "RUNNING"
    BY <1>1, <1>6, RunBecomesParts DEF RecoverStep, RunBecomes
  <2> QED BY <1>1, <1>2, <1>3, <2>1 DEF RunsFit
<1>7. ASSUME NEW w \in Workers, PickStep(w) PROVE RunsFit'
  <2>1. /\ UNCHANGED runs /\ now' = now + 1
        /\ worker'[w].snapshot = now' /\ worker'[w].stage = "claim"
        /\ \A v \in Workers : v # w => worker'[v] = worker[v]
    BY <1>1, <1>7, WorkerMoves DEF PickStep
  <2>2. \A r \in DOMAIN runs : runs[r].started # now'
    BY <1>1, <1>2, <2>1
  <2> QED BY <1>1, <1>2, <2>1, <2>2 DEF RunsFit
<1>8. ASSUME NEW w \in Workers, ClaimStep(w) PROVE RunsFit'
  <2> DEFINE r == worker[w].run
  <2>1. /\ r \in DOMAIN runs /\ DOMAIN runs' = DOMAIN runs
        /\ \A q \in DOMAIN runs : q # r => runs'[q] = runs[q]
        /\ runs'[r].status = "RUNNING"
        /\ runs'[r].started = worker[w].snapshot
    BY <1>1, <1>8, RunBecomesParts DEF ClaimStep, RunBecomes
  <2>2. /\ worker[w].stage = "claim" /\ worker'[w].stage = "images"
        /\ worker'[w].run = r /\ worker'[w].snapshot = worker[w].snapshot
        /\ \A v \in Workers : v # w => worker'[v] = worker[v]
    BY <1>1, <1>8, WorkerMoves DEF ClaimStep, GoesOn
  <2>3. \A q \in DOMAIN runs : runs[q].started # worker[w].snapshot
    BY <1>1, <2>2 DEF RunsFit
  <2>4. \A v \in Workers : v # w /\ worker[v].stage # "idle" =>
            worker[v].snapshot # worker[w].snapshot
    BY <1>1, <2>2 DEF WorkersFit
  <2>5. \A v \in Workers : worker[v].stage = "advance" => worker[v].run # r
    <3>1. ASSUME NEW v \in Workers, worker[v].stage = "advance"
          PROVE  runs[worker[v].run].status = "SUCCEEDED"
      BY <1>1, <1>3, <3>1 DEF RunsFit
    <3> QED BY <1>8, <3>1 DEF ClaimStep
  <2> QED BY <1>1, <1>2, <1>3, <2>1, <2>2, <2>3, <2>4, <2>5 DEF RunsFit
<1>9. ASSUME NEW w \in Workers, ReadStep(w) \/ ArchiveStep(w) PROVE RunsFit'
  <2>1. /\ UNCHANGED runs
        /\ worker[w].stage \in {"images", "archive"}
        /\ worker'[w].stage \in {"archive", "complete"}
        /\ worker'[w].run = worker[w].run
        /\ worker'[w].snapshot = worker[w].snapshot
        /\ \A v \in Workers : v # w => worker'[v] = worker[v]
    BY <1>1, <1>9, WorkerMoves DEF ReadStep, ArchiveStep, GoesOn
  <2> QED BY <1>1, <1>2, <2>1 DEF RunsFit
<1>10. ASSUME NEW w \in Workers, CompleteStep(w) PROVE RunsFit'
  <2> DEFINE r == worker[w].run
  <2>1. /\ r \in DOMAIN runs /\ DOMAIN runs' = DOMAIN runs
        /\ \A q \in DOMAIN runs : q # r => runs'[q] = runs[q]
        /\ runs'[r].status = "SUCCEEDED"
        /\ runs'[r].started = worker[w].snapshot
        /\ runs[r].started = worker[w].snapshot
        /\ runs[r].status = "RUNNING"
    BY <1>1, <1>10, RunBecomesParts DEF CompleteStep, RunBecomes, Owns
  <2>2. /\ worker[w].stage = "complete" /\ worker'[w].stage = "advance"
        /\ worker'[w].run = r /\ worker'[w].snapshot = worker[w].snapshot
        /\ \A v \in Workers : v # w => worker'[v] = worker[v]
    BY <1>1, <1>10, WorkerMoves DEF CompleteStep, GoesOn
  <2>3. \A v \in Workers : v # w /\ worker[v].stage # "idle" =>
            worker[v].snapshot # worker[w].snapshot
    BY <1>1, <2>2 DEF WorkersFit
  <2> QED BY <1>1, <1>2, <1>3, <2>1, <2>2, <2>3 DEF RunsFit
<1>11. ASSUME NEW w \in Workers, LeaveStep(w) PROVE RunsFit'
  <2>1. /\ worker'[w].stage = "idle" /\ worker[w].stage # "idle"
        /\ \A v \in Workers : v # w => worker'[v] = worker[v]
    BY <1>1, <1>11, WorkerMoves DEF LeaveStep
  <2>2. CASE UNCHANGED runs
    BY <1>1, <1>2, <2>1, <2>2 DEF RunsFit
  <2>3. CASE Owns(w) /\ RunBecomes(worker[w].run, "FAILED", worker[w].snapshot)
    <3> DEFINE r == worker[w].run
    <3>1. /\ r \in DOMAIN runs /\ DOMAIN runs' = DOMAIN runs
          /\ \A q \in DOMAIN runs : q # r => runs'[q] = runs[q]
          /\ runs'[r].status = "FAILED"
          /\ runs'[r].started = worker[w].snapshot
          /\ runs[r].started = worker[w].snapshot
          /\ runs[r].status = "RUNNING"
      BY <1>1, <2>3, RunBecomesParts DEF RunBecomes, Owns
    <3>2. \A v \in Workers : v # w /\ worker[v].stage # "idle" =>
              worker[v].snapshot # worker[w].snapshot
      BY <1>1, <2>1 DEF WorkersFit
    <3> QED BY <1>1, <1>2, <1>3, <2>1, <3>1, <3>2 DEF RunsFit
  <2> QED BY <1>11, <2>2, <2>3 DEF LeaveStep
<1> QED BY <1>1, <1>4, <1>5, <1>6, <1>7, <1>8, <1>9, <1>10, <1>11, Steps
        DEF GalleryStep
\* A run succeeds by the worker that completes it.
LEMMA NewSuccess ==
    ASSUME TypeOK, WorkersFit, Next
    PROVE  /\ Succeeded \subseteq Succeeded'
           /\ \A r \in Succeeded : runs'[r] = runs[r]
           /\ \A r \in Succeeded' :
                  \/ r \in Succeeded
                  \/ \E w \in Workers :
                         /\ CompleteStep(w) /\ r = worker[w].run
                         /\ runs'[r].started = worker[w].snapshot
<1>1. RunsGrow
  BY RunsDoGrow
<1>2. ASSUME NEW r \in Succeeded', r \notin Succeeded
      PROVE  \E w \in Workers :
                 /\ CompleteStep(w) /\ r = worker[w].run
                 /\ runs'[r].started = worker[w].snapshot
  <2>1. r \in DOMAIN runs' /\ runs'[r].status = "SUCCEEDED"
    BY DEF Succeeded
  <2>2. r \in DOMAIN runs /\ runs[r].status # "SUCCEEDED"
    BY <1>1, <1>2, <2>1 DEF RunsGrow, Succeeded
  <2>3. runs'[r] # runs[r]
    BY <2>1, <2>2
  <2>4. ASSUME NEW q, NEW x, NEW t, RunBecomes(q, x, t), x # "SUCCEEDED"
        PROVE  FALSE
    BY <2>1, <2>2, <2>3, <2>4, RunBecomesParts DEF RunBecomes
  <2>5. ~ UNCHANGED runs /\ ~ CreateStep
    BY <2>2, <2>3, CreateParts
  <2>6. \A q \in DOMAIN runs : ~ RecoverStep(q)
    BY <2>4 DEF RecoverStep
  <2>7. \A w \in Workers : ~ ClaimStep(w) /\ ~ LeaveStep(w)
    BY <2>4, <2>5 DEF ClaimStep, LeaveStep
  <2>8. PICK w \in Workers : CompleteStep(w)
    BY <2>5, <2>6, <2>7, Steps
    DEF GalleryStep, PickStep, ReadStep, ArchiveStep
  <2>9. r = worker[w].run
    BY <2>2, <2>3, <2>8, RunBecomesParts DEF CompleteStep
  <2> QED BY <2>8, <2>9 DEF CompleteStep, RunBecomes
<1>3. Succeeded \subseteq Succeeded' /\ \A r \in Succeeded : runs'[r] = runs[r]
  BY <1>1 DEF RunsGrow, Succeeded
<1> QED BY <1>2, <1>3

\* Artefacts come by archiving, and go with the worker that wrote them.
LEMMA StoreMoves ==
    ASSUME TypeOK, WorkersFit, Next
    PROVE  \/ store' = store
           \/ \E w \in Workers :
                  ArchiveStep(w) /\ store' = store \cup {Product(w)'}
           \/ \E w \in Workers :
                  /\ LeaveStep(w) /\ worker[w].stage = "complete"
                  /\ store' = store \ {Product(w)}
BY Steps
DEF GalleryStep, CreateStep, RecoverStep, PickStep, ClaimStep,
    ReadStep, ArchiveStep, CompleteStep, LeaveStep

\* The product of a worker that archived it stays the same.
LEMMA ProductStays ==
    ASSUME TypeOK, WorkersFit, Next, NEW v \in Workers,
           worker'[v].stage = "complete"
    PROVE  \/ ArchiveStep(v)
           \/ worker[v].stage = "complete" /\ worker'[v] = worker[v]
<1>1. ASSUME UNCHANGED worker PROVE worker[v].stage = "complete"
  BY <1>1
<1>2. ASSUME NEW w \in Workers,
             \/ PickStep(w) \/ ClaimStep(w) \/ ReadStep(w)
             \/ CompleteStep(w) \/ LeaveStep(w)
      PROVE  worker[v].stage = "complete" /\ worker'[v] = worker[v]
  <2>1. worker'[w].stage # "complete"
    BY <1>2, WorkerMoves
    DEF PickStep, ClaimStep, ReadStep, CompleteStep, GoesOn
  <2> QED BY <1>2, <2>1, WorkerMoves
<1>3. ASSUME NEW w \in Workers, ArchiveStep(w), w # v
      PROVE  worker[v].stage = "complete" /\ worker'[v] = worker[v]
  BY <1>3, WorkerMoves
<1> QED BY <1>1, <1>2, <1>3, Steps
        DEF GalleryStep, CreateStep, RecoverStep

LEMMA ArtefactsFit ==
    ASSUME Shape, Next
    PROVE  /\ \A a \in store' : a.run \in DOMAIN runs' /\ a.at \in 1 .. now'
           /\ \A a, b \in store' : a.at = b.at => a = b
<1>1. /\ TypeOK /\ WorkersFit /\ StoreFits
      /\ now \in Nat /\ now' \in Nat /\ now <= now'
      /\ DOMAIN runs \subseteq DOMAIN runs'
  BY ClockMoves, RunsDoGrow DEF Shape, RunsGrow
<1>2. /\ \A a \in store : a.run \in DOMAIN runs' /\ a.at \in 1 .. now'
      /\ \A a, b \in store : a.at = b.at => a = b
  BY <1>1 DEF StoreFits
<1>3. CASE store' \subseteq store
  BY <1>2, <1>3
<1>4. ASSUME NEW w \in Workers, ArchiveStep(w),
             store' = store \cup {Product(w)'}
      PROVE  /\ \A a \in store' : a.run \in DOMAIN runs' /\ a.at \in 1 .. now'
             /\ \A a, b \in store' : a.at = b.at => a = b
  <2> DEFINE new == Product(w)'
  <2>1. new.run = worker[w].run /\ new.at = worker[w].snapshot
    BY <1>1, <1>4, NewArtefact
  <2>2. worker[w].stage = "archive"
    BY <1>4 DEF ArchiveStep
  <2>3. new.run \in DOMAIN runs' /\ new.at \in 1 .. now'
    BY <1>1, <2>1, <2>2 DEF WorkersFit
  <2>4. \A a \in store : a.at # new.at
    BY <1>1, <2>1, <2>2 DEF StoreFits
  <2> HIDE DEF new
  <2>5. store' = store \cup {new}
    BY <1>4 DEF new
  <2> QED BY <1>2, <2>3, <2>4, <2>5
<1> QED BY <1>1, <1>3, <1>4, StoreMoves

\* A worker that has not archived has no artefact yet.
LEMMA NoneBefore ==
    ASSUME Shape, Next, NEW v \in Workers,
           worker'[v].stage \in {"claim", "images", "archive"}
    PROVE  \A a \in store' : a.at # worker'[v].snapshot
<1>1. TypeOK /\ WorkersFit /\ StoreFits /\ now \in Nat
  BY ClockMoves DEF Shape
<1>2. ASSUME NEW w \in Workers, ArchiveStep(w)
      PROVE  \A a \in store' : a.at # worker'[v].snapshot
  <2>1. /\ store' = store \cup {Product(w)'} /\ worker[w].stage = "archive"
        /\ worker'[w].stage = "complete"
        /\ (Product(w)').at = worker[w].snapshot
    BY <1>1, <1>2, NewArtefact DEF ArchiveStep, GoesOn
  <2>2. v # w /\ worker'[v] = worker[v]
    BY <1>1, <1>2, <2>1, WorkerMoves
  <2>3. /\ \A a \in store : a.at # worker[v].snapshot
        /\ worker[w].snapshot # worker[v].snapshot
    BY <1>1, <2>1, <2>2 DEF StoreFits, WorkersFit
  <2> QED BY <2>1, <2>2, <2>3
<1>3. ASSUME NEW w \in Workers, PickStep(w)
      PROVE  \A a \in store' : a.at # worker'[v].snapshot
  <2>1. store' = store /\ worker'[w].snapshot = now + 1
    BY <1>3 DEF PickStep
  <2>2. CASE v = w
    BY <1>1, <2>1, <2>2 DEF StoreFits
  <2>3. CASE v # w
    <3>1. worker'[v] = worker[v]
      BY <1>1, <1>3, <2>3, WorkerMoves
    <3> QED BY <1>1, <2>1, <3>1 DEF StoreFits
  <2> QED BY <2>2, <2>3
<1>4. ASSUME store' \subseteq store,
             worker[v].stage \in {"claim", "images", "archive"},
             worker'[v].snapshot = worker[v].snapshot
      PROVE  \A a \in store' : a.at # worker'[v].snapshot
  BY <1>1, <1>4 DEF StoreFits
<1>5. CASE UNCHANGED worker /\ UNCHANGED store
  BY <1>4, <1>5
<1>6. ASSUME NEW w \in Workers,
             \/ ClaimStep(w) \/ ReadStep(w) \/ CompleteStep(w) \/ LeaveStep(w)
      PROVE  \A a \in store' : a.at # worker'[v].snapshot
  <2>1. store' \subseteq store
    BY <1>6 DEF ClaimStep, ReadStep, CompleteStep, LeaveStep
  <2>2. CASE v # w
    BY <1>1, <1>4, <1>6, <2>1, <2>2, WorkerMoves
  <2>3. CASE v = w
    <3>1. ~ LeaveStep(w)
      BY <1>1, <1>6, <2>3, WorkerMoves
    <3> QED BY <1>4, <1>6, <2>1, <2>3, <3>1
            DEF ClaimStep, ReadStep, CompleteStep, GoesOn
  <2> QED BY <2>2, <2>3
<1> QED BY <1>1, <1>2, <1>3, <1>5, <1>6, Steps
        DEF GalleryStep, CreateStep, RecoverStep

\* The artefact of a worker that archived is there.
LEMMA ProductsStored ==
    ASSUME Shape, Next, NEW v \in Workers, worker'[v].stage = "complete"
    PROVE  Product(v)' \in store'
<1>1. TypeOK /\ WorkersFit /\ StoreFits
  BY DEF Shape
<1>2. CASE ArchiveStep(v)
  BY <1>2 DEF ArchiveStep
<1>3. CASE worker[v].stage = "complete" /\ worker'[v] = worker[v]
  <2>1. Product(v)' = Product(v) /\ Product(v) \in store
    BY <1>1, <1>3 DEF Product, StoreFits
  <2>2. ASSUME NEW w \in Workers, LeaveStep(w), worker[w].stage = "complete"
        PROVE  Product(w) # Product(v)
    <3>1. v # w
      BY <1>1, <1>3, <2>2, WorkerMoves
    <3>2. worker[w].snapshot # worker[v].snapshot
      BY <1>1, <1>3, <2>2, <3>1 DEF WorkersFit
    <3> QED BY <1>1, <1>3, <2>2, <3>2, ArtefactParts
  <2> QED BY <1>1, <2>1, <2>2, StoreMoves
<1> QED BY <1>1, <1>2, <1>3, ProductStays

LEMMA SuccessesStored ==
    ASSUME Shape, Next, NEW r \in Succeeded'
    PROVE  \E a \in store' : a.run = r /\ a.at = runs'[r].started
<1>1. TypeOK /\ WorkersFit /\ RunsFit /\ StoreFits
  BY DEF Shape
<1>2. CASE r \in Succeeded
  <2>1. /\ runs'[r] = runs[r] /\ r \in DOMAIN runs
        /\ runs[r].status = "SUCCEEDED"
    BY <1>1, <1>2, NewSuccess DEF Succeeded
  <2>2. PICK a \in store : a.run = r /\ a.at = runs[r].started
    BY <1>1, <1>2 DEF StoreFits
  <2>3. ASSUME NEW w \in Workers, worker[w].stage = "complete"
        PROVE  a # Product(w)
    <3>1. worker[w].snapshot # runs[r].started
      BY <1>1, <2>1, <2>3 DEF RunsFit
    <3> QED BY <1>1, <2>2, <2>3, <3>1, ArtefactParts
  <2> QED BY <1>1, <2>1, <2>2, <2>3, StoreMoves
<1>3. ASSUME NEW w \in Workers, CompleteStep(w), r = worker[w].run,
             runs'[r].started = worker[w].snapshot
      PROVE  \E a \in store' : a.run = r /\ a.at = runs'[r].started
  <2>1. worker[w].stage = "complete" /\ store' = store
    BY <1>3 DEF CompleteStep
  <2>2. Product(w) \in store
    BY <1>1, <2>1 DEF StoreFits
  <2> QED BY <1>1, <1>3, <2>1, <2>2, ArtefactParts
<1> QED BY <1>1, <1>2, <1>3, NewSuccess

LEMMA ShapeKept ==
    ASSUME Shape, lastSuccessfulAt <= now, Next
    PROVE  Shape'
<1>1. TypeOK' /\ GalleryFits' /\ WorkersFit' /\ RunsFit'
  BY TypesKept, GalleryKept, WorkersKept, RunsKept DEF Shape
<1>2. StoreFits'
  BY ArtefactsFit, NoneBefore, ProductsStored, SuccessesStored DEF StoreFits
<1> QED BY <1>1, <1>2 DEF Shape
-----------------------------------------------------------------------------
(* Watermarks and manifests.                                               *)

LEMMA WatermarksStay ==
    ASSUME TypeOK, WorkersFit, Next
    PROVE  \A t : IsWatermark(t) =>
                      \E s \in Succeeded' : runs'[s].started = t
BY NewSuccess DEF IsWatermark

LEMMA WatermarksKept ==
    ASSUME Shape, WatermarksAreSnapshots, Next
    PROVE  WatermarksAreSnapshots'
<1>1. /\ TypeOK /\ WorkersFit /\ RunsFit
      /\ now \in Nat /\ now' \in Nat /\ now <= now'
      /\ lastSuccessfulAt \in Nat
  BY ClockMoves, ConstantsAssumption DEF Shape, TypeOK, Times
<1>2. /\ lastSuccessfulAt <= now
      /\ lastSuccessfulAt # 0 => IsWatermark(lastSuccessfulAt)
      /\ \A w \in Workers :
             worker[w].stage # "idle" /\ worker[w].since # 0 =>
                 IsWatermark(worker[w].since)
  BY DEF WatermarksAreSnapshots
<1>3. /\ lastSuccessfulAt' <= now'
      /\ lastSuccessfulAt' # 0 =>
             \E s \in Succeeded' : runs'[s].started = lastSuccessfulAt'
  <2>1. CASE UNCHANGED lastSuccessfulAt
    BY <1>1, <1>2, <2>1, WatermarksStay
  <2>2. ASSUME NEW w \in Workers, LeaveStep(w),
               worker[w].stage = "advance",
               lastSuccessfulAt' = worker[w].snapshot
        PROVE  /\ lastSuccessfulAt' <= now'
               /\ \E s \in Succeeded' : runs'[s].started = lastSuccessfulAt'
    <3> DEFINE r == worker[w].run
    <3>1. r \in DOMAIN runs /\ worker[w].snapshot \in 1 .. now
      BY <1>1, <2>2 DEF WorkersFit
    <3>2. runs[r].started = worker[w].snapshot
      BY <1>1, <2>2 DEF RunsFit
    <3>3. runs[r].status = "SUCCEEDED"
      BY <1>1, <2>2, <3>1, <3>2 DEF RunsFit
    <3>4. IsWatermark(worker[w].snapshot)
      BY <3>1, <3>2, <3>3 DEF IsWatermark, Succeeded
    <3> QED BY <1>1, <2>2, <3>1, <3>4, WatermarksStay
  <2> QED BY <1>1, <2>1, <2>2, Steps
          DEF GalleryStep, CreateStep, RecoverStep, PickStep,
              ClaimStep, ReadStep, ArchiveStep, CompleteStep, LeaveStep
<1>4. ASSUME NEW v \in Workers, worker'[v].stage # "idle",
             worker'[v].since # 0
      PROVE  \E s \in Succeeded' : runs'[s].started = worker'[v].since
  <2>1. CASE worker[v].stage # "idle" /\ worker'[v].since = worker[v].since
    BY <1>1, <1>2, <1>4, <2>1, WatermarksStay
  <2>2. ASSUME NEW w \in Workers, PickStep(w)
        PROVE  \E s \in Succeeded' : runs'[s].started = worker'[v].since
    <3>1. CASE v = w
      <4>1. worker'[v].since = lastSuccessfulAt
        BY <2>2, <3>1 DEF PickStep
      <4> QED BY <1>1, <1>2, <1>4, <4>1, WatermarksStay
    <3>2. CASE v # w
      <4>1. worker'[v] = worker[v]
        BY <1>1, <2>2, <3>2, WorkerMoves
      <4> QED BY <1>4, <2>1, <4>1
    <3> QED BY <3>1, <3>2
  <2>3. ASSUME NEW w \in Workers,
               \/ ClaimStep(w) \/ ReadStep(w) \/ ArchiveStep(w)
               \/ CompleteStep(w) \/ LeaveStep(w)
        PROVE  \E s \in Succeeded' : runs'[s].started = worker'[v].since
    <3>1. CASE v # w
      <4>1. worker'[v] = worker[v]
        BY <1>1, <2>3, <3>1, WorkerMoves
      <4> QED BY <1>4, <2>1, <4>1
    <3>2. CASE v = w
      <4>1. ~ LeaveStep(w)
        BY <1>1, <1>4, <3>2, WorkerMoves
      <4>2. worker[v].stage # "idle" /\ worker'[v].since = worker[v].since
        BY <2>3, <3>2, <4>1
        DEF ClaimStep, ReadStep, ArchiveStep, CompleteStep, GoesOn
      <4> QED BY <2>1, <4>2
    <3> QED BY <3>1, <3>2
  <2>4. CASE UNCHANGED worker
    BY <1>4, <2>1, <2>4
  <2> QED BY <1>1, <2>2, <2>3, <2>4, Steps
          DEF GalleryStep, CreateStep, RecoverStep
<1> QED BY <1>3, <1>4 DEF WatermarksAreSnapshots, IsWatermark

\* What is written since a snapshot commits later.
LEMMA ChangesAreLater ==
    ASSUME Shape, Next, NEW k \in Keys, NEW at \in Nat, at <= now,
           written'[k] <= at
    PROVE  /\ image'[k] = image[k] /\ tombstone'[k] = tombstone[k]
           /\ written'[k] = written[k]
<1>1. TypeOK /\ WorkersFit /\ now \in Nat /\ now' \in Nat
  BY ClockMoves DEF Shape
<1>2. CASE GalleryStep
  <2>1. written'[k] # now'
    BY <1>1, <1>2 DEF GalleryStep
  <2> QED BY <1>2, <2>1 DEF GalleryStep
<1>3. CASE UNCHANGED Gallery
  BY <1>3 DEF Gallery
<1> QED BY <1>1, <1>2, <1>3, Steps
        DEF CreateStep, RecoverStep, PickStep, ClaimStep, ReadStep,
            ArchiveStep, CompleteStep, LeaveStep

\* So a manifest that is right stays so.
LEMMA StillTell ==
    ASSUME Shape, Next, NEW mode, NEW at \in Nat, at <= now,
           NEW since, NEW objects, NEW gone
    PROVE  /\ ObjectsTell(mode, at, since, objects) =>
                  ObjectsTell(mode, at, since, objects)'
           /\ GoneTells(mode, at, since, gone) =>
                  GoneTells(mode, at, since, gone)'
<1>1. TypeOK /\ WorkersFit
  BY DEF Shape
<1>2. ASSUME ObjectsTell(mode, at, since, objects)
      PROVE  ObjectsTell(mode, at, since, objects)'
  <2>1. mode = "INCREMENTAL" =>
            since < at /\ \E s \in Succeeded' : runs'[s].started = since
    BY <1>1, <1>2, WatermarksStay DEF ObjectsTell
  <2>2. ASSUME NEW k \in Keys
        PROVE  /\ /\ image'[k].status = "kept"
                  /\ Covers(mode, at, since, image'[k].stamp, written'[k])
                  => k \in objects
               /\ tombstone'[k] # 0 /\ written'[k] <= at => k \notin objects
    BY <1>2, ChangesAreLater DEF ObjectsTell, Covers
  <2> QED BY <2>1, <2>2 DEF ObjectsTell, IsWatermark, Covers
<1>3. ASSUME GoneTells(mode, at, since, gone)
      PROVE  GoneTells(mode, at, since, gone)'
  <2>1. ASSUME NEW k \in Keys
        PROVE  /\ /\ tombstone'[k] # 0
                  /\ Covers(mode, at, since, tombstone'[k], written'[k])
                  => k \in gone
               /\ image'[k].status = "kept" /\ written'[k] <= at
                      => k \notin gone
    BY <1>3, ChangesAreLater DEF GoneTells, Covers
  <2> QED BY <2>1 DEF GoneTells, Covers
<1> QED BY <1>2, <1>3

LEMMA StampsAreEarlier ==
    ASSUME Shape, NEW k \in Keys, NEW at \in Nat, written[k] <= at
    PROVE  image[k].stamp <= at /\ tombstone[k] <= at
<1>1. /\ image[k].stamp \in Nat /\ tombstone[k] \in Nat
      /\ written[k] \in Nat
  BY ConstantsAssumption DEF Shape, TypeOK, Times
<1> QED BY <1>1 DEF Shape, GalleryFits

\* The objects of a manifest are right when they are read,
LEMMA ObjectsRead ==
    ASSUME Shape, Telling, NEW w \in Workers, ReadStep(w)
    PROVE  ObjectsTell(runs[worker[w].run].mode, worker[w].snapshot,
                       worker[w].since, worker'[w].objects)
<1>1. /\ worker[w].stage = "images" /\ worker[w].since < worker[w].snapshot
      /\ worker'[w].objects = {k \in Keys : image[k].status = "kept"
                                              /\ Listed(w, image[k].stamp)}
  BY DEF Shape, WorkersFit, ReadStep
<1>2. /\ worker[w].since # 0 => IsWatermark(worker[w].since)
      /\ Incremental(w) => worker[w].since # 0
  BY <1>1 DEF Telling, WatermarksAreSnapshots, ReadStep, LacksBaseline
<1>3. worker[w].snapshot \in Nat
  BY <1>1 DEF Shape, WorkersFit
<1>4. \A k \in Keys :
          /\ image[k].status = "kept" => tombstone[k] = 0
          /\ written[k] <= worker[w].snapshot =>
                 image[k].stamp <= worker[w].snapshot
  BY <1>3, StampsAreEarlier DEF Shape, GalleryFits
<1> QED BY <1>1, <1>2, <1>4 DEF ObjectsTell, Covers, Listed, Incremental

\* and so are its deletions.
LEMMA DeletionsRead ==
    ASSUME Shape, NEW w \in Workers, worker[w].stage # "idle"
    PROVE  GoneTells(runs[worker[w].run].mode, worker[w].snapshot,
                     worker[w].since, Deleted(w))
<1>1. worker[w].snapshot \in Nat
  BY DEF Shape, WorkersFit
<1>2. \A k \in Keys :
          /\ image[k].status = "kept" => tombstone[k] = 0
          /\ written[k] <= worker[w].snapshot =>
                 tombstone[k] <= worker[w].snapshot
  BY <1>1, StampsAreEarlier DEF Shape, GalleryFits
<1> QED BY <1>2 DEF GoneTells, Covers, Listed, Incremental, Deleted

LEMMA ArtefactsTell ==
    ASSUME Shape, Telling, Next, NEW a \in store'
    PROVE  \E since \in Times :
               /\ ObjectsTell(runs[a.run].mode, a.at, since, a.objects)
               /\ GoneTells(runs[a.run].mode, a.at, since, a.gone)
<1>1. TypeOK /\ WorkersFit /\ ManifestsTell
  BY DEF Shape, Telling
<1>2. CASE a \in store
  BY <1>1, <1>2 DEF ManifestsTell
<1>3. ASSUME NEW w \in Workers, ArchiveStep(w), a = Product(w)'
      PROVE  \E since \in Times :
                 /\ ObjectsTell(runs[a.run].mode, a.at, since, a.objects)
                 /\ GoneTells(runs[a.run].mode, a.at, since, a.gone)
  <2>1. /\ a.run = worker[w].run /\ a.at = worker[w].snapshot
        /\ a.objects = worker[w].objects /\ a.gone = Deleted(w)
        /\ worker[w].since \in Times
        /\ worker[w].stage # "idle"
    BY <1>1, <1>3, NewArtefact, OwnersAreWorkers DEF ArchiveStep
  <2>2. ObjectsTell(runs[worker[w].run].mode, worker[w].snapshot,
                    worker[w].since, worker[w].objects)
    BY <1>1, <1>3 DEF ManifestsTell, ArchiveStep
  <2> QED BY <2>1, <2>2, DeletionsRead
<1> QED BY <1>1, <1>2, <1>3, StoreMoves

LEMMA StoredStillTell ==
    ASSUME Shape, Telling, Next
    PROVE  \A a \in store' : \E since \in Times :
               /\ ObjectsTell(runs[a.run].mode, a.at, since, a.objects)'
               /\ GoneTells(runs[a.run].mode, a.at, since, a.gone)'
<1>1. /\ TypeOK /\ WorkersFit /\ RunsGrow /\ now \in Nat
  BY RunsDoGrow, ClockMoves DEF Shape
<1> SUFFICES ASSUME NEW a \in store'
             PROVE  \E since \in Times :
                 /\ ObjectsTell(runs[a.run].mode, a.at, since, a.objects)'
                 /\ GoneTells(runs[a.run].mode, a.at, since, a.gone)'
  OBVIOUS
<1>2. a.run \in DOMAIN runs /\ a.at \in Nat /\ a.at <= now
  <2>1. CASE a \in store
    BY <1>1, <2>1 DEF Shape, StoreFits
  <2>2. ASSUME NEW w \in Workers, ArchiveStep(w), a = Product(w)'
        PROVE  a.run \in DOMAIN runs /\ a.at \in Nat /\ a.at <= now
    BY <1>1, <2>2, NewArtefact DEF ArchiveStep, WorkersFit
  <2> QED BY <1>1, <2>1, <2>2, StoreMoves
<1>3. PICK mode : mode = runs[a.run].mode
  OBVIOUS
<1>4. mode = runs'[a.run].mode
  BY <1>1, <1>2, <1>3 DEF RunsGrow
<1>5. PICK since \in Times : /\ ObjectsTell(mode, a.at, since, a.objects)
                             /\ GoneTells(mode, a.at, since, a.gone)
  BY <1>3, ArtefactsTell
<1>6. /\ ObjectsTell(mode, a.at, since, a.objects)'
      /\ GoneTells(mode, a.at, since, a.gone)'
  BY <1>2, <1>5, StillTell
<1>7. ObjectsTell(runs[a.run].mode, a.at, since, a.objects)'
  BY <1>4, <1>6 DEF ObjectsTell, IsWatermark, Covers
<1>8. GoneTells(runs[a.run].mode, a.at, since, a.gone)'
  BY <1>4, <1>6 DEF GoneTells, Covers
<1> QED BY <1>7, <1>8

LEMMA ReadStillTell ==
    ASSUME Shape, Telling, Next, NEW v \in Workers,
           worker'[v].stage = "archive"
    PROVE  ObjectsTell(runs[worker[v].run].mode, worker[v].snapshot,
                       worker[v].since, worker[v].objects)'
<1>1. /\ TypeOK /\ WorkersFit /\ RunsGrow /\ now \in Nat /\ ManifestsTell
  BY RunsDoGrow, ClockMoves DEF Shape, Telling
<1>2. PICK x : x = worker'[v]
  OBVIOUS
<1>3. /\ worker[v].stage \in {"images", "archive"}
      /\ x.run = worker[v].run /\ x.snapshot = worker[v].snapshot
      /\ x.since = worker[v].since
      /\ ReadStep(v) \/ x = worker[v]
  <2>1. ASSUME NEW w \in Workers, ReadStep(w)
        PROVE  /\ worker[v].stage \in {"images", "archive"}
               /\ x.run = worker[v].run /\ x.snapshot = worker[v].snapshot
               /\ x.since = worker[v].since
               /\ ReadStep(v) \/ x = worker[v]
    BY <1>1, <1>2, <2>1, WorkerMoves DEF ReadStep, GoesOn
  <2>2. ASSUME NEW w \in Workers,
               \/ PickStep(w) \/ ClaimStep(w) \/ ArchiveStep(w)
               \/ CompleteStep(w) \/ LeaveStep(w)
        PROVE  x = worker[v]
    <3>1. worker'[w].stage # "archive"
      BY <1>1, <2>2, WorkerMoves
      DEF PickStep, ClaimStep, ArchiveStep, CompleteStep, GoesOn
    <3> QED BY <1>1, <1>2, <2>2, <3>1, WorkerMoves
  <2> QED BY <1>1, <1>2, <2>1, <2>2, Steps
          DEF GalleryStep, CreateStep, RecoverStep
<1>4. /\ worker[v].run \in DOMAIN runs /\ x.snapshot \in Nat
      /\ x.snapshot <= now
  BY <1>1, <1>3 DEF WorkersFit
<1>5. PICK mode : mode = runs[worker[v].run].mode
  OBVIOUS
<1>6. mode = runs'[x.run].mode
  BY <1>1, <1>3, <1>4, <1>5 DEF RunsGrow
<1>7. ObjectsTell(mode, x.snapshot, x.since, x.objects)
  <2>1. CASE ReadStep(v)
    BY <1>2, <1>3, <1>5, <2>1, ObjectsRead
  <2>2. CASE x = worker[v]
    BY <1>1, <1>2, <1>5, <2>2 DEF ManifestsTell
  <2> QED BY <1>3, <2>1, <2>2
<1>8. ObjectsTell(mode, x.snapshot, x.since, x.objects)'
  BY <1>4, <1>7, StillTell
<1> QED BY <1>2, <1>6, <1>8 DEF ObjectsTell, IsWatermark, Covers

LEMMA BaselinesKept ==
    ASSUME Shape, Telling, Next
    PROVE  BaselineIsFirst'
<1>1. /\ TypeOK /\ WorkersFit /\ StoreFits /\ ManifestsTell
      /\ BaselineIsFirst
  BY DEF Shape, Telling
<1> SUFFICES ASSUME NEW r \in Succeeded', runs'[r].mode = "INCREMENTAL"
             PROVE  \E f \in Succeeded' :
                        /\ runs'[f].mode = "FULL"
                        /\ runs'[f].started < runs'[r].started
  BY DEF BaselineIsFirst
<1>2. /\ Succeeded \subseteq Succeeded'
      /\ \A f \in Succeeded : runs'[f] = runs[f]
  BY <1>1, NewSuccess
<1>3. CASE r \in Succeeded
  BY <1>1, <1>2, <1>3 DEF BaselineIsFirst
<1>4. ASSUME NEW w \in Workers, CompleteStep(w), r = worker[w].run,
             runs'[r].started = worker[w].snapshot
      PROVE  \E f \in Succeeded' :
                 /\ runs'[f].mode = "FULL"
                 /\ runs'[f].started < runs'[r].started
  <2>1. /\ worker[w].stage = "complete" /\ runs[r].mode = "INCREMENTAL"
        /\ Product(w) \in store /\ worker[w].snapshot \in Nat
    BY <1>1, <1>4 DEF CompleteStep, RunBecomes, StoreFits, WorkersFit
  <2>2. PICK since \in Times :
            /\ since < worker[w].snapshot
            /\ \E s \in Succeeded : runs[s].started = since
    BY <1>1, <1>4, <2>1, ArtefactParts
    DEF ManifestsTell, ObjectsTell, IsWatermark
  <2>3. PICK s \in Succeeded : runs[s].started = since
    BY <2>2
  <2>4. runs[s] \in Run /\ since \in Nat
    BY <1>1, RunsAreRuns, ConstantsAssumption DEF Succeeded, Times
  <2>5. CASE runs[s].mode = "FULL"
    BY <1>2, <1>4, <2>2, <2>3, <2>5
  <2>6. CASE runs[s].mode = "INCREMENTAL"
    <3>1. PICK f \in Succeeded : /\ runs[f].mode = "FULL"
                                 /\ runs[f].started < runs[s].started
      BY <1>1, <2>6 DEF BaselineIsFirst
    <3>2. runs[f].started \in Nat
      BY <1>1, RunsAreRuns, RunParts, ConstantsAssumption
      DEF Succeeded, Times
    <3> QED BY <1>2, <1>4, <2>1, <2>2, <2>3, <2>4, <3>1, <3>2
  <2> QED BY <2>4, <2>5, <2>6, RunParts DEF Modes
<1> QED BY <1>1, <1>3, <1>4, NewSuccess

LEMMA TellingKept ==
    ASSUME Shape, Telling, Next
    PROVE  Telling'
<1>1. WatermarksAreSnapshots'
  BY WatermarksKept DEF Telling
<1>2. ManifestsTell'
  BY StoredStillTell, ReadStillTell DEF ManifestsTell
<1> QED BY <1>1, <1>2, BaselinesKept DEF Telling
-----------------------------------------------------------------------------
(* The artefacts that are accounted for.                                   *)

\* A worker that leaves an artefact behind does so by a fault.
LEMMA NewStray ==
    ASSUME Shape, Next, NEW a \in Stray', a \notin Stray
    PROVE  Fault /\ \E w \in Workers : LeaveStep(w) /\ a = Product(w)
<1>1. TypeOK /\ WorkersFit /\ StoreFits /\ RunsGrow
  BY RunsDoGrow DEF Shape
<1>2. /\ a \in store'
      /\ ~ (runs'[a.run].status = "SUCCEEDED" /\ runs'[a.run].started = a.at)
      /\ \A w \in Workers : worker'[w].stage = "complete" => Product(w)' # a
  BY DEF Stray
<1>3. a \in store
  BY <1>1, <1>2, StoreMoves DEF ArchiveStep, GoesOn
<1>4. ~ (runs[a.run].status = "SUCCEEDED" /\ runs[a.run].started = a.at)
  BY <1>1, <1>2, <1>3 DEF RunsGrow, StoreFits
<1>5. PICK w \in Workers : worker[w].stage = "complete" /\ Product(w) = a
  BY <1>3, <1>4 DEF Stray
<1>6. a.run = worker[w].run /\ a.at = worker[w].snapshot
  BY <1>1, <1>5, ArtefactParts
<1>7. worker'[w] # worker[w]
  <2>1. worker'[w] = worker[w] => Product(w)' = Product(w)
    BY DEF Product
  <2> QED BY <1>2, <1>5, <2>1
<1>8. ~ CompleteStep(w)
  BY <1>2, <1>6 DEF CompleteStep, RunBecomes
<1>9. LeaveStep(w)
  <2>1. ASSUME NEW v \in Workers, v # w
        PROVE  /\ ~ PickStep(v) /\ ~ ClaimStep(v) /\ ~ ReadStep(v)
               /\ ~ ArchiveStep(v) /\ ~ CompleteStep(v) /\ ~ LeaveStep(v)
    BY <1>1, <1>7, <2>1, WorkerMoves
  <2>2. /\ ~ PickStep(w) /\ ~ ClaimStep(w) /\ ~ ReadStep(w)
        /\ ~ ArchiveStep(w)
    BY <1>5 DEF PickStep, ClaimStep, ReadStep, ArchiveStep
  <2>3. ~ UNCHANGED worker
    BY <1>7
  <2> QED BY <1>1, <1>8, <2>1, <2>2, <2>3, Steps
          DEF GalleryStep, CreateStep, RecoverStep
<1>10. Fault
  BY <1>2, <1>5, <1>9 DEF LeaveStep
<1> QED BY <1>5, <1>9, <1>10

LEMMA StrayKept ==
    ASSUME Shape, IsFiniteSet(Stray), ArtefactsAccountedFor, Next
    PROVE  IsFiniteSet(Stray') /\ ArtefactsAccountedFor'
<1>1. TypeOK /\ WorkersFit
  BY DEF Shape
<1>2. /\ faults \in Nat /\ Cardinality(Stray) <= faults
      /\ Cardinality(Stray) \in Nat
  BY <1>1, FS_CardinalityType, ConstantsAssumption
  DEF ArtefactsAccountedFor, Stray, TypeOK
<1>3. faults' = faults \/ faults' = faults + 1
  BY <1>1, Steps
  DEF GalleryStep, CreateStep, RecoverStep, PickStep, ClaimStep,
      ReadStep, ArchiveStep, CompleteStep, LeaveStep, Fault
<1>4. CASE Stray' \subseteq Stray
  <2>1. IsFiniteSet(Stray') /\ Cardinality(Stray') <= Cardinality(Stray)
    BY <1>4, FS_Subset
  <2>2. Cardinality(Stray') \in Nat
    BY <2>1, FS_CardinalityType
  <2>3. Cardinality(Stray') <= faults'
    BY <1>2, <1>3, <2>1, <2>2
  <2> QED BY <2>1, <2>3 DEF ArtefactsAccountedFor, Stray
<1>5. CASE ~ (Stray' \subseteq Stray)
  <2>1. PICK a \in Stray' : a \notin Stray
    BY <1>5
  <2>2. PICK w \in Workers : LeaveStep(w) /\ a = Product(w)
    BY <2>1, NewStray
  <2>3. Fault
    BY <2>1, NewStray
  <2>4. Stray' \subseteq Stray \cup {a}
    <3>1. ASSUME NEW b \in Stray', b \notin Stray PROVE b = a
      <4>1. PICK v \in Workers : LeaveStep(v) /\ b = Product(v)
        BY <3>1, NewStray
      <4>2. v = w
        <5>1. /\ worker[v].stage # "idle" /\ worker'[v].stage = "idle"
              /\ \A x \in Workers : x # w => worker'[x] = worker[x]
          BY <1>1, <2>2, <4>1, WorkerMoves DEF LeaveStep
        <5> QED BY <5>1
      <4> QED BY <2>2, <4>1, <4>2
    <3> QED BY <3>1
  <2>5. /\ IsFiniteSet(Stray \cup {a})
        /\ Cardinality(Stray \cup {a}) = Cardinality(Stray) + 1
    BY <2>1, FS_AddElement
  <2>6. /\ IsFiniteSet(Stray')
        /\ Cardinality(Stray') <= Cardinality(Stray \cup {a})
    BY <2>4, <2>5, FS_Subset
  <2>7. Cardinality(Stray') \in Nat
    BY <2>6, FS_CardinalityType
  <2>8. Cardinality(Stray') <= faults'
    BY <1>2, <2>3, <2>5, <2>6, <2>7 DEF Fault
  <2> QED BY <2>6, <2>8 DEF ArtefactsAccountedFor, Stray
<1> QED BY <1>4, <1>5
-----------------------------------------------------------------------------
(* The invariant holds, and what follows from it.                          *)

LEMMA InitHolds == Init => IInv
<1> SUFFICES ASSUME Init PROVE IInv
  OBVIOUS
<1>1. /\ now = 0 /\ lastSuccessfulAt = 0 /\ runs = << >> /\ store = {}
      /\ tombstone = [k \in Keys |-> 0] /\ written = [k \in Keys |-> 0]
      /\ worker = [w \in Workers |-> Idle]
      /\ takeovers = 0 /\ faults = 0
      /\ image \in [Keys -> [status: {"none", "kept"}, stamp: {0}]]
      /\ 0 \in Times
  BY ConstantsAssumption DEF Init, Times
<1>2. \A x \in [status: {"none", "kept"}, stamp: {0}] :
          /\ x \in [status: {"none", "orphaned", "kept"}, stamp: Times]
          /\ x.stamp = 0
  BY <1>1
<1>3. \A k \in Keys :
          /\ image[k] \in [status: {"none", "orphaned", "kept"}, stamp: Times]
          /\ image[k].stamp = 0 /\ tombstone[k] = 0 /\ written[k] = 0
  BY <1>1, <1>2
<1>4. image \in [Keys -> [status: {"none", "orphaned", "kept"}, stamp: Times]]
  BY <1>1, <1>3
<1>5. \A w \in Workers : worker[w] = Idle /\ worker[w].stage = "idle"
  BY <1>1, WorkerParts
<1>6. /\ runs \in Seq(Run) /\ Len(runs) = 0 /\ DOMAIN runs = {}
  BY <1>1, EmptySeq
<1>7. TypeOK
  BY <1>1, <1>4, <1>6, WorkerParts, ConstantsAssumption DEF TypeOK
<1>8. Succeeded = {}
  BY <1>6 DEF Succeeded
<1>9. GalleryFits /\ WorkersFit /\ RunsFit /\ StoreFits
  BY <1>1, <1>3, <1>5, <1>6, <1>8
  DEF GalleryFits, WorkersFit, RunsFit, StoreFits
<1>10. Telling
  BY <1>1, <1>5, <1>8
  DEF Telling, WatermarksAreSnapshots, ManifestsTell, BaselineIsFirst
<1>11. Stray = {}
  BY <1>1 DEF Stray
<1>12. IsFiniteSet(Stray) /\ ArtefactsAccountedFor
  BY <1>1, <1>11, FS_EmptySet DEF ArtefactsAccountedFor, Stray
<1> QED BY <1>7, <1>9, <1>10, <1>12 DEF IInv, Shape

LEMMA StepKeeps == IInv /\ [Next]_vars => IInv'
<1> SUFFICES ASSUME IInv, [Next]_vars PROVE IInv'
  OBVIOUS
<1>1. CASE Next
  <2>1. lastSuccessfulAt <= now
    BY DEF IInv, Telling, WatermarksAreSnapshots
  <2> QED BY <1>1, <2>1, ShapeKept, TellingKept, StrayKept DEF IInv
<1>2. CASE UNCHANGED vars
  <2>1. TypeOK' /\ GalleryFits'
    BY <1>2 DEF IInv, Shape, TypeOK, GalleryFits, vars
  <2>2. WorkersFit' /\ RunsFit'
    BY <1>2 DEF IInv, Shape, WorkersFit, RunsFit, vars
  <2>3. StoreFits'
    BY <1>2 DEF IInv, Shape, StoreFits, Succeeded, Product, vars
  <2>4. WatermarksAreSnapshots' /\ BaselineIsFirst'
    BY <1>2 DEF IInv, Telling, WatermarksAreSnapshots, BaselineIsFirst,
                IsWatermark, Succeeded, vars
  <2>5. ManifestsTell'
    BY <1>2 DEF IInv, Telling, ManifestsTell, ObjectsTell, GoneTells, Covers,
                IsWatermark, Succeeded, vars
  <2>6. IsFiniteSet(Stray') /\ ArtefactsAccountedFor'
    BY <1>2 DEF IInv, Stray, ArtefactsAccountedFor, Product, vars
  <2> QED BY <2>1, <2>2, <2>3, <2>4, <2>5, <2>6 DEF IInv, Shape, Telling
<1> QED BY <1>1, <1>2

LEMMA Invariance == Spec => []IInv
BY InitHolds, StepKeeps, PTL DEF Spec
-----------------------------------------------------------------------------
(* What a run restores.                                                    *)

LEMMA SmallestOf ==
    ASSUME NEW S, S \subseteq Nat, S # {}
    PROVE  \E x \in S : \A y \in S : x <= y
<1>1. PICK x \in S : \A y \in S : ~ (<<y, x>> \in OpToRel(<, Nat))
  BY WFMin, NatLessThanWellFounded
<1>2. \A y \in S : <<y, x>> \in Nat \X Nat
  OBVIOUS
<1>3. \A y \in S : ~ (y < x)
  BY <1>1, <1>2 DEF OpToRel
<1> QED BY <1>3

LEMMA GreatestOf ==
    ASSUME NEW n \in Nat, NEW S, S \subseteq 1 .. n, S # {}
    PROVE  \E x \in S : \A y \in S : y <= x
<1> DEFINE T == {n - y : y \in S}
<1>1. T \subseteq Nat /\ T # {}
  <2>1. \A y \in S : n - y \in Nat
    OBVIOUS
  <2>2. PICK y : y \in S
    OBVIOUS
  <2>3. n - y \in T
    BY <2>2
  <2> QED BY <2>1, <2>3
<1> HIDE DEF T
<1>2. PICK t \in T : \A u \in T : t <= u
  BY <1>1, SmallestOf
<1>3. PICK x \in S : t = n - x
  BY DEF T
<1>4. ASSUME NEW y \in S PROVE y <= x
  <2>1. n - y \in T
    BY DEF T
  <2> QED BY <1>2, <1>3, <2>1
<1> QED BY <1>4

LEMMA SucceededParts ==
    ASSUME TypeOK
    PROVE  \A r \in Succeeded :
               /\ r \in Nat /\ r \in 1 .. Len(runs) /\ r \in DOMAIN runs
               /\ runs[r].started \in Nat /\ runs[r].mode \in Modes
BY RunsAreRuns, RunParts, ConstantsAssumption DEF Succeeded, Times

\* Of the successful runs, those of a chain are the ones since the last full.
LEMMA ChainParts ==
    ASSUME IInv, RunsInOrder, NEW r \in Succeeded
    PROVE  \E f \in Succeeded :
               /\ runs[f].mode = "FULL" /\ f <= r
               /\ \A q : q \in Chain(r) <=>
                             q \in Succeeded /\ f <= q /\ q <= r
               /\ \A q \in Chain(r) : q # f => runs[q].mode = "INCREMENTAL"
<1>1. TypeOK /\ BaselineIsFirst /\ Len(runs) \in Nat
  BY RunsAreRuns DEF IInv, Shape, Telling
<1>2. Baselines(r) # {}
  <2>1. CASE runs[r].mode = "FULL"
    BY <1>1, <2>1, SucceededParts DEF Baselines
  <2>2. CASE runs[r].mode = "INCREMENTAL"
    <3>1. PICK f \in Succeeded : /\ runs[f].mode = "FULL"
                                 /\ runs[f].started < runs[r].started
      BY <1>1, <2>2 DEF BaselineIsFirst
    <3>2. ~ (r < f)
      <4>1. r < f => runs[r].started < runs[f].started
        BY DEF RunsInOrder
      <4> QED BY <1>1, <3>1, <4>1, SucceededParts
    <3>3. f \in Baselines(r)
      BY <1>1, <3>1, <3>2, SucceededParts DEF Baselines
    <3> QED BY <3>3
  <2> QED BY <1>1, <2>1, <2>2, SucceededParts DEF Modes
<1>3. Baselines(r) \subseteq 1 .. Len(runs)
  BY <1>1, SucceededParts DEF Baselines
<1>4. PICK f \in Baselines(r) : \A g \in Baselines(r) : g <= f
  BY <1>1, <1>2, <1>3, GreatestOf
<1>5. f \in Succeeded /\ runs[f].mode = "FULL" /\ f <= r
  BY DEF Baselines
<1>6. \A q : q \in Chain(r) <=> q \in Succeeded /\ f <= q /\ q <= r
  <2>1. ASSUME NEW q \in Chain(r) PROVE q \in Succeeded /\ f <= q /\ q <= r
    <3>1. /\ q \in Succeeded /\ q <= r
          /\ \E e \in Baselines(r) : \A g \in Baselines(r) : g <= e /\ e <= q
      BY DEF Chain
    <3>2. PICK e \in Baselines(r) : f <= e /\ e <= q
      BY <3>1
    <3>3. q \in Nat /\ e \in Nat /\ f \in Nat
      BY <1>1, <1>3, <3>1, SucceededParts
    <3> QED BY <3>1, <3>2, <3>3
  <2>2. ASSUME NEW q \in Succeeded, f <= q, q <= r PROVE q \in Chain(r)
    BY <1>4, <2>2 DEF Chain
  <2> QED BY <2>1, <2>2
<1>7. ASSUME NEW q \in Chain(r), q # f PROVE runs[q].mode = "INCREMENTAL"
  <2>1. q \in Succeeded /\ f <= q /\ q <= r
    BY <1>6
  <2>2. q \notin Baselines(r)
    BY <1>1, <1>3, <1>4, <1>7, <2>1, SucceededParts
  <2>3. runs[q].mode # "FULL"
    BY <2>1, <2>2 DEF Baselines
  <2> QED BY <1>1, <2>1, <2>3, SucceededParts DEF Modes
<1> QED BY <1>5, <1>6, <1>7

LEMMA ManifestParts ==
    ASSUME IInv, NEW q \in Succeeded
    PROVE  \E since \in Times :
               /\ ObjectsTell(runs[q].mode, runs[q].started, since,
                              Manifest(q).objects)
               /\ GoneTells(runs[q].mode, runs[q].started, since,
                            Manifest(q).gone)
<1>1. \E a \in store : a.run = q /\ a.at = runs[q].started
  BY DEF IInv, Shape, StoreFits
<1>2. /\ Manifest(q) \in store /\ Manifest(q).run = q
      /\ Manifest(q).at = runs[q].started
  BY <1>1 DEF Manifest
<1>3. \E since \in Times :
          /\ ObjectsTell(runs[Manifest(q).run].mode, Manifest(q).at, since,
                         Manifest(q).objects)
          /\ GoneTells(runs[Manifest(q).run].mode, Manifest(q).at, since,
                       Manifest(q).gone)
  BY <1>2 DEF IInv, Telling, ManifestsTell
<1> QED BY <1>2, <1>3

LEMMA Ordered ==
    ASSUME TypeOK, RunsInOrder
    PROVE  \A p, q \in Succeeded : p < q <=> runs[p].started < runs[q].started
BY SucceededParts DEF RunsInOrder

\* The first manifest of a chain that can list a write does so, unless its
\* snapshot fell between the stamp and the commit: the watermark it starts from
\* is in the chain before it, or before the chain.
LEMMA ChainCovers ==
    ASSUME IInv, RunsInOrder, NEW r \in Succeeded, NEW k \in Keys,
           NEW t \in Nat, t <= written[k], written[k] <= runs[r].started,
           ~ Straddles(k, t, r)
    PROVE  \E q \in Chain(r), since \in Times :
               /\ ObjectsTell(runs[q].mode, runs[q].started, since,
                              Manifest(q).objects)
               /\ GoneTells(runs[q].mode, runs[q].started, since,
                            Manifest(q).gone)
               /\ Covers(runs[q].mode, runs[q].started, since, t, written[k])
<1>1. TypeOK /\ written[k] \in Nat
  BY ConstantsAssumption DEF IInv, Shape, TypeOK, Times
<1>2. PICK f \in Succeeded :
          /\ runs[f].mode = "FULL" /\ f <= r
          /\ \A q : q \in Chain(r) <=> q \in Succeeded /\ f <= q /\ q <= r
          /\ \A q \in Chain(r) : q # f => runs[q].mode = "INCREMENTAL"
  BY ChainParts
<1> DEFINE Late == {q \in Chain(r) : t <= runs[q].started}
<1>3. r \in Late
  BY <1>1, <1>2, SucceededParts
<1>4. Late \subseteq Nat
  BY <1>1, <1>2, SucceededParts
<1>5. PICK q \in Late : \A p \in Late : q <= p
  BY <1>3, <1>4, SmallestOf
<1>6. q \in Chain(r) /\ t <= runs[q].started
  OBVIOUS
<1>7. q \in Succeeded /\ f <= q /\ q <= r /\ written[k] <= runs[q].started
  BY <1>1, <1>2, <1>6, SucceededParts DEF Straddles
<1>8. PICK since \in Times :
          /\ ObjectsTell(runs[q].mode, runs[q].started, since,
                         Manifest(q).objects)
          /\ GoneTells(runs[q].mode, runs[q].started, since, Manifest(q).gone)
  BY <1>7, ManifestParts
<1>9. ASSUME runs[q].mode = "INCREMENTAL" PROVE t > since
  <2>1. PICK s \in Succeeded : runs[s].started = since
    BY <1>8, <1>9 DEF ObjectsTell, IsWatermark
  <2>2. runs[s].started < runs[q].started
    BY <1>8, <1>9, <2>1 DEF ObjectsTell
  <2>3. s < q
    BY <1>1, <1>7, <2>2, Ordered
  <2>4. s \in Nat /\ f \in Nat /\ q \in Nat /\ r \in Nat /\ since \in Nat
    BY <1>1, <1>7, <2>1, SucceededParts
  <2>5. CASE f <= s
    <3>1. s \in Chain(r)
      BY <1>2, <1>7, <2>3, <2>4, <2>5
    <3>2. s \notin Late
      BY <1>5, <2>3, <2>4
    <3> QED BY <2>1, <2>4, <3>1, <3>2
  <2>6. CASE s < f
    <3>1. runs[s].started < runs[f].started
      BY <1>1, <2>6, Ordered
    <3>2. f # q
      BY <1>2, <1>9
    <3>3. f \in Chain(r) /\ f < q
      BY <1>2, <1>7, <2>4, <3>2
    <3>4. f \notin Late
      BY <1>5, <2>4, <3>3
    <3>5. runs[f].started < t /\ runs[f].started \in Nat
      BY <1>1, <3>3, <3>4, SucceededParts
    <3> QED BY <2>1, <2>4, <3>1, <3>5
  <2> QED BY <2>4, <2>5, <2>6
<1>10. Covers(runs[q].mode, runs[q].started, since, t, written[k])
  BY <1>7, <1>9 DEF Covers
<1> HIDE DEF Late
<1> QED BY <1>6, <1>8, <1>10

LEMMA RestoresKept ==
    ASSUME IInv, RunsInOrder, NEW r \in Succeeded, NEW k \in Keys,
           image[k].status = "kept", written[k] <= runs[r].started,
           ~ Straddles(k, image[k].stamp, r)
    PROVE  k \in Restored(r)
<1>1. /\ TypeOK /\ image[k].stamp \in Nat /\ written[k] \in Nat
      /\ image[k].stamp <= written[k]
  BY ConstantsAssumption DEF IInv, Shape, TypeOK, Times, GalleryFits
<1>2. PICK q \in Chain(r), since \in Times :
          /\ ObjectsTell(runs[q].mode, runs[q].started, since,
                         Manifest(q).objects)
          /\ Covers(runs[q].mode, runs[q].started, since, image[k].stamp,
                    written[k])
  BY <1>1, ChainCovers
<1>3. k \in Manifest(q).objects
  BY <1>2 DEF ObjectsTell
<1>4. ASSUME NEW p \in Chain(r), p > q PROVE k \notin Manifest(p).gone
  <2>1. p \in Succeeded /\ q \in Succeeded
    BY DEF Chain
  <2>2. runs[q].started < runs[p].started
    BY <1>4, <2>1 DEF RunsInOrder
  <2>3. written[k] <= runs[p].started
    BY <1>1, <1>2, <2>1, <2>2, SucceededParts DEF Covers
  <2> QED BY <2>1, <2>3, ManifestParts DEF GoneTells
<1> QED BY <1>3, <1>4 DEF Restored

LEMMA RestoresNoDeleted ==
    ASSUME IInv, RunsInOrder, NEW r \in Succeeded, NEW k \in Keys,
           tombstone[k] # 0, written[k] <= runs[r].started,
           ~ Straddles(k, tombstone[k], r)
    PROVE  k \notin Restored(r)
<1>1. /\ TypeOK /\ tombstone[k] \in Nat /\ written[k] \in Nat
      /\ tombstone[k] <= written[k]
  BY ConstantsAssumption DEF IInv, Shape, TypeOK, Times, GalleryFits
<1>2. PICK p \in Chain(r), since \in Times :
          /\ GoneTells(runs[p].mode, runs[p].started, since, Manifest(p).gone)
          /\ Covers(runs[p].mode, runs[p].started, since, tombstone[k],
                    written[k])
  BY <1>1, ChainCovers
<1>3. k \in Manifest(p).gone
  BY <1>2 DEF GoneTells
<1>4. ASSUME NEW q \in Chain(r), k \in Manifest(q).objects PROVE p > q
  <2>1. p \in Succeeded /\ q \in Succeeded
    BY DEF Chain
  <2>2. ~ (written[k] <= runs[q].started)
    BY <1>4, <2>1, ManifestParts DEF ObjectsTell
  <2>3. runs[q].started < runs[p].started
    BY <1>1, <1>2, <2>1, <2>2, SucceededParts DEF Covers
  <2>4. q < p
    BY <1>1, <2>1, <2>3, Ordered
  <2> QED BY <1>1, <2>1, <2>4, SucceededParts
<1> QED BY <1>3, <1>4 DEF Restored

-----------------------------------------------------------------------------
(* The theorems.                                                           *)

\* Images, tombstones, runs, artefacts and workers have their types, whatever
\* the number of keys, workers, runs and take-overs.
THEOREM TypeCorrect == Spec => []TypeOK
<1>1. IInv => TypeOK
  BY DEF IInv, Shape
<1> QED BY <1>1, Invariance, PTL

\* A run that is recorded as successful has exactly one artefact of its
\* snapshot, whichever workers lost the run before or after.
THEOREM SuccessIsStored == Spec => []SucceededIsStored
<1>1. ASSUME IInv PROVE SucceededIsStored
  <2>1. ASSUME NEW r \in Succeeded
        PROVE  Cardinality({a \in store : /\ a.run = r
                                          /\ a.at = runs[r].started}) = 1
    <3>1. PICK a \in store : a.run = r /\ a.at = runs[r].started
      BY <1>1 DEF IInv, Shape, StoreFits
    <3>2. \A b \in store : b.at = a.at => b = a
      BY <1>1 DEF IInv, Shape, StoreFits
    <3>3. {b \in store : b.run = r /\ b.at = runs[r].started} = {a}
      BY <3>1, <3>2
    <3> QED BY <3>3, FS_Singleton
  <2> QED BY <2>1 DEF SucceededIsStored
<1> QED BY <1>1, Invariance, PTL

\* An artefact that is neither that of a success nor in the hands of its worker
\* was left by a fault, and each fault leaves one at most.
THEOREM ArtefactsAreAccounted == Spec => []ArtefactsAccountedFor
<1>1. IInv => ArtefactsAccountedFor
  BY DEF IInv
<1> QED BY <1>1, Invariance, PTL

\* While runs succeed in the order of their snapshots, every success can be
\* restored, and the restore is right about every key whose last write committed
\* before the snapshot, unless an older snapshot of the chain fell between the
\* stamp of that write and its commit: however many workers, faults and
\* take-overs there were, however late writes commit, and whatever the gallery
\* did between the reads of a manifest.
THEOREM RestoreIsRight == Spec => []RestoreMatchesGallery
<1>1. ASSUME IInv PROVE RestoreMatchesGallery
  <2>1. ASSUME RunsInOrder, NEW r \in Succeeded PROVE Chain(r) # {}
    <3>1. r \in Nat
      BY <1>1, SucceededParts DEF IInv, Shape
    <3> QED BY <1>1, <2>1, <3>1, ChainParts
  <2> QED BY <1>1, <2>1, RestoresKept, RestoresNoDeleted
          DEF RestoreMatchesGallery
<1> QED BY <1>1, Invariance, PTL
=============================================================================
