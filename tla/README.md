# Formal model of CrewQual

TLA+ modules, TLC configurations and TLAPS proofs about CrewQual, the
qualification register of a flight department. Paths below are relative to the
repository root; `src/src/` of the mapping in `PROJECT.json` is the directory
`src/` of the application.

## 1. Inventory

CrewQual is a Next.js web process, a PostgreSQL database reached through
Prisma, a worker process that takes jobs from pg-boss queues kept in the same
database, an S3 bucket with the evidence images, and a small Go updater on the
host. There is no in-memory state that matters: everything that two requests
share is a row or an object. Transactions run at READ COMMITTED unless the code
says otherwise (upload quotas and set-up are SERIALIZABLE), so each statement
sees the commits that precede it and every guarantee comes from a guarded
`updateMany`, a unique index or a row lock.

| Component | State | Operations | What is hard | What makes it correct |
|---|---|---|---|---|
| Qualification revisions (`server/admin-repository.ts`, `pilot/submissions`, `admin/pilots/.../qualifications`, `rollback`, `pilot-management.ts`) | records, update requests, evidence links, image status | submit, approve, return, correct, create, patch, import, roll back | read-then-guarded-write races between eight handlers, insertions with no row to guard | one effective record per slot, an unbroken chain of revisions, decisions final and taken on the captured baseline |
| Evidence lifecycle (`evidence-images`, `upload-quotas.ts`, `worker-handlers.ts` clean-up and optimisation, `evidence-reconciliation.ts`, tombstone trigger) | image rows, S3 objects, tombstones, optimisation tasks, upload reservations | upload, link, clean up, optimise, reconcile, reserve | object store and database are not one transaction; a row is read, its object deleted, and the row linked in between | a row that serves as evidence has its object; no object is lost track of |
| Recognition (`worker-handlers.ts`, `evidence-images/[id]/recognitions`) | recognition tasks, queue jobs, verifications | enqueue, claim, complete, fail, requeue stale | at-least-once jobs, stale claims taken over while the first owner still runs | a result is stored once, an attempt is not counted against another |
| Notifications (`notifications.ts`, `worker-handlers.ts`, retry route, SMS receipt webhook) | deliveries (an outbox with a unique key), attempts, inbox | emit, claim, send, finish, requeue stale, retry by an administrator, receipt | a provider may have accepted what the process never recorded; the next job is sent after the commit | no event is announced twice under one key; a delivery ends, or waits for a job that exists |
| Reminders (`worker-handlers.ts`, `qualification-date-status.ts`) | deliveries keyed by record or stage and window | daily scan, clean-up of former dates | a reschedule and a scan, keys that come back | one reminder per window, given up only for the reason it records |
| Upgrade plans (`upgrade-plans/*`, `upgrade-plan-rules.ts`, `position-assignments.ts`) | plans, stages, inspection items, assignments | create, start, pause, resume, complete, cancel, reassign, stage steps, assign, end | row locks in two orders, one active plan per person, stages in order | no active plan without an active assignment, stages complete in order |
| Backups and restore (`backup-service.ts`, `backup-runner.ts`, `evidence-restore.ts`) | plans with a watermark, runs, artefacts, manifests, tombstones | schedule, request, claim, execute, recover stale, restore | a run taken over while it still runs, crash between artefact and row, incremental chains | one owner per run, a restore equals the gallery at the chosen run |
| Sessions and access links (`auth.ts`, `webauthn.ts`, login routes) | sessions, access tokens, factors | issue, consume, log in, revoke | single use under races | a token opens at most one session |
| Rate limits (`rate-limit.ts`) | counters per window | consume | concurrent increments | at most the limit per window |
| Set-up (`setup.ts`, `setup/*`) | set-up state, organisation | authorise, complete | two administrators completing at once | completed once |
| Security telemetry (`security-*.ts`) | events, detections, watermark | record, aggregate, clean up | watermark and late events | an event is counted once |
| Members, positions, units (`pilot-management.ts`, `member-repository.ts`, `position-assignments.ts`) | people, pilots, assignments | create, edit, import, deactivate | versions and unique numbers | versions guard edits |
| Qualification rules (`lib/qualification-rules.ts`, `lib/qualification-date-status.ts`) | none | validate dates, compute status and reminder windows | calendar boundaries | dates ordered, windows disjoint |
| Configuration (settings, template packs, definitions, storage) | settings rows | edit with versions | edits racing with use | version guards |
| Host updater (`updater/*.go`) | state file with two jobs, deployment lock, maintenance marker, files, database, services | check, install, go back, apply network settings | a command that fails half-way, a way back that fails, a death in the middle, writes of members meanwhile | files, database and services of one release, no answered write lost, or a job that asks for a person |
| User interface, i18n, serializers, generated Prisma client | none of its own | — | — | not modelled |

Interactions: the handlers of the web process and the worker meet only in the
database. A submission links an uploaded image, creates a recognition task and
a queue job in one transaction; a decision writes notices to the outbox in its
own transaction; the worker turns outbox rows and jobs into calls to providers;
clean-up, optimisation and reconciliation move objects under the image rows;
backups read the image rows and the tombstones.

## 2. Plan

Written, in order of what the system most depends on: the life of a formal
qualification record; the quotas that protect the bucket; the outbox; the
evidence images and their objects; the recognition of an image; progression
plans; gallery backups; the host's updates; the reminders of stages. Every
module keeps to one action per statement, transaction or command of the code,
has its parameters as constants with named assumptions, and declares no
RECURSIVE operator, so that it can be proved about as well as checked.

Three components promise something that can be said without their machinery, and
the promise is a module of its own that the detailed one is shown to implement:
`QualificationRegister` (refined through `QualificationRefinement`) and
`PlanLifecycle` (through `PlanRefinement`) promise that requests are atomic,
`Outbox` (through `OutboxRefinement`) that a notification is sent while it is
open and ends with the acceptance that was recorded.

| Module | Depends on | Runs | Proofs |
|---|---|---|---|
| `QualificationRevision` | — | `qualification_revision` | all safety, and the refinement |
| `UploadQuota` | — | `upload_quota` | all safety |
| `NotificationDelivery` | — | `notification_delivery`, `notification_ends` | all safety, and the refinement |
| `EvidenceLifecycle` | — | `evidence_lifecycle`, `evidence_late` | all safety; where no submission is late, also the property that `evidence_late` refutes |
| `RecognitionTask` | — | `recognition` | all safety |
| `UpgradePlan` | — | `upgrade_plan` | all safety, and the refinement |
| `GalleryBackup` | — | `gallery_backup`, `backup_incremental` | all safety |
| `HostUpdate` | — | `host_update` | all safety |
| `StageReminder` | — | `reminder_cancelled` | none: it shows a finding |

Left for later: sessions and access links (a link or a challenge opens one
session, against a change of policy); the reminders of qualifications, once more
than one window is open at a time. The project stays within twelve runs, so that all of it is
re-checked in well under an hour; a finding that needed a run only to be found is
described in section 4 and has no run any more.

## 3. Modules and the code

### QualificationRevision: records and requests

State: `records` (rows of `QualificationRecord`), `requests`
(`QualificationUpdateRequest`), `links` (`QualificationEvidence`),
`imageStatus`, `conflicts` (audit rows `qualification.approval_conflict`),
`outbox` (keys given to `emitPilotNotification`) and `ops`, what each HTTP
request in flight has read.

| Action | Code |
|---|---|
| `SubmitRead`, `SubmitCommit` | `pilot/submissions/route.ts` POST: what it reads before the transaction, the transaction |
| `ApproveReadRequest`, `ApproveReadCurrent`, `ApproveCommit`, `ApproveRefused`, `ApproveOvertaken`, `ApproveAuditConflict` | `approveReview`: the request, the effective record, the guarded writes, the refusals, the audit row written after a rollback |
| `ReturnRead`/`ReturnCommit`, `CorrectRead`/`CorrectCommit` | `returnReview`, `correctReview` |
| `CreateRead`, `PatchRead`, `ImportRead`, `DirectCommit` | POST and PATCH of `admin/pilots/[pilotId]/qualifications/...`, the CSV import of `pilot-management.ts` |
| `RollbackRead`, `RollbackCommit` | `qualification-records/[recordId]/rollback/route.ts` |
| `Abandon` | a handler that stops between two steps |

A statement sees the commits before it (READ COMMITTED), so each read is an
action of its own. The guarded writes of one transaction are one action,
because each row whose guard was evaluated stays locked until the commit. The
partial unique indexes (one ACTIVE record, one PENDING request per slot) are
conjuncts of the writes they reject. `QualificationRegister` is the abstract
promise, a versioned register per slot with compare-and-set approvals;
`QualificationRefinement` maps the rows to it. A `Content` stands for one set of
fields that the rules accept; permissions are left out.

### UploadQuota: reservations

State: `now`, `lease` (`UploadReservation`), `image` (`EvidenceImage`), `stage`.
`Reserve` and `Refuse` are the SERIALIZABLE transaction of `reserveUpload`, with
its five checks in the order of the code; `Store` is the object and the row,
`Release` is `releaseUpload`, `Die` an end without it, `Link` a submission,
`CleanUp` the daily job. Time is in ticks; with `TimelyUploads` an upload is
over, one way or the other, before its lease of 5 minutes is. The lease is taken
when the image, of at most 10 MiB, has arrived, so it covers its conversion, one
call to the bucket and one insertion; but nothing in the code enforces the
assumption, and an upload that outlives its lease is left out on purpose. The sum of the sizes
of a set of images is `Bytes`, the number of their bytes as pairs of an image and
a position, so that it can be reasoned about as a cardinality.

### NotificationDelivery: one delivery

State: `delivery` (the row), `job` (the queue), `worker`, `admin`, `message`
(what the provider accepted). `Fetch`, `Expire` and `Throw` are pg-boss as
`jobs.ts` configures it, `Sweep`, `Find`, `Claim`, `Send`, `Record` are the
statements of `processNotificationJob`, `Requeue` the `sendAfter` of
`worker/index.ts` after the transaction, `AdminRead`/`AdminRetry`/
`AdminConflict` the retry route, `Receipt` the SMS webhook. `Crash` and `Throw`
may happen at every stage. The real durations are: stale after 600 s, expiry of
a job 900 s, retry of a job after 30 s at most 5 times, backoff
30 * 2^(n-1) s up to 3600 s, provider time limit at most 300 s; the constants
keep their order. `Outbox` is the abstract promise: open, accepted, delivered or
undelivered, with the cycles of the messages that the provider accepted;
`OutboxRefinement` maps the row and the messages to it and hides jobs, workers,
attempts and times.

### EvidenceLifecycle: rows and objects

State: `row` (with `stamp`, the number of updates, for `updatedAt`), `store`
(keys in the bucket), `tombstone`, `task` (optimisation), and the stage of each
upload, submission, cleaner, optimiser and reconciler. Every object-store call and every transaction is one
action: `Upload*`, `Submit*`, `Retain` (approval), `Clean*`
(`processCleanupJob`), `Optimise*` (`processImageOptimizationJob`),
`Reconcile*` and `Sweep*` (`evidence-reconciliation.ts`). `Trigger` is
the PL/pgSQL function of the tombstone migration, fired by each write of a row.
A key names the image and its writer; uploads and conversions take fresh keys,
a rebuilt object's key follows from the row that was read, so two reconcilers
may write the same one.

### RecognitionTask: one image's task

State: `task`, the one `job` ever sent for it, `handler`, `valid` (the image
vouches for its object), `submission` (what it read of the task),
`verification` (which attempt's result the request was compared with). `Sweep`,
`Read`, `Refuse`, `Claim`, `ClaimLost`, `Recognize`, `Store`, `Fail` are the
statements of `processRecognitionJob` in their order; `RequestRecognition` and
`SubmitRead`/`SubmitCommit`/`SubmitAbort` the two routes that create a task;
`Fetch`, `Expire`, `Finish`, `Throw` the queue. Handlers here may outlive both
their claim and their job: they go on beside their successors.

### UpgradePlan: plans, stages and assignments

State: `plan` (rows of `UpgradePlan`, with status, pilot, assignment and
version), `stage`, `planned`, `inspected` (rows of its stages and their
inspection items), `assignment` (`PersonPositionAssignment`), `op` (what each
request in flight has read), `held` (row locks).

| Action | Code |
|---|---|
| `CreateRead`, `CreateWrite` | POST of `upgrade-plans/route.ts` |
| `LifecycleLockPlan`, `LifecycleWrite` | start, pause, resume, cancel: `upgrade-plans/[id]/[action]/route.ts`, which locks the plan FOR UPDATE |
| `ReassignRead`, `ReassignPlan`, `ReassignShare`, `ReassignWrite` | `reassign`: the guarded update of the plan, the key share that its foreign key takes, the lock of the assignment, the rest |
| `LockAssignment`, `Check` | `position-assignments.ts`: the assignment FOR UPDATE, then the rules of `upgrade-plan-rules.ts` |
| `CompleteRead`/`CompleteWrite`, `RescheduleRead`/`RescheduleWrite` | `stages/[stageId]/[action]/route.ts`, which reads outside its transaction and is guarded by the plan's version |
| `EditRead`, `EditWrite` | PATCH of `upgrade-plans/[id]/route.ts` |
| `AssignPosition`, `EndLock`, `EndCheck`, `EndWrite` | assigning a position, ending an assignment |
| `DeletePosition` | the forced deletion of a position in `admin/settings/route.ts` |
| `Abandon` | a request that is refused or dies: its locks go, nothing is written |

Locks have the modes PostgreSQL takes (FOR UPDATE, the no-key update of an
UPDATE statement, the key share of a foreign key) and its table of conflicts;
they are kept to the end of the transaction, which is one action with the last
write. The partial unique index on running plans of a pilot is a conjunct of the
writes it rejects. `PlanLifecycle` is the atomic life cycle: each request takes
effect at once, on the plan and the assignment as they are at that moment;
`PlanRefinement` maps the rows to it.

### GalleryBackup: runs, artefacts and chains

State: `now`, `image` and `tombstone` (by object key, with the stamp of the last
change), `written` (when that change committed: a history variable, which no
action reads), `lastSuccessfulAt` (the plan's watermark), `runs` in order of creation,
`store` (artefacts at the target), `worker` (the stage of each worker that
executes a run). `Upload`, `Keep`, `CleanUp` and `Convert` change images as the
evidence component does. Each is the `Commit` of a transaction and stores
`Stamps` taken up to `MaxDelay` ticks earlier, since `updatedAt` is set when the
statement is built, which may then wait for the row and for the statements after
it, and the trigger's `deletedAt` is `CURRENT_TIMESTAMP`, the beginning of the
transaction. The stamps of a row and its tombstone, and those of different
writes, need not agree. `CreateRun` is the schedule and the administrator's
request; `RecoverStale` queues a run that is RUNNING for two hours, whether its
worker died or is slow; `Pick`, `Claim`, `ReadImages`, `Archive`, `Complete`,
`Advance` are the statements of `executeBackupRun` in order, `Refuse` its
refusals, `Error` and `Throw` its catch block at any point, `Crash` the death of
the worker. `startedAt`, set by the claim, is the fencing token and part of the
artefact's name. `Chain`, `Manifest` and `Restored` translate the selection of
`evidence-restore.ts`: the manifests since the last full run, replayed by
creation. No route edits the mode of a plan; the passing run lets an operator do
so (`ModeEdits`), because otherwise no incremental run ever succeeds.

### HostUpdate: an installation and its way back

State: `manifest`, `version`, `latest`, `job`, `network` (the updater's state
file), `locked` (deployment lock), `marker` (maintenance marker), `files`, `db`,
`services` (what the host really runs), `request`, `acknowledged` (members'
writes in flight and answered).

The steps of `updater/main.go` forward are `Launch`, `LockDeployment`,
`Prepare`, `Maintenance`, `StopClients`, `BackupDatabase`, `Migrate`, the two
`WriteFile` (compose file, environment), `Restart`, `Health`, `FinishEntrance`,
`ClearMaintenance`, `Unlock`; the way back, taken from the step that failed, is
`StopAgain`, `RestoreFiles`, `RestoreDatabase`, `StartAgain`, `EntranceAgain`,
or `Resume` when the old release only has to be started again. Every command may
fail, with part of its effect. `ApplyNetwork`, `LockNetwork` and
`RestartNetwork` are the network job, which competes for the same lock. `Crash`
is the death of the updater between two commands (the marker stays),
`Reboot` that of the host (`/run` is emptied); both reload the state file.
`BeginWrite` is the guard of the web's mutations, which looks for the marker once
per request, `CommitWrite` its commit and answer.

### StageReminder: one stage's reminders

State: `today`, `planned`, `former` (dates it had before), `running`,
`delivery` (by the date in its key), `scan`. `Scan`, `CancelFormer` and `Emit`
are the statements of the reminder job, `Fail` and `End` what delivery makes of a
reminder, `Reschedule`, `Finish` and `NextDay` the rest of the world.

## 4. What is checked

A passing run takes between a few seconds and a minute and a half with two
workers.

| Run | Instance | Shows |
|---|---|---|
| `qualification_revision` | 1 slot, 4 requests of any kind, 3 records, 2 update requests, 2 images, 2 contents, rows with legacy versions | one effective record, an unbroken chain, decisions final and taken on the captured baseline, evidence that follows its record, notices that match decisions, and the refinement of `QualificationRegister` |
| `upload_quota` | 4 uploads, limits of 2 to 6, two days | concurrency, held bytes and the daily count are kept |
| `notification_delivery` | 2 workers, 4 jobs, 2 administrators, one retry, one receipt per message, a crash and a database error | sends never overlap, nothing is sent after a recorded acceptance, and the refinement of `Outbox`: what ended is reopened by an administrator only, and only after a failure |
| `notification_ends` | the same with one administrator, two crashes and no database error | no delivery is stranded, and each one ends |
| `evidence_lifecycle` | one image, one cleaner, two optimisers, two reconcilers, three updates of the row, two faults | evidence has its object, tombstones tell the truth, one object at most is lost per fault |
| `evidence_late` | the same with late submissions and no fault | a finding: an image linked late loses its object |
| `recognition` | 2 handlers, one retry, a crash, any lateness | attempts bounded, results final and the ones compared, no task with attempts left is dropped, tasks end |
| `upgrade_plan` | 2 requests of any kind at a time, 2 plans, 2 assignments of one pilot, 2 stages, 2 days, 4 writes of plans | unfinished plans keep their assignments, stages and their dates stay in order, nobody waits in a circle, and the refinement of `PlanLifecycle` |
| `gallery_backup` | 2 workers, 3 runs, 2 keys, 5 instants, one tick from a stamp to its commit, a take-over, a fault | one artefact per success, none left behind without a fault, every chain restores what was committed before its snapshot, but for writes that an older snapshot of the chain caught between stamp and commit |
| `backup_incremental` | 1 worker, 2 runs of an incremental plan, no fault | a finding: the plan never succeeds |
| `host_update` | 3 releases, 2 installations, 2 writes of members, 3 failing commands, one death | services never on another release's database, no answered write lost, jobs that tell what is installed |
| `reminder_cancelled` | one stage, 4 days, 2 days ahead | a finding: a reminder given up for a reason that is untrue |

Why the bounds are enough. Each hazard in `PROJECT.json` involves at most two
handlers and one that creates what they race for; four requests on one slot
leave room for a fourth that restores the earlier situation. Slots do not share
rows except images, of which there are two. A second retry of a delivery or a
task repeats the states of the first. Two reconcilers are needed for one key
written twice, two optimisers for a claim taken twice; images share no row, key
or task, so one is enough. The two days of the quota run are what an upload
across midnight needs. A plan meets another plan only through its pilot and its
assignment, of which two plans need one pilot and two assignments; four writes of
plans start both, move one and complete a stage. Three runs are a full one and
two increments, which is the shortest chain with a manifest in the middle; a
second key is what a conversion moves an image to. One tick from a stamp to its
commit is room for a snapshot in between, which is all that a longer delay has;
the theorem holds for any delay. Three failures let an
installation fail, its way back fail, and the next installation fail too. The
specifications proved in section 5 need no such argument.

Symmetry is used in safety runs only, over identifiers that no action
distinguishes.

**Deadlock.** All runs have `CHECK_DEADLOCK FALSE`, because all of these systems
may really stop: HTTP requests and uploads are served once, the clocks and the
numbers of runs and installations are bounded, a delivery or a task that ended
leaves nothing to do. That handlers do not wait for each other's row locks is
`NoWaitCycle`.

**Fairness.** Only `notification_ends` and `recognition` assume any. Weak
fairness of each handler's steps (a worker that did not crash goes on; Node runs
a started handler to its end or its exception), of the queue handing out due
jobs and expiring dead ones (pg-boss polls for both), and of time. Crashes,
receipts, retries, submissions and other deliveries' sweeps are never assumed.

### Bounds and assumptions that a property needs

- `EventuallyEnds` and `NeverStranded` need that no database statement fails while a handler runs
  (`MaxFailures = 0`): a handler that cannot record its outcome leaves the row
  SENDING, its job comes back after 30 s, finds nothing queued or stale and
  completes; after that nothing points at the delivery. With `MaxFailures = 1`
  both fail. They need a retry of the job for every crash, and a backoff of at
  most the expiry of a job plus its retry delay (930 s): the job that a crash after `sendAfter` left
  behind would otherwise find the delivery not due. The sixth attempt's 960 s
  is longer, which needs a retry limit of six or more (the default is three).
- In `NotificationDelivery` a handler outlives neither its claim nor its job: its
  only long step is the provider's call, limited to 300 s. A provider that refuses
  a message names none (the code stores a `providerMessageId` with a refusal too,
  `worker-handlers.ts:225`, `304`). One receipt comes per message; a second could overwrite the row of a delivery that was retried.
- `EventuallySettles` and `NeverDropped` speak of behaviours in which handlers
  return before the queue gives up their jobs, and exempt tasks without attempts left: a worker
  that dies in the last attempt leaves the task QUEUED for good, which also
  stops the optimiser (`worker-handlers.ts:510`). They need
  `JobRetries >= RetryLimit + MaxCrashes`; the settings allow ten retries of a
  task, the queue five of its job.
- `EvidenceIsStored` is checked with submissions that link an image before it
  expires (`LateSubmissions = FALSE`). A transaction that reports an error is
  taken not to have committed; with a lost answer the optimiser would delete the
  object its row now refers to (`worker-handlers.ts:601`).
- `LimitsHold` holds because the leases stand in for what is not stored yet,
  which needs `TimelyUploads`. The limit of a day also needs
  `2 * Concurrent <= DailyCount + 1` (the code has 3 and 30, the instance 2 and
  3, which is tight): the reservations of a day do not count the uploads that
  were reserved the day before and stored on it. With a daily count of one less,
  TLC finds a day with an image too many.
- `PlansHoldAssignments` exempts assignments that a forced deletion of their
  position ended, `NoWaitCycle` two moves to one assignment (below).
- `RestoreMatchesGallery` has the premise `RunsInOrder`: a run taken over after
  a newer one succeeded starts its increment from the newer one's watermark,
  while a restore replays by creation. It exempts the keys whose last write an
  older snapshot of the chain caught between its stamp and its commit
  (`Straddles`): the manifest of that snapshot may be read before the commit, and
  the next increment asks for later stamps only. Without the exemption TLC finds
  an image in use that no manifest of the chain lists. A full run exempts nothing,
  being alone in its chain, and with `MaxDelay = 0` no run does.
- `SucceededIsStored` takes the answer of a guarded update to arrive: when the
  answer of the update to SUCCEEDED is lost, the catch block deletes the
  artefact of a run that succeeded.
- `JobsTellTheTruth` exempts hosts where an earlier installation was left to a
  person, and network jobs that failed. The updater dies between commands, not
  inside one, and its writes of the state file and removals of the marker do not
  fail (the code ignores their errors).

### Where the code and its words disagree

| Run | The code | The words |
|---|---|---|
| `evidence_late` | an expired orphan that is linked between the query and the deletion loses its object | "deletes only expired orphan images" |
| `backup_incremental` | an incremental run needs an earlier success of its plan, and every run of the plan is incremental; set-up creates the plan so (`setup.ts:847`) | "Gallery backups support full and incremental modes" (`docs/en/operations.md:103`) |
| `reminder_cancelled` | the clean-up compares with a key that lacks the recipient and the channel, so the second scan fails the queued reminder of the current date, whose key keeps it from being written again | the reason it records: the planned date has changed |

The quotations are in `PROJECT.json`.

### Observations without a run

Found while modelling; none of them is claimed by a run.

Records and evidence:

- the loser of two approvals that reads the record after the winner's commit
  reports a changed record, and writes an approval conflict about a request that
  was approved, where a test expects VERSION_CONFLICT;
- a correction overwrites `submittedFields` (`admin-repository.ts:819`), which
  the schema calls the snapshot of what was submitted (`schema.prisma:816`);
- the daily volume counts stored images only, so concurrent uploads pass it,
  where the security page says that they do not bypass the limits; the limit of
  orphans does not count the uploads in progress either (`upload-quotas.ts:77`);
- an upload that succeeded counts twice on its day, as a lease and as an image
  (`upload-quotas.ts:65`), so half of the daily count of
  `wiki/en/security.md:49` is refused;
- the conversion of an image makes the trigger write a tombstone for the
  original, and the next reconciliation deletes the object, where the comment at
  `worker-handlers.ts:596` keeps it while a manifest refers to it;
- a submission that reads the task's status before its link is visible to the
  completion of that task leaves a result that neither compares with the
  submitted fields.

Notifications and reminders:

- the retry route reads FAILED, a receipt makes the row DELIVERED without a new
  version, and the guarded update queues it again: possible only with a second
  receipt for a message;
- a stage moved from a date to another and back is not reminded again, for its
  key is taken; reminders of stages that were completed, of cancelled plans, and
  of stages moved beyond the window are not given up.

Plans:

- a stage of a completed or cancelled plan can be rescheduled, while the
  interface says that such plans are read-only (`messages.ts:2930`);
- an edit of a paused plan creates the inspection items of its completed stages
  again, as pending ones;
- a plan created without an active assignment can be neither started nor resumed
  (`upgrade-plan-rules.ts:37`);
- the forced deletion of a position ends the assignments of unfinished plans,
  which the rules call in use (`upgrade-plan-rules.ts:15`);
- two moves to one assignment may deadlock on it, each holding the key share of
  its foreign key; PostgreSQL breaks the tie and one of them fails.

Backups:

- the retention count and days of a plan are stored and read by no code;
- a backup that takes more than two hours is always taken over, though its
  worker goes on;
- a full manifest omits the images updated between the claim and the query; the
  next increment lists them;
- an image or a tombstone that is stamped before a snapshot and committed after
  its query is not listed by the next increment either (`backup-runner.ts:1205`,
  `1219`), so a restore lacks the image, or brings back the deleted one, until the
  key is written again or a full run is made. The comment at
  `backup-runner.ts:1113` explains the choice of the claim's time by the objects
  created after the query; these are the ones it does not save. It takes an
  incremental run, which only a plan whose mode was edited has.

Updates:

- the manifest is read again after the lock was released (`main.go:532`), so a
  check in between installs a release other than the one that was confirmed;
- after a death in the middle of an installation the reloaded job is never done,
  and later installations and network jobs are refused;
- a job ends before its marker is removed; one whose restart failed and that was
  rolled back ends as FAILED, not ROLLED_BACK;
- the marker stops the web's mutations only: what the worker of the new release
  writes during the health checks is lost by a way back;
- a job that needs manual recovery counts as done, and another installation is
  accepted after it.

## 5. What is proved

The proofs hold for any values of the constants that satisfy the module's
`ConstantsAssumption`; what a theorem needs beyond it is a hypothesis in its
statement, named below. Every safety property of a passing run is a theorem.

**QualificationRevision.** `QualificationRevisionProofs` proves `TypeOK`, that
`InductiveInvariant` holds initially and is kept by each of the eighteen actions,
from it every other property of the run and that decided requests stay as they
are (`DecisionsAreFinal`), and that the specification implements
`QualificationRegister`. None of the properties is inductive as it
stands. That an approval creates the next revision of its baseline needs, at the
moment of the write, that the remembered record is still the latest of its slot
and that versions never come back: `RecordInvariant` says that the slot's records
are one lineage numbered in step with the versions they were born with,
`EffectiveIsLatest` that the effective one is its end, `OpsAreSound` that what
every handler in flight remembers was true of the past (`BaseWasRead`,
`RequestWasRead`, `TargetWasRead`) and so is either still current or overtaken
for good (`Overtaken`). A guard on identifier and version then decides which.
The refinement follows because `StillCurrent` of a base that was read implies
that the register's version is the one read; every other step stutters.

**RecognitionTask.** `RecognitionTaskProofs` proves `TypeOK`, `AttemptsBounded`,
`VerificationOfResult` and `ResultIsFinal` for any number of handlers, however
late, and `NeverDropped` with `RetryLimit + MaxCrashes <= JobRetries`. The code has no fencing token: a claim changes the status only, and a
handler that lost it may find the task RUNNING under another. The invariant
that carries the proof adds `ClaimsAreAllowed`, that every handler about to claim
read an attempt count within the limit (the claim is guarded by that count), and
`SubmissionIsCurrent`, that what a submission read of the task and relies on at
its commit still holds: a task that was not there is inserted by no one else (the
unique index), and one that was COMPLETED stays so.

`NeverDropped` is the safety core of `EventuallySettles`: while handlers are
timely, a task with attempts left has a job or a handler that will find it queued,
or find its claim stale. Its invariant (`Kept`) holds only under that premise, so
the theorem carries it from step to step. The one job makes the one handler at
work (`OneHolder`), whose claim is therefore the claim it loses; claim, handler
and job are equally old (`AgesAgree`), so that the claim of a dead worker is stale
when its job expires, which is later than `StaleAfter`; and each retry of the job
stands for an attempt or a crash (`RetriesCounted`), so that it does not run out
of retries before the task runs out of attempts.

**NotificationDelivery.** `NotificationDeliveryProofs` proves `TypeOK`, and from
`Receipts <= 1` also `OneSender`, `AcceptedOnce`, `EndedStaysEnded`,
`OnlyFailedIsRetried` and that the specification implements `Outbox`, for any numbers of workers, jobs, administrators and
cycles. The invariant has two layers. `Shape` says what every handler is sure of
by its own steps: it holds a job that is running, what it read of the row has
the form its stage needs, and versions count the cycles. `Order` says what it is
sure of because of the others: who sends owns the row, its claim is as old as its
job and so not yet stale (`SenderOwnsRow`; `StaleAfter` is more than any send may
take); what an administrator read is current or overtaken by its version
(`RetriesAreCurrent`); a message whose acceptance was recorded ended its cycle
(`MessagesEndCycles`), and its receipt finds the row as it left it
(`NoReceiptSurprises`). The last is where a second receipt would break the proof. The refinement
needs no more than that: the sender owns an open row, the message it records is
the last of the cycle, and a receipt that finds its message in the row finds it
accepted.

`NeverStranded`, the safety core of `EventuallyEnds`, says who will take an open
delivery up: a job that comes no earlier than the row is due, or once its send is
stale; a handler on its way to look; or the job of a dead worker that will expire
late enough. It is proved with the hypotheses of section 4 (`QueueIsPatient`).
`RetriesAreCrashes` bounds the retries of a job by the crashes, and so keeps it
from being given up; `SendsAreDue` keeps the waiting time of a row that is being
sent at zero, for the sweep that queues it again.

**UploadQuota.** `UploadQuotaProofs` proves `TypeOK` and, with `TimelyUploads`
and `2 * Concurrent <= DailyCount + 1`, `LimitsHold` for any number of uploads
and any limits; concurrency and held bytes need `TimelyUploads` only. The checks
are made at the reservation and the images come later; `LeasesLast` says that an
upload in progress still has its lease, so that every later reservation counts
it. `DayHasRoom` counts for each day the images, the uploads that will become
images, and those carried over from the day before (`Carried`), which are not
among the day's leases but are at most `Concurrent`. Held bytes are compared by
`Units`, one element per byte, so that adding an image adds its size to a
cardinality.

**EvidenceLifecycle.** `EvidenceLifecycleProofs` proves `TypeOK`,
`TombstonesMatchRows` and `ObjectsAccountedFor` for any numbers of images,
processes, updates and faults, and where no submission links an expired image
(`~LateSubmissions`) also `EvidenceIsStored` and that only orphans lose their
objects (`OnlyOrphansAreDeleted`, which the run with late submissions refutes).
No lock protects an object. The key to the proof is `Published`: a key that is or
was a row's is never given to a row again, because uploads insert once, tasks
complete once, and the key of a rebuilt object follows from the count of updates
of the row that was read. So whoever removes an object removes a published key
that no row has any more (`SweptIsUnused`), or the key of its own that it failed
to give to a row. `Shape` is what each process remembers; `Keeping` is about keys;
`Evidence` says that an image in clean-up stays an expired orphan, which is what
a late submission breaks; `Lost`, the objects that nobody accounts for, grows
with faults only.

**GalleryBackup.** `GalleryBackupProofs` proves `TypeOK`, `SucceededIsStored`,
`ArtefactsAccountedFor` and `RestoreMatchesGallery` for any numbers of keys,
workers, runs, take-overs and faults. A snapshot names one claim and so one run,
one worker and one artefact: that is why a worker that lost its run can neither
complete it nor remove the artefact of its successor. A manifest is read in steps
while the gallery changes; `ManifestsTell` says that it is right about every key
whose last write committed before its snapshot, because whatever changes later
commits later. The stamps would not do: one may precede a snapshot that its
commit follows. A watermark is the snapshot of a success
(`WatermarksAreSnapshots`) and a full success precedes the incremental ones
(`BaselineIsFirst`). With
`RunsInOrder` (part of the property) the watermark a manifest starts from is in
its chain or before it, so the first manifest of the chain whose snapshot is not
before the stamp of a key's last write starts from a watermark before that stamp.
It lists the write if it had committed by then, which is what `Straddles` denies
otherwise (`ChainCovers`), and no later manifest contradicts it.

**UpgradePlan.** `UpgradePlanProofs` proves `TypeOK`, `NoWaitCycle`,
`PlansHoldAssignments`, `OneRunningPlan`, `StagesInOrder` and `DatesInOrder` for
any numbers of requests, plans, pilots, assignments and stages. The invariant is
built in layers that use only the ones below: `Shape`, what a request at a
stage remembers; `Locks`, that it has the locks of its stage and no others, and
that conflicting locks are not held together; `Knowledge`, that what it read is
true while the lock or the version that protects it is there; `Safe`, the
properties. `NoWaitCycle` follows from `Locks` alone, because a request that
waits for a plan holds no assignment. The proof of the refinement adds
`HoldersAreCurrent`, that a request which changes the status of a plan remembers
the assignment the plan has now, and shows each step to be a step of
`PlanLifecycle` or a stutter (`RequestsAreAtomic`).

**HostUpdate.** `HostUpdateProofs` proves `TypeOK`, `ServicesMatchDatabase` and
`JobsTellTheTruth` for any numbers of releases, installations, writes, failures
and deaths. `Turns`: one job at most is past its launch and not at its end, it is
the latest, and it has the lock and the marker. `Fits`: from the backup to the
restart the services are stopped, the backup holds every answered write, and the
files are those of the old release or the new one, as the step of the job says.
`JobsTell` and `MarkerTells` say of each step what the last conjuncts of the
property say of the ends.

TLC agreed with the inductive invariants on the instances of section 4 before
they were proved. Sums and least elements, for which one would use induction,
are proved without: sums as cardinalities, the first manifest of a chain that lists a
change as the least element of an order that the library proves well-founded.

**Only model-checked**: liveness (`EventuallyEnds`, `EventuallySettles`), which
is beyond the proof system; `NeverStranded` and `NeverDropped` are the part of it
that is not. The three properties that runs refute are not theorems, and
`StageReminder`, which exists for one of them, has no proofs.

## 6. What is not modelled

Whole components, with the reason of each in `components` of `PROJECT.json`:
sessions and access links, security telemetry, rate limits, set-up, members,
qualification rules, configuration, presentation. Most of them keep their
promise by one statement (an upsert, a guarded update) or one transaction under a
lock, of which a model would only restate the statement or the lock.

Parts of modelled components: of backups, the database dump, encryption, the
checks of restored archives and the isolation of the target; of the updater, the
contents of the network settings, downloads, the verification of manifests, and
the requests to its socket; of reminders, those of qualifications, whose windows
are disjoint intervals of dates and whose outbox row is inserted once by its key;
of plans, notices, dates of effect and the qualification checks that refuse a
start, and legacy pilots without a person. Throughout: permissions, the
calendar and the rules of the fields, the wording and routing of notifications,
batches (each model follows one slot, member, delivery, task, stage or a few
images; rows of different ones meet only in sweeps, which are actions),
retention of old rows, and administrators' edits of settings while a handler
runs.

The mapping covers a small share of the repository's lines. Most of them are the
generated Prisma client, pages and components of the interface, translations and
serializers, which keep no state; what has concurrent state is in the handlers,
the worker and the updater that sections 1 and 3 name.
