--------------------------- MODULE RecognitionTask ---------------------------
(***************************************************************************)
(* The recognition of one evidence image: its task, the queue's job, the   *)
(* handlers that work on it, and the submission that links the image to an *)
(* update request and wants the result compared with its fields.           *)
(*                                                                         *)
(* A handler may be slower than the age at which its claim is stale and    *)
(* the age at which the queue gives its job up.  It then goes on without   *)
(* the job, next to the handlers that took over.  Ages are in ticks.       *)
(***************************************************************************)
EXTENDS Integers, FiniteSets

CONSTANTS
    Handlers,
    RetryLimit,     \* attempts after the first, from the settings
    StaleAfter,     \* age at which a claim is taken to be dead
    ExpireAfter,    \* age at which the queue takes a job to be dead
    RetryDelay,     \* ticks until the queue hands out a failed job again
    JobRetries,     \* how often it does so
    MaxCrashes      \* bound

ASSUME ConstantsAssumption ==
    /\ {RetryLimit, RetryDelay, JobRetries, MaxCrashes} \subseteq Nat
    /\ {StaleAfter, ExpireAfter} \subseteq Nat \ {0}
    /\ StaleAfter < ExpireAfter

VARIABLES
    task,           \* the row of RecognitionTask
    job,            \* the one job ever sent for it
    handler,
    valid,          \* the image vouches for its object, its pilot is active
    submission,     \* what the submission read of the task, or how it ended
    verification,   \* the VerificationResult of the update request
    crashes

vars == <<task, job, handler, valid, submission, verification, crashes>>

Open == {"QUEUED", "RUNNING"}

Ended == {"COMPLETED", "FAILED"}

\* A result is told by the attempt that got it; 0 is none.
Task == [status: {"none"} \cup Open \cup Ended, attempts: Nat,
         age: 0 .. StaleAfter, result: Nat]

Job == [state: {"none", "created", "active"}, wait: Nat,
        age: 0 .. ExpireAfter, retries: 0 .. JobRetries]

\* number is the attempt count read, and the attempt's own once claimed.
Handler == [stage: {"idle", "sweep", "read", "refuse", "claim", "recognize",
                    "store", "fail", "finish"},
            hasJob: BOOLEAN, age: 0 .. StaleAfter, number: Nat]

Seen == [stage: {"waiting", "done", "read"},
         status: {"none", "disabled"} \cup Open \cup Ended]

Disabled == -1

TypeOK ==
    /\ task \in Task
    /\ job \in Job
    /\ handler \in [Handlers -> Handler]
    /\ valid \in BOOLEAN
    /\ submission \in Seen
    /\ verification \in Nat \cup {Disabled}
    /\ crashes \in 0 .. MaxCrashes

-----------------------------------------------------------------------------
(* The task and its queue.                                                 *)

NoTask == [status |-> "none", attempts |-> 0, age |-> 0, result |-> 0]

NoJob == [state |-> "none", wait |-> 0, age |-> 0, retries |-> 0]

NoHandler == [stage |-> "idle", hasJob |-> FALSE, age |-> 0, number |-> 0]

\* Task and job are inserted in one transaction.
CreateTask ==
    /\ task' = [NoTask EXCEPT !.status = "QUEUED"]
    /\ job' = [NoJob EXCEPT !.state = "created"]

\* Mutant: the queue retries without end.
FailedJobAgain == [state |-> "created", wait |-> RetryDelay, age |-> 0,
                   retries |-> job.retries + 1]

\* A failed or expired job is handed out again, unless it used its retries.
FailedJob ==
    IF job.retries = JobRetries THEN NoJob
    ELSE [state |-> "created", wait |-> RetryDelay, age |-> 0,
          retries |-> job.retries + 1]

Go(h, stage) == handler' = [handler EXCEPT ![h].stage = stage]

Fetch(h) ==
    /\ handler[h].stage = "idle"
    /\ job.state = "created" /\ job.wait = 0
    /\ job' = [job EXCEPT !.state = "active", !.age = 0]
    /\ handler' = [handler EXCEPT ![h] = [NoHandler EXCEPT !.stage = "sweep",
                                                          !.hasJob = TRUE]]
    /\ UNCHANGED <<task, valid, submission, verification, crashes>>

\* The queue gives the job up; a handler that still runs goes on without it.
Expire ==
    /\ job.state = "active" /\ job.age = ExpireAfter
    /\ job' = FailedJob
    /\ handler' = [h \in Handlers |-> [handler[h] EXCEPT !.hasJob = FALSE]]
    /\ UNCHANGED <<task, valid, submission, verification, crashes>>

\* The handler returns.
Finish(h) ==
    /\ handler[h].stage = "finish"
    /\ job' = IF handler[h].hasJob THEN NoJob ELSE job
    /\ handler' = [handler EXCEPT ![h] = NoHandler]
    /\ UNCHANGED <<task, valid, submission, verification, crashes>>

\* The handler throws.
Throw(h) ==
    /\ job' = IF handler[h].hasJob THEN FailedJob ELSE job
    /\ handler' = [handler EXCEPT ![h] = NoHandler]

-----------------------------------------------------------------------------
(* processRecognitionJob.                                                  *)

\* persistVerificationForEvidence: an update request whose link to the image
\* is committed gets the comparison with the result.
Persist(result) ==
    verification' = IF submission.stage = "done" THEN result
                    ELSE verification

Stale == task.status = "RUNNING" /\ task.age >= StaleAfter

\* Mutant: stale claims are not looked for.
ResetNone == UNCHANGED task

ResetStale ==
    task' = IF Stale THEN [task EXCEPT !.status = "QUEUED", !.age = 0]
            ELSE task

Sweep(h) ==
    /\ handler[h].stage = "sweep"
    /\ ResetStale
    /\ Go(h, "read")
    /\ UNCHANGED <<job, valid, submission, verification, crashes>>

\* A completed task is compared again; one without attempts left is ignored.
Read(h) ==
    /\ handler[h].stage = "read"
    /\ handler' = [handler EXCEPT
                     ![h].number = task.attempts,
                     ![h].stage = CASE ~valid -> "refuse"
                                    [] valid /\ task.status # "COMPLETED"
                                             /\ task.attempts <= RetryLimit
                                         -> "claim"
                                    [] OTHER -> "finish"]
    /\ IF valid /\ task.status = "COMPLETED" THEN Persist(task.result)
       ELSE UNCHANGED verification
    /\ UNCHANGED <<task, job, valid, submission, crashes>>

\* Mutant: whatever the task has become in between.
RefusableAny == TRUE

Refusable == task.status \in Open

\* The image is not to be sent to the provider.
Refuse(h) ==
    /\ handler[h].stage = "refuse"
    /\ task' = IF Refusable THEN [task EXCEPT !.status = "FAILED"] ELSE task
    /\ Throw(h)
    /\ UNCHANGED <<valid, submission, verification, crashes>>

\* Mutant: the attempt count that was read is not compared.
ClaimableQueued(h) == task.status = "QUEUED"

Claimable(h) == task.status = "QUEUED" /\ task.attempts = handler[h].number

\* The claim starts when the handler did.
Claim(h) ==
    /\ handler[h].stage = "claim"
    /\ Claimable(h)
    /\ task' = [task EXCEPT !.status = "RUNNING", !.attempts = @ + 1,
                           !.age = handler[h].age]
    /\ handler' = [handler EXCEPT ![h].stage = "recognize",
                                  ![h].number = task.attempts + 1]
    /\ UNCHANGED <<job, valid, submission, verification, crashes>>

\* Another handler was faster; if it completed the task, its result is used.
ClaimLost(h) ==
    /\ handler[h].stage = "claim"
    /\ ~Claimable(h)
    /\ IF task.status = "COMPLETED" /\ valid
       THEN Persist(task.result) ELSE UNCHANGED verification
    /\ IF task.status = "COMPLETED" /\ ~valid
       THEN Throw(h)
       ELSE Go(h, "finish") /\ UNCHANGED job
    /\ UNCHANGED <<task, valid, submission, crashes>>

\* The provider answers, also with an answer of no use, or the call fails.
\* An invalid image is not sent.
Recognize(h, answered) ==
    /\ handler[h].stage = "recognize"
    /\ answered => valid
    /\ Go(h, IF answered THEN "store" ELSE "fail")
    /\ UNCHANGED <<task, job, valid, submission, verification, crashes>>

Storable(h) == task.status = "RUNNING"

\* Mutant: the count of updated tasks is not looked at.
StoreUnchecked(h) ==
    /\ handler[h].stage = "store"
    /\ task' = IF Storable(h)
               THEN [task EXCEPT !.status = "COMPLETED",
                                 !.result = handler[h].number]
               ELSE task
    /\ Persist(handler[h].number)
    /\ Go(h, "finish")
    /\ UNCHANGED <<job, valid, submission, crashes>>

\* Result and verification in one transaction.  The guard is the status and
\* not the attempt: a slow handler completes the claim of its successor.
Store(h) ==
    /\ handler[h].stage = "store"
    /\ IF Storable(h)
       THEN /\ task' = [task EXCEPT !.status = "COMPLETED",
                                   !.result = handler[h].number]
            /\ Persist(handler[h].number)
            /\ Go(h, "finish")
       ELSE /\ Go(h, "fail")
            /\ UNCHANGED <<task, verification>>
    /\ UNCHANGED <<job, valid, submission, crashes>>

Fail(h) ==
    /\ handler[h].stage = "fail"
    /\ task' = IF task.status # "RUNNING" THEN task
               ELSE IF handler[h].number <= RetryLimit
               THEN [task EXCEPT !.status = "QUEUED", !.age = 0]
               ELSE [task EXCEPT !.status = "FAILED", !.age = 0]
    /\ Throw(h)
    /\ UNCHANGED <<valid, submission, verification, crashes>>

\* The worker dies; its job stays active until it expires.
Crash(h) ==
    /\ handler[h].stage # "idle"
    /\ crashes < MaxCrashes
    /\ crashes' = crashes + 1
    /\ handler' = [handler EXCEPT ![h] = NoHandler]
    /\ UNCHANGED <<task, job, valid, submission, verification>>

\* The handler of another task resets this one.
SweepByAnother ==
    /\ Stale
    /\ ResetStale
    /\ UNCHANGED <<job, handler, valid, submission, verification, crashes>>

-----------------------------------------------------------------------------
(* The web process.                                                        *)

\* The submission inserted the task and has not committed: an insertion of
\* another request waits for it.
Inserting == submission.stage = "read" /\ submission.status = "none"

\* POST recognitions: the member asks for the recognition.
RequestRecognition ==
    /\ valid
    /\ task.status = "none"
    /\ ~Inserting
    /\ CreateTask
    /\ UNCHANGED <<handler, valid, submission, verification, crashes>>

\* The submission's transaction links the image, inserts the task unless it
\* exists, and reads its status; nothing of it is visible yet.
SubmitRead(enabled) ==
    /\ submission.stage = "waiting"
    /\ submission' = [stage |-> "read",
                      status |-> IF enabled THEN task.status ELSE "disabled"]
    /\ UNCHANGED <<task, job, handler, valid, verification, crashes>>

\* A result that was there is compared; the job of a task that was there is
\* left to compare its own.
SubmitCommit ==
    /\ submission.stage = "read"
    /\ submission' = [submission EXCEPT !.stage = "done"]
    /\ IF submission.status = "none" THEN CreateTask
       ELSE UNCHANGED <<task, job>>
    /\ verification' = CASE submission.status = "COMPLETED" -> task.result
                         [] submission.status = "disabled" -> Disabled
                         [] OTHER -> verification
    /\ UNCHANGED <<handler, valid, crashes>>

SubmitAbort ==
    /\ submission.stage = "read"
    /\ submission' = [stage |-> "waiting", status |-> "none"]
    /\ UNCHANGED <<task, job, handler, valid, verification, crashes>>

\* The image is marked or rebuilt, the pilot deactivated or reactivated.
Revalue ==
    /\ valid' = ~valid
    /\ UNCHANGED <<task, job, handler, submission, verification, crashes>>

-----------------------------------------------------------------------------
Older(age) == IF age < StaleAfter THEN age + 1 ELSE age

Tick ==
    /\ job.state = "active" => job.age < ExpireAfter
    /\ job' = [job EXCEPT !.wait = IF @ > 0 THEN @ - 1 ELSE 0,
                          !.age = IF job.state = "active" THEN @ + 1 ELSE @]
    /\ task' = [task EXCEPT !.age = IF task.status = "RUNNING" THEN Older(@)
                                    ELSE @]
    /\ handler' = [h \in Handlers |->
                     [handler[h] EXCEPT
                        !.age = IF handler[h].stage = "idle" THEN @
                                ELSE Older(@)]]
    /\ UNCHANGED <<valid, submission, verification, crashes>>

Init ==
    /\ task = NoTask
    /\ job = NoJob
    /\ handler = [h \in Handlers |-> NoHandler]
    /\ valid = TRUE
    /\ submission = [stage |-> "waiting", status |-> "none"]
    /\ verification = 0
    /\ crashes = 0

Handle(h) ==
    \/ Sweep(h) \/ Read(h) \/ Refuse(h) \/ Claim(h) \/ ClaimLost(h)
    \/ \E answered \in BOOLEAN : Recognize(h, answered)
    \/ Store(h) \/ Fail(h) \/ Finish(h)

Next ==
    \/ \E h \in Handlers : Fetch(h) \/ Handle(h) \/ Crash(h)
    \/ Expire
    \/ SweepByAnother
    \/ RequestRecognition
    \/ \E enabled \in BOOLEAN : SubmitRead(enabled)
    \/ SubmitCommit \/ SubmitAbort
    \/ Revalue
    \/ Tick

Spec == Init /\ [][Next]_vars

\* Handlers that do not crash return or throw, however late; the queue hands
\* out due jobs and expires dead ones, and time passes.
Fairness ==
    /\ \A h \in Handlers : WF_vars(Handle(h))
    /\ WF_vars(\E h \in Handlers : Fetch(h))
    /\ WF_vars(Expire)
    /\ WF_vars(Tick)

FairSpec == Spec /\ Fairness

-----------------------------------------------------------------------------
(* Properties.                                                             *)

\* However often the job is handed out and claims are taken over, the image
\* is sent to the provider at most once per attempt the settings allow.
AttemptsBounded == task.attempts <= RetryLimit + 1

\* An ended task stays as it ended, with the result it has, whatever slow
\* handlers of earlier attempts still do.
ResultIsFinal ==
    [][task.status \in Ended =>
          task'.status = task.status /\ task'.result = task.result]_vars

\* The request is compared with the result that the task keeps, and with no
\* result of an attempt that lost its claim.
VerificationOfResult ==
    verification \in {0, Disabled}
        \/ (task.status = "COMPLETED" /\ verification = task.result)

Timely == \A h \in Handlers : handler[h].stage # "idle" => handler[h].hasJob

\* The job of a worker that died: it is handed out again when it expires.
Abandoned == job.state = "active" /\ \A h \in Handlers : ~handler[h].hasJob

\* The job or a handler that holds it will find the task queued.
FindsQueued ==
    \/ job.state = "created"
    \/ Abandoned
    \/ \E h \in Handlers :
          /\ handler[h].hasJob
          /\ \/ handler[h].stage \in {"sweep", "read", "refuse",
                                     "recognize", "store", "fail"}
             \/ handler[h].stage = "claim" /\ handler[h].number = task.attempts

\* The claim has a handler, or is stale when the next one looks for it.
FindsRunning ==
    \/ job.state = "created" /\ task.age = StaleAfter
    \/ Abandoned /\ task.age \in {job.age, StaleAfter}
    \/ \E h \in Handlers :
          /\ handler[h].hasJob
          /\ \/ handler[h].stage \in {"recognize", "store", "fail"}
             \/ handler[h].stage = "sweep" /\ task.age = StaleAfter

TakenUp ==
    task.attempts <= RetryLimit =>
        /\ task.status = "QUEUED" => FindsQueued
        /\ task.status = "RUNNING" => FindsRunning

\* If handlers return before the queue gives up their job, a task with
\* attempts left is never without a job or handler that takes it further: the
\* job does not end before the task, and never comes too early for a claim to
\* be stale.
NeverDropped == []Timely => []TakenUp

\* If handlers return before the queue gives up their job, then across
\* crashes the task ends or has no attempt left.
EventuallySettles ==
    []Timely => (task.status \in Open
                    ~> (task.status \in Ended \/ task.attempts > RetryLimit))
=============================================================================
