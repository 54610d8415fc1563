------------------------ MODULE NotificationDelivery ------------------------
(***************************************************************************)
(* One notification of the outbox for an external channel: its row, the    *)
(* jobs that point at it, the workers that handle the jobs, administrators *)
(* who retry it and the receipts of the provider.                          *)
(*                                                                         *)
(* A job runs at least once.  Its handler resets stale sends, looks for    *)
(* the delivery, claims it, calls the provider, records the outcome and,   *)
(* after that transaction, sends the job of the next attempt.  A worker    *)
(* may crash, or the database refuse a statement, between any two of       *)
(* these.  Ages and waiting times are counted in ticks.                    *)
(***************************************************************************)
EXTENDS Integers, Sequences

CONSTANTS
    Workers, Jobs, Admins,
    RetryLimit,     \* attempts after the first, from the channel's settings
    Backoff,        \* ticks until the next attempt, by attempt number
    StaleAfter,     \* age at which a send is taken to be dead
    ExpireAfter,    \* age at which the queue takes a job to be dead
    RetryDelay,     \* ticks until the queue hands out a failed job again
    JobRetries,     \* how often it does so
    Receipts,       \* receipts the provider sends for a message it accepted
    MaxCycle, MaxCrashes, MaxFailures   \* bounds

ASSUME ConstantsAssumption ==
    /\ {RetryLimit, RetryDelay, JobRetries, Receipts, MaxCycle, MaxCrashes,
        MaxFailures} \subseteq Nat
    /\ {StaleAfter, ExpireAfter} \subseteq Nat \ {0}
    /\ StaleAfter < ExpireAfter
    /\ Backoff \in [1 .. RetryLimit -> Nat]

VARIABLES
    delivery,   \* the row of NotificationDelivery
    job,        \* the queue
    worker,     \* the handler each worker runs
    admin,      \* the version each retrying administrator read, or 0
    message,    \* messages the provider accepted: their retry cycle, the
                \* receipts still to come, and whether the acceptance was
                \* recorded
    crashes, failures

vars == <<delivery, job, worker, admin, message, crashes, failures>>

Ended == {"PROVIDER_ACCEPTED", "DELIVERED", "FAILED", "UNKNOWN"}

Retryable == {"FAILED", "UNKNOWN"}

Outcomes == {"none", "accepted", "rejected", "timeout", "protocol", "expired"}

Stages == {"idle", "sweep", "find", "claim", "send", "record", "requeue",
           "finish"}

\* message 0 is no message.
Delivery == [status: {"QUEUED", "SENDING"} \cup Ended, attempts: Nat,
             cycle: 0 .. MaxCycle, version: 1 .. MaxCycle + 1,
             wait: Nat, age: 0 .. StaleAfter, message: Nat]

Job == [state: {"none", "created", "active"}, wait: Nat,
        age: 0 .. ExpireAfter, retries: 0 .. JobRetries]

Handler == [stage: Stages, job: Jobs \cup {"none"}, number: Nat,
            outcome: Outcomes, message: Nat]

TypeOK ==
    /\ delivery \in Delivery
    /\ job \in [Jobs -> Job]
    /\ worker \in [Workers -> Handler]
    /\ admin \in [Admins -> 0 .. MaxCycle + 1]
    /\ message \in Seq([cycle: 0 .. MaxCycle, receipts: 0 .. Receipts,
                         recorded: BOOLEAN])
    /\ crashes \in 0 .. MaxCrashes
    /\ failures \in 0 .. MaxFailures

-----------------------------------------------------------------------------
(* The queue.                                                              *)

NoJob == [state |-> "none", wait |-> 0, age |-> 0, retries |-> 0]

NoHandler == [stage |-> "idle", job |-> "none", number |-> 0,
              outcome |-> "none", message |-> 0]

\* A job that may be fetched after the given wait.
Enqueue(wait) ==
    \E j \in Jobs :
        /\ job[j].state = "none"
        /\ job' = [job EXCEPT ![j].state = "created", ![j].wait = wait]

\* A failed or expired job is handed out again, unless it used its retries.
FailJob(j) ==
    job' = [job EXCEPT ![j] =
              IF @.retries = JobRetries THEN NoJob
              ELSE [state |-> "created", wait |-> RetryDelay, age |-> 0,
                    retries |-> @.retries + 1]]

Go(w, stage) == worker' = [worker EXCEPT ![w].stage = stage]

Fetch(w, j) ==
    /\ worker[w].stage = "idle"
    /\ job[j].state = "created" /\ job[j].wait = 0
    /\ job' = [job EXCEPT ![j].state = "active", ![j].age = 0]
    /\ worker' = [worker EXCEPT ![w].stage = "sweep", ![w].job = j]
    /\ UNCHANGED <<delivery, admin, message, crashes, failures>>

Expire(j) ==
    /\ job[j].state = "active" /\ job[j].age = ExpireAfter
    /\ FailJob(j)
    /\ UNCHANGED <<delivery, worker, admin, message, crashes, failures>>

Finish(w) ==
    /\ worker[w].stage = "finish"
    /\ job' = [job EXCEPT ![worker[w].job] = NoJob]
    /\ worker' = [worker EXCEPT ![w] = NoHandler]
    /\ UNCHANGED <<delivery, admin, message, crashes, failures>>

-----------------------------------------------------------------------------
(* The handler of a job.                                                   *)

\* Mutant: every send is taken to be dead.
AnySend == delivery.status = "SENDING"

Stale == delivery.status = "SENDING" /\ delivery.age >= StaleAfter

\* Mutant: stale sends are not looked for.
ResetNone == UNCHANGED delivery

ResetStale ==
    delivery' = IF Stale THEN [delivery EXCEPT !.status = "QUEUED", !.age = 0]
                ELSE delivery

Sweep(w) ==
    /\ worker[w].stage = "sweep"
    /\ ResetStale
    /\ Go(w, "find")
    /\ UNCHANGED <<job, admin, message, crashes, failures>>

Due == delivery.status = "QUEUED" /\ delivery.wait = 0

\* Reads the row; the number of the attempt is the one read here.
Find(w) ==
    /\ worker[w].stage = "find"
    /\ worker' = IF Due
                 THEN [worker EXCEPT ![w].stage = "claim",
                                     ![w].number = delivery.attempts + 1]
                 ELSE [worker EXCEPT ![w].stage = "finish"]
    /\ UNCHANGED <<delivery, job, admin, message, crashes, failures>>

Unclaimed == delivery.status = "QUEUED"

\* The start of the send is the start of the handler.
Claim(w) ==
    /\ worker[w].stage = "claim"
    /\ IF Unclaimed
       THEN /\ delivery' = [delivery EXCEPT !.status = "SENDING", !.wait = 0,
                                           !.attempts = @ + 1,
                                           !.age = job[worker[w].job].age]
            /\ Go(w, "send")
       ELSE Go(w, "finish") /\ UNCHANGED delivery
    /\ UNCHANGED <<job, admin, message, crashes, failures>>

\* The provider accepts the message and names it; every other answer,
\* including none, names nothing.
Send(w, outcome) ==
    /\ worker[w].stage = "send"
    /\ outcome # "none"
    /\ IF outcome = "accepted"
       THEN message' = Append(message, [cycle |-> delivery.cycle,
                                        receipts |-> Receipts,
                                        recorded |-> FALSE])
       ELSE UNCHANGED message
    /\ worker' = [worker EXCEPT
                    ![w].stage = "record", ![w].outcome = outcome,
                    ![w].message = IF outcome = "accepted" THEN Len(message')
                                   ELSE 0]
    /\ UNCHANGED <<delivery, job, admin, crashes, failures>>

ShouldRetry(w) ==
    /\ worker[w].outcome \in {"rejected", "timeout"}
    /\ worker[w].number <= RetryLimit

\* Mutant: an accepted message ends as a local one does.
FinalStatusLocal(outcome) ==
    CASE outcome = "accepted" -> "SENT"
      [] outcome \in {"timeout", "protocol"} -> "UNKNOWN"
      [] outcome \in {"rejected", "expired"} -> "FAILED"

FinalStatus(outcome) ==
    CASE outcome = "accepted" -> "PROVIDER_ACCEPTED"
      [] outcome \in {"timeout", "protocol"} -> "UNKNOWN"
      [] outcome \in {"rejected", "expired"} -> "FAILED"

\* The backoff counts from the start of the handler.
RetryWait(w) ==
    LET left == Backoff[worker[w].number] - job[worker[w].job].age
    IN  IF left > 0 THEN left ELSE 0

\* The update names the row only: it overwrites whatever the row has become.
Record(w) ==
    /\ worker[w].stage = "record"
    /\ delivery' = [delivery EXCEPT
                      !.status = IF ShouldRetry(w) THEN "QUEUED"
                                 ELSE FinalStatus(worker[w].outcome),
                      !.wait = IF ShouldRetry(w) THEN RetryWait(w) ELSE 0,
                      !.age = 0,
                      !.message = worker[w].message]
    /\ message' = [m \in DOMAIN message |->
                     IF m = worker[w].message
                     THEN [message[m] EXCEPT !.recorded = TRUE]
                     ELSE message[m]]
    /\ Go(w, IF ShouldRetry(w) THEN "requeue" ELSE "finish")
    /\ UNCHANGED <<job, admin, crashes, failures>>

\* Mutant: the job of the next attempt may be fetched at once.
RequeueAtOnce(w) ==
    /\ worker[w].stage = "requeue"
    /\ Enqueue(0)
    /\ Go(w, "finish")
    /\ UNCHANGED <<delivery, admin, message, crashes, failures>>

\* sendAfter, after the transaction.
Requeue(w) ==
    /\ worker[w].stage = "requeue"
    /\ Enqueue(RetryWait(w))
    /\ Go(w, "finish")
    /\ UNCHANGED <<delivery, admin, message, crashes, failures>>

\* The worker dies; its job stays active until it expires.
Crash(w) ==
    /\ worker[w].stage # "idle"
    /\ crashes < MaxCrashes
    /\ crashes' = crashes + 1
    /\ worker' = [worker EXCEPT ![w] = NoHandler]
    /\ UNCHANGED <<delivery, job, admin, message, failures>>

\* A statement fails, and the handler's exception fails the job.
Throw(w) ==
    /\ worker[w].stage \notin {"idle", "send", "finish"}
    /\ failures < MaxFailures
    /\ failures' = failures + 1
    /\ FailJob(worker[w].job)
    /\ worker' = [worker EXCEPT ![w] = NoHandler]
    /\ UNCHANGED <<delivery, admin, message, crashes>>

\* The handler of another delivery resets this one.
SweepByAnother ==
    /\ Stale
    /\ ResetStale
    /\ UNCHANGED <<job, worker, admin, message, crashes, failures>>

-----------------------------------------------------------------------------
(* Administrators and the provider.                                        *)

AdminRead(a) ==
    /\ admin[a] = 0
    /\ delivery.status \in Retryable
    /\ delivery.cycle < MaxCycle
    /\ admin' = [admin EXCEPT ![a] = delivery.version]
    /\ UNCHANGED <<delivery, job, worker, message, crashes, failures>>

\* Mutant: a retry does not ask for the version that was read.
AnyVersion(a) == TRUE

VersionRead(a) == delivery.version = admin[a]

\* The retry restarts the count; the provider's message stays in the row.
AdminRetry(a) ==
    /\ admin[a] # 0
    /\ VersionRead(a)
    /\ delivery' = [delivery EXCEPT !.status = "QUEUED", !.attempts = 0,
                                   !.version = @ + 1, !.cycle = @ + 1,
                                   !.wait = 0, !.age = 0]
    /\ Enqueue(0)
    /\ admin' = [admin EXCEPT ![a] = 0]
    /\ UNCHANGED <<worker, message, crashes, failures>>

AdminConflict(a) ==
    /\ admin[a] # 0
    /\ ~VersionRead(a)
    /\ admin' = [admin EXCEPT ![a] = 0]
    /\ UNCHANGED <<delivery, job, worker, message, crashes, failures>>

\* A receipt updates the row that holds its message, if any.
Receipt(m, status) ==
    /\ message[m].receipts > 0
    /\ message' = [message EXCEPT ![m].receipts = @ - 1]
    /\ delivery' = IF delivery.message = m
                   THEN [delivery EXCEPT !.status = status]
                   ELSE delivery
    /\ UNCHANGED <<job, worker, admin, crashes, failures>>

-----------------------------------------------------------------------------
(* Time.  A handler outlives neither the claim nor the job: its only long  *)
(* step is the call to the provider, whose timeout is at most half of      *)
(* StaleAfter.                                                             *)

Less(n) == IF n > 0 THEN n - 1 ELSE 0

Tick ==
    /\ \A w \in Workers :
          worker[w].stage # "idle" => job[worker[w].job].age + 1 < StaleAfter
    /\ \A j \in Jobs : job[j].state = "active" => job[j].age < ExpireAfter
    /\ delivery' = [delivery EXCEPT
                      !.wait = Less(@),
                      !.age = IF delivery.status = "SENDING" /\ @ < StaleAfter
                              THEN @ + 1 ELSE @]
    /\ job' = [j \in Jobs |->
                 [job[j] EXCEPT !.wait = Less(@),
                                !.age = IF job[j].state = "active" THEN @ + 1
                                        ELSE @]]
    /\ UNCHANGED <<worker, admin, message, crashes, failures>>

\* The delivery and its first job are written in one transaction.
Init ==
    /\ delivery = [status |-> "QUEUED", attempts |-> 0, cycle |-> 0,
                   version |-> 1, wait |-> 0, age |-> 0, message |-> 0]
    /\ \E j \in Jobs :
          job = [i \in Jobs |-> IF i = j
                                THEN [NoJob EXCEPT !.state = "created"]
                                ELSE NoJob]
    /\ worker = [w \in Workers |-> NoHandler]
    /\ admin = [a \in Admins |-> 0]
    /\ message = <<>>
    /\ crashes = 0 /\ failures = 0

Handle(w) ==
    \/ Sweep(w) \/ Find(w) \/ Claim(w)
    \/ \E outcome \in Outcomes : Send(w, outcome)
    \/ Record(w) \/ Requeue(w) \/ Finish(w)

Next ==
    \/ \E w \in Workers, j \in Jobs : Fetch(w, j)
    \/ \E w \in Workers : Handle(w) \/ Crash(w) \/ Throw(w)
    \/ \E j \in Jobs : Expire(j)
    \/ SweepByAnother
    \/ \E a \in Admins : AdminRead(a) \/ AdminRetry(a) \/ AdminConflict(a)
    \/ \E m \in DOMAIN message, status \in {"DELIVERED", "FAILED", "UNKNOWN"} :
          Receipt(m, status)
    \/ Tick

Spec == Init /\ [][Next]_vars

\* Workers that do not crash go on, the queue hands out due jobs and expires
\* dead ones, and time passes.
Fairness ==
    /\ \A w \in Workers : WF_vars(Handle(w))
    /\ \A j \in Jobs : WF_vars(\E w \in Workers : Fetch(w, j))
    /\ \A j \in Jobs : WF_vars(Expire(j))
    /\ WF_vars(Tick)

FairSpec == Spec /\ Fairness

-----------------------------------------------------------------------------
(* Properties.                                                             *)

Sending == {w \in Workers : worker[w].stage \in {"send", "record"}}

\* However jobs are duplicated, retried and expired, at most one worker is
\* between its claim and the record of its outcome, and the row says so.
OneSender ==
    /\ \A v, w \in Sending : v = w
    /\ Sending # {} => delivery.status = "SENDING"

\* Once an acceptance is recorded, the provider gets no other message of that
\* retry cycle: only a call whose outcome was lost is made again.
AcceptedOnce ==
    \A m, n \in DOMAIN message :
        m < n /\ message[m].cycle = message[n].cycle => ~message[m].recorded

\* A delivery that ended stays so, whatever old jobs still run, until an
\* administrator retries it.
EndedStaysEnded ==
    [][delivery.status \in Ended /\ delivery'.cycle = delivery.cycle
         => delivery'.status \in Ended]_vars

\* Only a notification whose sending failed is retried by an administrator.
OnlyFailedIsRetried ==
    [][delivery'.cycle # delivery.cycle => delivery.status \in Retryable]_vars

\* The worker of the job died: the queue will expire it and hand it out again.
Abandoned(j) ==
    /\ job[j].state = "active"
    /\ \A w \in Workers : worker[w].stage # "idle" => worker[w].job # j

\* A handler of the job will find the queued delivery due.
JobFindsDue(j) ==
    \/ job[j].state = "created" /\ delivery.wait <= job[j].wait
    \/ Abandoned(j) /\ delivery.wait <= ExpireAfter - job[j].age + RetryDelay

HandlerFindsDue(w) ==
    \/ worker[w].stage \in {"sweep", "find", "claim"} /\ delivery.wait = 0
    \/ worker[w].stage = "requeue" /\ delivery.wait <= RetryWait(w)

\* A handler of the job will find the send of another one stale.
JobFindsStale(j) ==
    \/ job[j].state = "created" /\ delivery.age = StaleAfter
    \/ Abandoned(j) /\ delivery.age \in {job[j].age, StaleAfter}

HandlerFindsStale(w) == worker[w].stage = "sweep" /\ delivery.age = StaleAfter

\* No delivery is left behind: while it is queued, or its sender is gone,
\* there is a job whose handler will take it up, wherever workers died and
\* whichever jobs came too early and found nothing to do.
NeverStranded ==
    /\ delivery.status = "QUEUED" =>
           \/ \E j \in Jobs : JobFindsDue(j)
           \/ \E w \in Workers : HandlerFindsDue(w)
    /\ delivery.status = "SENDING" =>
           \/ Sending # {}
           \/ \E j \in Jobs : JobFindsStale(j)
           \/ \E w \in Workers : HandlerFindsStale(w)

\* A notification that is queued or being sent reaches an end, across crashes
\* of the worker at any point.
EventuallyEnds ==
    delivery.status \in {"QUEUED", "SENDING"} ~> delivery.status \in Ended
=============================================================================
