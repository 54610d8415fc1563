---------------------- MODULE NotificationDeliveryProofs ----------------------
(***************************************************************************)
(* Proofs about NotificationDelivery, for any number of workers, jobs,     *)
(* administrators, retries, crashes and failures: types, at most one send  *)
(* at a time, at most one recorded acceptance, and what ends stays ended.  *)
(***************************************************************************)
EXTENDS OutboxRefinement, TLAPS

-----------------------------------------------------------------------------
(* The handlers and their jobs.                                            *)

\* A handler has a job of its own, which the queue does not give up.
HandlersHoldJobs ==
    \A w \in Workers :
        worker[w].stage # "idle" =>
            /\ worker[w].job \in Jobs
            /\ job[worker[w].job].state = "active"
            /\ job[worker[w].job].age < StaleAfter
            /\ \A v \in Workers :
                   v # w /\ worker[v].stage # "idle" => worker[v].job # worker[w].job

\* What a handler has found out.
HandlersAreInformed ==
    \A w \in Workers :
        /\ worker[w].stage \in {"claim", "send", "record", "requeue"} =>
               worker[w].number >= 1
        /\ worker[w].stage = "record" => worker[w].outcome # "none"
        /\ worker[w].stage = "requeue" => ShouldRetry(w)

\* Versions count the retries of administrators.
VersionsCount ==
    /\ delivery.version = delivery.cycle + 1
    /\ \A a \in Admins : admin[a] <= MaxCycle

Shape == TypeOK /\ HandlersHoldJobs /\ HandlersAreInformed /\ VersionsCount

-----------------------------------------------------------------------------
(* The row and the messages.                                               *)

\* One handler sends, its claim is as old as its job, and it alone names the
\* last message.
SenderOwnsRow ==
    \A w \in Sending :
        /\ delivery.status = "SENDING"
        /\ delivery.age = job[worker[w].job].age
        /\ \A v \in Sending : v = w
        /\ worker[w].stage = "record" =>
               IF worker[w].outcome = "accepted"
               THEN /\ Len(message) > 0 /\ worker[w].message = Len(message)
                    /\ message[Len(message)].cycle = delivery.cycle
               ELSE worker[w].message = 0

\* An administrator retries what he read.
RetriesAreCurrent ==
    \A a \in Admins :
        /\ admin[a] <= delivery.version
        /\ admin[a] = delivery.version => delivery.status \in Retryable

\* No receipt is to come for the message of a row that is not accepted, or
\* whose acceptance was confirmed already.
NoReceiptSurprises ==
    /\ delivery.message \in 0 .. Len(message)
    /\ delivery.status # "PROVIDER_ACCEPTED" /\ delivery.message # 0 =>
           message[delivery.message].receipts = 0

\* Messages are of this cycle or an earlier one; one that is recorded ended
\* its cycle.
MessagesEndCycles ==
    \A m \in DOMAIN message :
        /\ message[m].cycle <= delivery.cycle
        /\ message[m].recorded /\ message[m].cycle = delivery.cycle =>
               delivery.status \in Ended

Order == SenderOwnsRow /\ RetriesAreCurrent /\ NoReceiptSurprises
         /\ MessagesEndCycles /\ AcceptedOnce

IInv == Shape /\ Order

-----------------------------------------------------------------------------
(* Shape.                                                                  *)

LEMMA Constants ==
    /\ RetryLimit \in Nat /\ RetryDelay \in Nat /\ JobRetries \in Nat
    /\ Receipts \in Nat /\ MaxCycle \in Nat /\ MaxCrashes \in Nat
    /\ MaxFailures \in Nat
    /\ StaleAfter \in Nat /\ StaleAfter > 0
    /\ ExpireAfter \in Nat /\ StaleAfter < ExpireAfter
    /\ \A n \in 1 .. RetryLimit : Backoff[n] \in Nat
BY ConstantsAssumption

Message == [cycle: 0 .. MaxCycle, receipts: 0 .. Receipts, recorded: BOOLEAN]

\* What the rows are made of.
LEMMA Types ==
    ASSUME Shape
    PROVE  /\ delivery.status \in {"QUEUED", "SENDING"} \cup Ended
           /\ delivery.attempts \in Nat /\ delivery.cycle \in 0 .. MaxCycle
           /\ delivery.version \in 1 .. MaxCycle + 1 /\ delivery.wait \in Nat
           /\ delivery.age \in 0 .. StaleAfter /\ delivery.message \in Nat
           /\ \A j \in Jobs : /\ job[j].state \in {"none", "created", "active"}
                              /\ job[j].wait \in Nat
                              /\ job[j].age \in 0 .. ExpireAfter
                              /\ job[j].retries \in 0 .. JobRetries
           /\ \A w \in Workers : /\ worker[w].stage \in Stages
                                 /\ worker[w].job \in Jobs \cup {"none"}
                                 /\ worker[w].number \in Nat
                                 /\ worker[w].outcome \in Outcomes
                                 /\ worker[w].message \in Nat
           /\ \A m \in 1 .. Len(message) :
                  /\ message[m].cycle \in 0 .. MaxCycle
                  /\ message[m].receipts \in 0 .. Receipts
                  /\ message[m].recorded \in BOOLEAN
           /\ Len(message) \in Nat /\ DOMAIN message = 1 .. Len(message)
<1>1. delivery \in Delivery
  BY DEF Shape, TypeOK
<1>2. /\ delivery.status \in {"QUEUED", "SENDING"} \cup Ended
      /\ delivery.attempts \in Nat /\ delivery.cycle \in 0 .. MaxCycle
      /\ delivery.version \in 1 .. MaxCycle + 1 /\ delivery.wait \in Nat
      /\ delivery.age \in 0 .. StaleAfter /\ delivery.message \in Nat
  BY <1>1 DEF Delivery
<1>3. ASSUME NEW j \in Jobs
      PROVE  /\ job[j].state \in {"none", "created", "active"}
             /\ job[j].wait \in Nat
             /\ job[j].age \in 0 .. ExpireAfter
             /\ job[j].retries \in 0 .. JobRetries
  BY DEF Shape, TypeOK, Job
<1>4. ASSUME NEW w \in Workers
      PROVE  /\ worker[w].stage \in Stages
             /\ worker[w].job \in Jobs \cup {"none"}
             /\ worker[w].number \in Nat
             /\ worker[w].outcome \in Outcomes
             /\ worker[w].message \in Nat
  BY DEF Shape, TypeOK, Handler
<1>5. /\ \A m \in 1 .. Len(message) :
             /\ message[m].cycle \in 0 .. MaxCycle
             /\ message[m].receipts \in 0 .. Receipts
             /\ message[m].recorded \in BOOLEAN
      /\ Len(message) \in Nat /\ DOMAIN message = 1 .. Len(message)
  <2>1. message \in Seq(Message)
    BY DEF Shape, TypeOK, Message
  <2>2. /\ \A m \in 1 .. Len(message) : message[m] \in Message
        /\ Len(message) \in Nat /\ DOMAIN message = 1 .. Len(message)
    BY <2>1
  <2> QED BY <2>2 DEF Message
<1> QED BY <1>2, <1>3, <1>4, <1>5

\* Assignments to one field of a row, a job or a handler.
Statuses == {"QUEUED", "SENDING"} \cup Ended

LEMMA RowWrites ==
    ASSUME NEW d \in Delivery
    PROVE  /\ \A s \in Statuses : [d EXCEPT !.status = s] \in Delivery
           /\ \A n \in Nat : /\ [d EXCEPT !.attempts = n] \in Delivery
                             /\ [d EXCEPT !.wait = n] \in Delivery
                             /\ [d EXCEPT !.message = n] \in Delivery
           /\ \A c \in 0 .. MaxCycle : [d EXCEPT !.cycle = c] \in Delivery
           /\ \A v \in 1 .. MaxCycle + 1 : [d EXCEPT !.version = v] \in Delivery
           /\ \A a \in 0 .. StaleAfter : [d EXCEPT !.age = a] \in Delivery
BY DEF Delivery, Statuses

LEMMA JobWrites ==
    ASSUME NEW d \in Job
    PROVE  /\ \A s \in {"none", "created", "active"} : [d EXCEPT !.state = s] \in Job
           /\ \A n \in Nat : [d EXCEPT !.wait = n] \in Job
           /\ \A a \in 0 .. ExpireAfter : [d EXCEPT !.age = a] \in Job
BY DEF Job

LEMMA HandlerWrites ==
    ASSUME NEW d \in Handler
    PROVE  /\ \A s \in Stages : [d EXCEPT !.stage = s] \in Handler
           /\ \A j \in Jobs : [d EXCEPT !.job = j] \in Handler
           /\ \A n \in Nat : /\ [d EXCEPT !.number = n] \in Handler
                             /\ [d EXCEPT !.message = n] \in Handler
           /\ \A o \in Outcomes : [d EXCEPT !.outcome = o] \in Handler
BY DEF Handler

\* A step of the handler of w that leaves the other handlers their jobs.
LEMMA JobsAreHeld ==
    ASSUME HandlersHoldJobs, NEW w \in Workers,
           \A v \in Workers : v # w => worker'[v] = worker[v],
           \A v \in Workers :
               worker[v].stage # "idle" /\ v # w =>
                   job'[worker[v].job] = job[worker[v].job],
           \/ worker'[w].stage = "idle"
           \/ /\ worker[w].stage # "idle" /\ worker'[w].job = worker[w].job
              /\ job'[worker[w].job] = job[worker[w].job]
    PROVE  HandlersHoldJobs'
BY DEF HandlersHoldJobs

\* The handler goes on to another stage.
LEMMA GoShape ==
    ASSUME Shape, NEW w \in Workers, NEW stage \in Stages,
           worker[w].stage # "idle", Go(w, stage),
           stage \in {"claim", "send", "record", "requeue"} => worker[w].number >= 1,
           stage = "record" => worker[w].outcome # "none",
           stage = "requeue" => ShouldRetry(w),
           \A v \in Workers :
               worker[v].stage # "idle" => job'[worker[v].job] = job[worker[v].job]
    PROVE  /\ worker' \in [Workers -> Handler]
           /\ HandlersHoldJobs' /\ HandlersAreInformed'
<1> DEFINE h == [worker[w] EXCEPT !.stage = stage]
<1>1. worker \in [Workers -> Handler] /\ worker[w] \in Handler
  BY DEF Shape, TypeOK
<1>2. h \in Handler /\ h.stage = stage /\ h.job = worker[w].job
      /\ h.number = worker[w].number /\ h.outcome = worker[w].outcome
  BY <1>1 DEF Handler
<1>3. worker' = [worker EXCEPT ![w] = h]
  BY DEF Go
<1> HIDE DEF h
<1>4. \A v \in Workers : worker'[v] = IF v = w THEN h ELSE worker[v]
  BY <1>1, <1>3
<1>5. worker' \in [Workers -> Handler]
  BY <1>1, <1>2, <1>3
<1>6. HandlersHoldJobs'
  BY <1>2, <1>4, JobsAreHeld DEF Shape
<1>7. HandlersAreInformed'
  BY <1>2, <1>4 DEF Shape, HandlersAreInformed, ShouldRetry
<1> QED BY <1>5, <1>6, <1>7

\* The handler ends.
LEMMA IdleShape ==
    ASSUME Shape, NEW w \in Workers, worker' = [worker EXCEPT ![w] = NoHandler],
           \A v \in Workers :
               worker[v].stage # "idle" /\ v # w =>
                   job'[worker[v].job] = job[worker[v].job]
    PROVE  /\ worker' \in [Workers -> Handler]
           /\ HandlersHoldJobs' /\ HandlersAreInformed'
<1>1. NoHandler \in Handler /\ NoHandler.stage = "idle"
  BY DEF NoHandler, Handler, Stages, Outcomes
<1>2. \A v \in Workers : worker'[v] = IF v = w THEN NoHandler ELSE worker[v]
  BY DEF Shape, TypeOK
<1>3. worker' \in [Workers -> Handler]
  BY <1>1 DEF Shape, TypeOK
<1>4. HandlersHoldJobs'
  BY <1>1, <1>2, JobsAreHeld DEF Shape
<1>5. HandlersAreInformed'
  BY <1>1, <1>2 DEF Shape, HandlersAreInformed, ShouldRetry
<1> QED BY <1>3, <1>4, <1>5

\* The queue takes a failed job back, or gives it up.
LEMMA FailShape ==
    ASSUME Shape, NEW j \in Jobs, FailJob(j)
    PROVE  /\ job' \in [Jobs -> Job]
           /\ \A i \in Jobs : i # j => job'[i] = job[i]
<1> DEFINE again == [state |-> "created", wait |-> RetryDelay, age |-> 0,
                     retries |-> job[j].retries + 1]
<1>1. NoJob \in Job
  BY Constants DEF NoJob, Job
<1>2. job[j].retries # JobRetries => again \in Job
  <2>1. job[j].retries \in 0 .. JobRetries
    BY Types
  <2>2. job[j].retries # JobRetries => job[j].retries + 1 \in 0 .. JobRetries
    BY <2>1, Constants
  <2>3. RetryDelay \in Nat /\ 0 \in 0 .. ExpireAfter
    BY Constants
  <2> QED BY <2>2, <2>3 DEF Job
<1>3. job' = [job EXCEPT ![j] = IF job[j].retries = JobRetries THEN NoJob ELSE again]
  BY DEF FailJob
<1> HIDE DEF again
<1> QED BY <1>1, <1>2, <1>3 DEF Shape, TypeOK

\* A new job is nobody's yet.
LEMMA EnqueueShape ==
    ASSUME Shape, NEW wait \in Nat, Enqueue(wait)
    PROVE  /\ job' \in [Jobs -> Job]
           /\ \A v \in Workers :
                  worker[v].stage # "idle" => job'[worker[v].job] = job[worker[v].job]
<1>1. PICK j \in Jobs :
          job[j].state = "none"
          /\ job' = [job EXCEPT ![j].state = "created", ![j].wait = wait]
  BY DEF Enqueue
<1>2. job \in [Jobs -> Job]
  BY DEF Shape, TypeOK
<1>3. [[job[j] EXCEPT !.state = "created"] EXCEPT !.wait = wait] \in Job
  BY <1>2 DEF Job
<1>4. \A i \in Jobs : i # j => job'[i] = job[i]
  BY <1>1, <1>2
<1>5. job' \in [Jobs -> Job]
  BY <1>1, <1>2, <1>3
<1>6. \A v \in Workers : worker[v].stage # "idle" =>
          worker[v].job \in Jobs /\ worker[v].job # j
  BY <1>1 DEF Shape, HandlersHoldJobs
<1> QED BY <1>4, <1>5, <1>6

\* The row keeps its version.
LEMMA VersionKept ==
    ASSUME Shape, UNCHANGED admin, delivery'.version = delivery.version,
           delivery'.cycle = delivery.cycle
    PROVE  VersionsCount'
BY DEF Shape, VersionsCount

\* A stale send is queued again.
LEMMA ResetShape ==
    ASSUME Shape, ResetStale
    PROVE  /\ delivery' \in Delivery /\ delivery'.version = delivery.version
           /\ delivery'.cycle = delivery.cycle
<1>1. delivery \in Delivery
  BY DEF Shape, TypeOK
<1> DEFINE queued == [delivery EXCEPT !.status = "QUEUED"]
           reset == [queued EXCEPT !.age = 0]
<1>2. queued \in Delivery
  BY <1>1, RowWrites DEF Statuses
<1>3. reset.version = delivery.version /\ reset.cycle = delivery.cycle
  BY <1>1 DEF Delivery
<1>4. reset \in Delivery
  <2> HIDE DEF queued
  <2> QED BY <1>2, Constants, RowWrites
<1>5. delivery' = reset \/ delivery' = delivery
  BY DEF ResetStale
<1> HIDE DEF reset
<1> QED BY <1>1, <1>3, <1>4, <1>5

LEMMA FetchShape ==
    ASSUME Shape, NEW w \in Workers, NEW j \in Jobs, Fetch(w, j)
    PROVE  Shape'
<1> DEFINE h == [[worker[w] EXCEPT !.stage = "sweep"] EXCEPT !.job = j]
           active == [job[j] EXCEPT !.state = "active"]
           k == [active EXCEPT !.age = 0]
<1>1. worker \in [Workers -> Handler] /\ worker[w] \in Handler
      /\ job \in [Jobs -> Job] /\ job[j] \in Job
  BY DEF Shape, TypeOK
<1>2. h \in Handler /\ h.stage = "sweep" /\ h.job = j
  BY <1>1 DEF Handler, Stages
<1>3. k \in Job /\ k.state = "active" /\ k.age = 0
  <2>1. active \in Job
    BY <1>1, JobWrites
  <2>2. k.state = "active" /\ k.age = 0
    BY <1>1 DEF Job
  <2>3. 0 \in 0 .. ExpireAfter
    BY Constants
  <2>4. k \in Job
    <3> HIDE DEF active
    <3> QED BY <2>1, <2>3, JobWrites
  <2> QED BY <2>2, <2>4
<1>4. worker' = [worker EXCEPT ![w] = h] /\ job' = [job EXCEPT ![j] = k]
  BY DEF Fetch
<1> HIDE DEF h, k
<1>5. worker' \in [Workers -> Handler] /\ job' \in [Jobs -> Job]
  BY <1>1, <1>2, <1>3, <1>4
<1>6. \A v \in Workers : worker'[v] = IF v = w THEN h ELSE worker[v]
  BY <1>1, <1>4
<1>7. \A i \in Jobs : job'[i] = IF i = j THEN k ELSE job[i]
  BY <1>1, <1>4
<1>8. \A v \in Workers : worker[v].stage # "idle" => worker[v].job # j
  BY DEF Fetch, Shape, HandlersHoldJobs
<1>9. worker[w].stage = "idle"
  BY DEF Fetch
<1>10. HandlersHoldJobs'
  BY <1>2, <1>3, <1>6, <1>7, <1>8, <1>9, Constants DEF Shape, HandlersHoldJobs
<1>11. HandlersAreInformed'
  BY <1>2, <1>6 DEF Shape, HandlersAreInformed, ShouldRetry
<1>12. VersionsCount'
  BY VersionKept DEF Fetch
<1> QED BY <1>5, <1>10, <1>11, <1>12 DEF Fetch, Shape, TypeOK

LEMMA ExpireShape ==
    ASSUME Shape, NEW j \in Jobs, Expire(j)
    PROVE  Shape'
<1>1. job' \in [Jobs -> Job] /\ \A i \in Jobs : i # j => job'[i] = job[i]
  BY FailShape DEF Expire
<1>2. \A v \in Workers : worker[v].stage # "idle" =>
          worker[v].job \in Jobs /\ worker[v].job # j
  BY Constants, Types DEF Expire, Shape, HandlersHoldJobs
<1>3. HandlersHoldJobs'
  BY <1>1, <1>2 DEF Expire, Shape, HandlersHoldJobs
<1>4. HandlersAreInformed' /\ VersionsCount'
  BY DEF Expire, Shape, HandlersAreInformed, ShouldRetry, VersionsCount
<1> QED BY <1>1, <1>3, <1>4 DEF Expire, Shape, TypeOK

LEMMA EndShape ==
    ASSUME Shape, NEW w \in Workers, Finish(w) \/ Throw(w) \/ Crash(w)
    PROVE  Shape'
<1>1. worker' = [worker EXCEPT ![w] = NoHandler] /\ worker[w].stage # "idle"
  BY DEF Finish, Throw, Crash
<1>2. worker[w].job \in Jobs
      /\ \A v \in Workers : worker[v].stage # "idle" /\ v # w =>
             worker[v].job \in Jobs /\ worker[v].job # worker[w].job
  BY <1>1 DEF Shape, HandlersHoldJobs
<1>3. job' \in [Jobs -> Job]
      /\ \A i \in Jobs : i # worker[w].job => job'[i] = job[i]
  <2>1. CASE Finish(w)
    <3>1. NoJob \in Job
      BY Constants DEF NoJob, Job
    <3> QED BY <1>2, <2>1, <3>1 DEF Finish, Shape, TypeOK
  <2>2. CASE Throw(w)
    BY <1>2, <2>2, FailShape DEF Throw
  <2>3. CASE Crash(w)
    BY <2>3 DEF Crash, Shape, TypeOK
  <2> QED BY <2>1, <2>2, <2>3
<1>4. /\ worker' \in [Workers -> Handler]
      /\ HandlersHoldJobs' /\ HandlersAreInformed'
  BY <1>1, <1>2, <1>3, IdleShape
<1>5. delivery' = delivery /\ admin' = admin /\ message' = message
      /\ crashes' \in 0 .. MaxCrashes /\ failures' \in 0 .. MaxFailures
  BY Constants DEF Finish, Throw, Crash, Shape, TypeOK
<1>6. VersionsCount'
  BY <1>5, VersionKept
<1> QED BY <1>3, <1>4, <1>5, <1>6 DEF Shape, TypeOK

\* Looking for stale sends, for the delivery, and claiming it.
LEMMA SweepShape ==
    ASSUME Shape, NEW w \in Workers, Sweep(w)
    PROVE  Shape'
<1>1. /\ worker' \in [Workers -> Handler]
      /\ HandlersHoldJobs' /\ HandlersAreInformed'
  BY GoShape DEF Sweep, Stages
<1>2. delivery' \in Delivery /\ VersionsCount'
  BY ResetShape, VersionKept DEF Sweep
<1> QED BY <1>1, <1>2 DEF Sweep, Shape, TypeOK

LEMMA FindShape ==
    ASSUME Shape, NEW w \in Workers, Find(w)
    PROVE  Shape'
<1> DEFINE claim == [worker[w] EXCEPT !.stage = "claim"]
           found == [claim EXCEPT !.number = delivery.attempts + 1]
           other == [worker[w] EXCEPT !.stage = "finish"]
<1>1. worker \in [Workers -> Handler] /\ worker[w] \in Handler
  BY DEF Shape, TypeOK
<1>2. delivery.attempts \in Nat
  BY Types
<1>3. found \in Handler /\ found.stage = "claim" /\ found.job = worker[w].job
      /\ found.number >= 1
  <2>1. claim \in Handler
    BY <1>1, HandlerWrites DEF Stages
  <2>2. found.stage = "claim" /\ found.job = worker[w].job /\ found.number >= 1
    BY <1>1, <1>2 DEF Handler
  <2>3. delivery.attempts + 1 \in Nat
    BY <1>2
  <2> HIDE DEF claim
  <2>4. found \in Handler
    BY <2>1, <2>3, HandlerWrites
  <2> QED BY <2>2, <2>4
<1>4. other \in Handler /\ other.stage = "finish" /\ other.job = worker[w].job
  BY <1>1 DEF Handler, Stages
<1>5. PICK h \in {found, other} : worker' = [worker EXCEPT ![w] = h]
  BY DEF Find
<1>6. h \in Handler /\ h.stage \in {"claim", "finish"} /\ h.job = worker[w].job
      /\ (h.stage = "claim" => h.number >= 1)
  BY <1>3, <1>4, <1>5
<1> HIDE DEF found, other
<1>7. \A v \in Workers : worker'[v] = IF v = w THEN h ELSE worker[v]
  BY <1>1, <1>5
<1>8. worker' \in [Workers -> Handler]
  BY <1>1, <1>5, <1>6
<1>9. HandlersHoldJobs'
  BY <1>6, <1>7, JobsAreHeld DEF Find, Shape
<1>10. HandlersAreInformed'
  BY <1>6, <1>7 DEF Shape, HandlersAreInformed, ShouldRetry
<1>11. VersionsCount'
  BY VersionKept DEF Find
<1> QED BY <1>8, <1>9, <1>10, <1>11 DEF Find, Shape, TypeOK

LEMMA ClaimShape ==
    ASSUME Shape, NEW w \in Workers, Claim(w)
    PROVE  Shape'
<1>1. worker[w].stage = "claim" /\ worker[w].number >= 1
      /\ job[worker[w].job].age \in 0 .. StaleAfter
  <2>1. worker[w].stage = "claim"
    BY DEF Claim
  <2>2. worker[w].number >= 1
    BY <2>1 DEF Shape, HandlersAreInformed
  <2>3. worker[w].job \in Jobs /\ job[worker[w].job].age < StaleAfter
    BY <2>1 DEF Shape, HandlersHoldJobs
  <2>4. job[worker[w].job].age \in 0 .. StaleAfter
    BY <2>3, Types, Constants
  <2> QED BY <2>1, <2>2, <2>4
<1>2. /\ worker' \in [Workers -> Handler]
      /\ HandlersHoldJobs' /\ HandlersAreInformed'
  <2>1. \A v \in Workers :
            worker[v].stage # "idle" => job'[worker[v].job] = job[worker[v].job]
    BY DEF Claim
  <2>2. CASE Go(w, "send")
    BY <1>1, <2>1, <2>2, GoShape DEF Stages
  <2>3. CASE Go(w, "finish")
    BY <1>1, <2>1, <2>3, GoShape DEF Stages
  <2> QED BY <2>2, <2>3 DEF Claim
<1>3. /\ delivery' \in Delivery /\ delivery'.version = delivery.version
      /\ delivery'.cycle = delivery.cycle
  <2> DEFINE age == job[worker[w].job].age
             a == [delivery EXCEPT !.status = "SENDING"]
             b == [a EXCEPT !.wait = 0]
             c == [b EXCEPT !.attempts = delivery.attempts + 1]
             claimed == [c EXCEPT !.age = age]
  <2>1. delivery \in Delivery /\ delivery.attempts + 1 \in Nat
    BY Types DEF Shape, TypeOK
  <2>2. age \in 0 .. StaleAfter
    BY <1>1
  <2>3. delivery' = claimed \/ delivery' = delivery
    BY DEF Claim
  <2> HIDE DEF age
  <2>4. claimed.version = delivery.version /\ claimed.cycle = delivery.cycle
    BY <2>1 DEF Delivery
  <2>5. claimed \in Delivery
    <3>1. a \in Delivery
      BY <2>1, RowWrites DEF Statuses
    <3>2. b \in Delivery
      <4> HIDE DEF a
      <4> QED BY <3>1, RowWrites
    <3>3. c \in Delivery
      <4> HIDE DEF b
      <4> QED BY <2>1, <3>2, RowWrites
    <3> HIDE DEF c
    <3> QED BY <2>2, <3>3, RowWrites
  <2> HIDE DEF claimed
  <2> QED BY <2>1, <2>3, <2>4, <2>5
<1>4. VersionsCount'
  BY <1>3, VersionKept DEF Claim
<1> QED BY <1>2, <1>3, <1>4 DEF Claim, Shape, TypeOK

\* The handler goes on knowing more.
LEMMA StepShape ==
    ASSUME Shape, NEW w \in Workers, NEW h \in Handler,
           worker[w].stage # "idle", worker' = [worker EXCEPT ![w] = h],
           h.job = worker[w].job,
           h.stage \in {"claim", "send", "record", "requeue"} => h.number >= 1,
           h.stage = "record" => h.outcome # "none",
           h.stage = "requeue" =>
               h.outcome \in {"rejected", "timeout"} /\ h.number <= RetryLimit,
           \A v \in Workers :
               worker[v].stage # "idle" => job'[worker[v].job] = job[worker[v].job]
    PROVE  /\ worker' \in [Workers -> Handler]
           /\ HandlersHoldJobs' /\ HandlersAreInformed'
<1>1. worker \in [Workers -> Handler]
  BY DEF Shape, TypeOK
<1>2. \A v \in Workers : worker'[v] = IF v = w THEN h ELSE worker[v]
  BY <1>1
<1>3. worker' \in [Workers -> Handler]
  BY <1>1
<1>4. HandlersHoldJobs'
  BY <1>2, JobsAreHeld DEF Shape
<1>5. HandlersAreInformed'
  BY <1>2 DEF Shape, HandlersAreInformed, ShouldRetry
<1> QED BY <1>3, <1>4, <1>5

\* The provider answers, or does not.
LEMMA SendShape ==
    ASSUME Shape, NEW w \in Workers, NEW outcome \in Outcomes, Send(w, outcome)
    PROVE  Shape'
<1> DEFINE named == IF outcome = "accepted" THEN Len(message') ELSE 0
           new == [cycle |-> delivery.cycle, receipts |-> Receipts, recorded |-> FALSE]
           a == [worker[w] EXCEPT !.stage = "record"]
           b == [a EXCEPT !.outcome = outcome]
           h == [b EXCEPT !.message = named]
<1>1. message \in Seq(Message) /\ worker[w] \in Handler
  BY DEF Shape, TypeOK, Message
<1>2. new \in Message
  BY Types, Constants DEF Message
<1>3. message' = Append(message, new) \/ message' = message
  BY DEF Send
<1>4. message' \in Seq(Message)
  <2> HIDE DEF new
  <2> QED BY <1>1, <1>2, <1>3
<1>5. named \in Nat
  BY <1>4
<1>6. h.stage = "record" /\ h.job = worker[w].job /\ h.number = worker[w].number
      /\ h.outcome = outcome
  BY <1>1 DEF Handler
<1>7. a \in Handler
  BY <1>1, HandlerWrites DEF Stages
<1>8. b \in Handler
  <2> HIDE DEF a
  <2> QED BY <1>7, HandlerWrites
<1>9. h \in Handler
  <2> HIDE DEF b, named
  <2> QED BY <1>5, <1>8, HandlerWrites
<1>10. worker' = [worker EXCEPT ![w] = h] /\ worker[w].stage = "send"
       /\ outcome # "none" /\ UNCHANGED <<delivery, job, admin, crashes, failures>>
  BY DEF Send
<1>11. worker[w].number >= 1
  BY <1>10 DEF Shape, HandlersAreInformed
<1> HIDE DEF h
<1>12. /\ worker' \in [Workers -> Handler]
       /\ HandlersHoldJobs' /\ HandlersAreInformed'
  BY <1>6, <1>9, <1>10, <1>11, StepShape
<1>13. VersionsCount'
  BY <1>10, VersionKept
<1> QED BY <1>4, <1>10, <1>12, <1>13 DEF Shape, TypeOK, Message

\* The next attempt is in the future.
LEMMA WaitIsNat ==
    ASSUME Shape, NEW w \in Workers, worker[w].stage \in {"record", "requeue"},
           ShouldRetry(w)
    PROVE  RetryWait(w) \in Nat
<1>1. worker[w].number \in 1 .. RetryLimit
  BY Types, Constants DEF ShouldRetry, Shape, HandlersAreInformed
<1>2. Backoff[worker[w].number] \in Nat
  BY <1>1, Constants
<1>3. worker[w].job \in Jobs
  BY DEF Shape, HandlersHoldJobs
<1>4. job[worker[w].job].age \in Nat
  BY <1>3, Types, Constants
<1> QED BY <1>2, <1>4 DEF RetryWait

LEMMA RecordShape ==
    ASSUME Shape, NEW w \in Workers, Record(w)
    PROVE  Shape'
<1> DEFINE status == IF ShouldRetry(w) THEN "QUEUED" ELSE FinalStatus(worker[w].outcome)
           wait == IF ShouldRetry(w) THEN RetryWait(w) ELSE 0
           a == [delivery EXCEPT !.status = status]
           b == [a EXCEPT !.wait = wait]
           c == [b EXCEPT !.age = 0]
           d == [c EXCEPT !.message = worker[w].message]
<1>1. worker[w].stage = "record"
  BY DEF Record
<1>2. status \in Statuses
  <2>1. worker[w].outcome \in Outcomes \ {"none"}
    BY <1>1, Types DEF Shape, HandlersAreInformed
  <2>2. FinalStatus(worker[w].outcome) \in Statuses
    BY <2>1 DEF Outcomes, FinalStatus, Statuses, Ended
  <2> QED BY <2>2 DEF Statuses
<1>3. wait \in Nat
  BY <1>1, WaitIsNat
<1>4. worker[w].message \in Nat /\ 0 \in 0 .. StaleAfter /\ delivery \in Delivery
  BY Types, Constants DEF Shape, TypeOK
<1>5. d.version = delivery.version /\ d.cycle = delivery.cycle
  BY <1>4 DEF Delivery
<1>6. a \in Delivery
  <2> HIDE DEF status
  <2> QED BY <1>2, <1>4, RowWrites
<1>7. b \in Delivery
  <2> HIDE DEF a, wait
  <2> QED BY <1>3, <1>6, RowWrites
<1>8. c \in Delivery
  <2> HIDE DEF b
  <2> QED BY <1>4, <1>7, RowWrites
<1>9. d \in Delivery
  <2> HIDE DEF c
  <2> QED BY <1>4, <1>8, RowWrites
<1>10. delivery' = d
  BY DEF Record
<1>11. message' \in Seq(Message)
  <2>1. message \in Seq(Message)
    BY DEF Shape, TypeOK, Message
  <2>2. \A m \in DOMAIN message :
            /\ message[m] \in Message
            /\ [message[m] EXCEPT !.recorded = TRUE] \in Message
    <3>1. \A m \in DOMAIN message : message[m] \in Message
      BY <2>1
    <3>2. \A x \in Message : [x EXCEPT !.recorded = TRUE] \in Message
      BY DEF Message
    <3> QED BY <3>1, <3>2
  <2>3. message' \in [1 .. Len(message) -> Message]
    BY <2>1, <2>2 DEF Record
  <2> QED BY <2>1, <2>3
<1> HIDE DEF d
<1>12. UNCHANGED <<job, admin, crashes, failures>>
  BY DEF Record
<1>13. /\ worker' \in [Workers -> Handler]
       /\ HandlersHoldJobs' /\ HandlersAreInformed'
  <2>1. CASE ShouldRetry(w)
    <3>1. Go(w, "requeue") /\ worker[w].number >= 1
      BY <1>1, <2>1 DEF Record, Shape, HandlersAreInformed
    <3> QED BY <1>1, <1>12, <2>1, <3>1, GoShape DEF Stages
  <2>2. CASE ~ShouldRetry(w)
    <3>1. Go(w, "finish")
      BY <2>2 DEF Record
    <3> QED BY <1>1, <1>12, <3>1, GoShape DEF Stages
  <2> QED BY <2>1, <2>2
<1>14. VersionsCount'
  BY <1>5, <1>10, <1>12, VersionKept
<1> QED BY <1>9, <1>10, <1>11, <1>12, <1>13, <1>14 DEF Shape, TypeOK, Message

LEMMA RequeueShape ==
    ASSUME Shape, NEW w \in Workers, Requeue(w)
    PROVE  Shape'
<1>1. worker[w].stage = "requeue" /\ ShouldRetry(w)
  BY DEF Requeue, Shape, HandlersAreInformed
<1>2. /\ job' \in [Jobs -> Job]
      /\ \A v \in Workers :
             worker[v].stage # "idle" => job'[worker[v].job] = job[worker[v].job]
  BY <1>1, WaitIsNat, EnqueueShape DEF Requeue
<1>3. /\ worker' \in [Workers -> Handler]
      /\ HandlersHoldJobs' /\ HandlersAreInformed'
  BY <1>1, <1>2, GoShape DEF Requeue, Stages
<1>4. VersionsCount'
  BY VersionKept DEF Requeue
<1> QED BY <1>2, <1>3, <1>4 DEF Requeue, Shape, TypeOK

LEMMA SweepByAnotherShape ==
    ASSUME Shape, SweepByAnother
    PROVE  Shape'
<1>1. delivery' \in Delivery /\ VersionsCount'
  BY ResetShape, VersionKept DEF SweepByAnother
<1>2. HandlersHoldJobs' /\ HandlersAreInformed'
  BY DEF SweepByAnother, Shape, HandlersHoldJobs, HandlersAreInformed, ShouldRetry
<1> QED BY <1>1, <1>2 DEF SweepByAnother, Shape, TypeOK

\* Administrators.
LEMMA AdminReadShape ==
    ASSUME Shape, NEW a \in Admins, AdminRead(a) \/ AdminConflict(a)
    PROVE  Shape'
<1> DEFINE v == IF AdminRead(a) THEN delivery.version ELSE 0
<1>1. admin' = [admin EXCEPT ![a] = v] /\ admin \in [Admins -> 0 .. MaxCycle + 1]
  BY DEF AdminRead, AdminConflict, Shape, TypeOK
<1>2. v \in 0 .. MaxCycle + 1 /\ v <= MaxCycle
  <2>1. AdminRead(a) => delivery.cycle < MaxCycle
    BY DEF AdminRead
  <2> QED BY <2>1, Types, Constants DEF Shape, VersionsCount
<1> HIDE DEF v
<1>3. admin' \in [Admins -> 0 .. MaxCycle + 1]
  BY <1>1, <1>2
<1>4. UNCHANGED <<delivery, job, worker, message, crashes, failures>>
  BY DEF AdminRead, AdminConflict
<1>5. VersionsCount'
  BY <1>1, <1>2, <1>4 DEF Shape, VersionsCount
<1>6. HandlersHoldJobs' /\ HandlersAreInformed'
  BY <1>4 DEF Shape, HandlersHoldJobs, HandlersAreInformed, ShouldRetry
<1> QED BY <1>3, <1>4, <1>5, <1>6 DEF Shape, TypeOK

LEMMA AdminRetryShape ==
    ASSUME Shape, NEW x \in Admins, AdminRetry(x)
    PROVE  /\ Shape'
           /\ delivery'.status = "QUEUED" /\ delivery'.message = delivery.message
           /\ delivery'.cycle = delivery.cycle + 1
           /\ delivery'.version = delivery.version + 1
<1> DEFINE a == [delivery EXCEPT !.status = "QUEUED"]
           b == [a EXCEPT !.attempts = 0]
           c == [b EXCEPT !.version = delivery.version + 1]
           d == [c EXCEPT !.cycle = delivery.cycle + 1]
           e == [d EXCEPT !.wait = 0]
           f == [e EXCEPT !.age = 0]
<1>1. delivery' = f
  BY DEF AdminRetry
<1>2. delivery \in Delivery /\ 0 \in 0 .. StaleAfter
  BY Constants DEF Shape, TypeOK
<1>3. delivery.version + 1 \in 1 .. MaxCycle + 1 /\ delivery.cycle + 1 \in 0 .. MaxCycle
  <2>1. admin[x] = delivery.version
    BY DEF AdminRetry, VersionRead
  <2> QED BY <2>1, Types, Constants DEF Shape, VersionsCount
<1>4. f.status = "QUEUED" /\ f.message = delivery.message
      /\ f.cycle = delivery.cycle + 1 /\ f.version = delivery.version + 1
  BY <1>2 DEF Delivery
<1>5. a \in Delivery
  BY <1>2, RowWrites DEF Statuses
<1>6. b \in Delivery
  <2> HIDE DEF a
  <2> QED BY <1>5, RowWrites
<1>7. c \in Delivery
  <2> HIDE DEF b
  <2> QED BY <1>3, <1>6, RowWrites
<1>8. d \in Delivery
  <2> HIDE DEF c
  <2> QED BY <1>3, <1>7, RowWrites
<1>9. e \in Delivery
  <2> HIDE DEF d
  <2> QED BY <1>8, RowWrites
<1>10. f \in Delivery
  <2> HIDE DEF e
  <2> QED BY <1>2, <1>9, RowWrites
<1> HIDE DEF f
<1>11. /\ job' \in [Jobs -> Job]
       /\ \A v \in Workers :
              worker[v].stage # "idle" => job'[worker[v].job] = job[worker[v].job]
  BY EnqueueShape DEF AdminRetry
<1>12. admin' = [admin EXCEPT ![x] = 0] /\ UNCHANGED <<worker, message, crashes, failures>>
  BY DEF AdminRetry
<1>13. HandlersHoldJobs' /\ HandlersAreInformed'
  BY <1>11, <1>12 DEF Shape, HandlersHoldJobs, HandlersAreInformed, ShouldRetry
<1>14. admin' \in [Admins -> 0 .. MaxCycle + 1]
       /\ \A y \in Admins : admin'[y] <= MaxCycle
  BY <1>12, Constants DEF Shape, TypeOK, VersionsCount
<1>15. VersionsCount'
  BY <1>1, <1>4, <1>14 DEF Shape, VersionsCount
<1>16. Shape'
  BY <1>1, <1>10, <1>11, <1>12, <1>13, <1>14, <1>15 DEF Shape, TypeOK
<1> QED BY <1>1, <1>4, <1>16

\* The provider.
LEMMA ReceiptShape ==
    ASSUME Shape, NEW m \in DOMAIN message,
           NEW status \in {"DELIVERED", "FAILED", "UNKNOWN"}, Receipt(m, status)
    PROVE  Shape'
<1> DEFINE row == [delivery EXCEPT !.status = status]
           less == [message[m] EXCEPT !.receipts = message[m].receipts - 1]
<1>1. message \in Seq(Message) /\ delivery \in Delivery
  BY DEF Shape, TypeOK, Message
<1>2. row \in Delivery
  BY <1>1, RowWrites DEF Statuses, Ended
<1>3. row.version = delivery.version /\ row.cycle = delivery.cycle
  BY <1>1 DEF Delivery
<1>4. less \in Message
  <2>1. message[m] \in Message
    BY <1>1
  <2>2. message[m].receipts - 1 \in 0 .. Receipts
    BY <2>1, Constants DEF Receipt, Message
  <2>3. \A x \in Message, n \in 0 .. Receipts : [x EXCEPT !.receipts = n] \in Message
    BY DEF Message
  <2> QED BY <2>1, <2>2, <2>3
<1>5. message' = [message EXCEPT ![m] = less] /\ delivery' \in {row, delivery}
      /\ UNCHANGED <<job, worker, admin, crashes, failures>>
  BY DEF Receipt
<1> HIDE DEF row, less
<1>6. message' \in Seq(Message) /\ delivery' \in Delivery
  BY <1>1, <1>2, <1>4, <1>5
<1>7. VersionsCount'
  BY <1>3, <1>5, VersionKept
<1>8. HandlersHoldJobs' /\ HandlersAreInformed'
  BY <1>5 DEF Shape, HandlersHoldJobs, HandlersAreInformed, ShouldRetry
<1> QED BY <1>5, <1>6, <1>7, <1>8 DEF Shape, TypeOK, Message

\* Time.
LEMMA TickShape ==
    ASSUME Shape, Tick
    PROVE  Shape'
<1> DEFINE aged(d) == IF delivery.status = "SENDING" /\ d < StaleAfter THEN d + 1 ELSE d
           waited == [delivery EXCEPT !.wait = Less(delivery.wait)]
           row == [waited EXCEPT !.age = aged(delivery.age)]
           older(j) == IF job[j].state = "active" THEN job[j].age + 1 ELSE job[j].age
           sooner(j) == [job[j] EXCEPT !.wait = Less(job[j].wait)]
           next(j) == [sooner(j) EXCEPT !.age = older(j)]
<1>1. delivery \in Delivery /\ job \in [Jobs -> Job]
  BY DEF Shape, TypeOK
<1>2. \A n \in Nat : Less(n) \in Nat
  BY DEF Less
<1>3. waited \in Delivery
  BY <1>1, <1>2, Types, RowWrites
<1>4. aged(delivery.age) \in 0 .. StaleAfter
  BY Types, Constants
<1>5. delivery' = row
  BY DEF Tick
<1>6. row.version = delivery.version /\ row.cycle = delivery.cycle
  BY <1>1 DEF Delivery
<1>7. row \in Delivery
  <2> HIDE DEF waited, aged
  <2> QED BY <1>3, <1>4, RowWrites
<1>8. ASSUME NEW j \in Jobs
      PROVE  next(j) \in Job /\ next(j).state = job[j].state /\ next(j).age = older(j)
  <2>1. sooner(j) \in Job
    BY <1>1, <1>2, Types, JobWrites
  <2>2. next(j).state = job[j].state /\ next(j).age = older(j)
    BY <1>1 DEF Job
  <2>3. older(j) \in 0 .. ExpireAfter
    <3>1. job[j].age \in 0 .. ExpireAfter
      BY Types
    <3>2. job[j].state = "active" => job[j].age < ExpireAfter
      BY DEF Tick
    <3> QED BY <3>1, <3>2, Constants
  <2>4. next(j) \in Job
    <3> HIDE DEF sooner, older
    <3> QED BY <2>1, <2>3, JobWrites
  <2> QED BY <2>2, <2>4
<1>9. job' = [j \in Jobs |-> next(j)]
  BY DEF Tick
<1> HIDE DEF row, next, older
<1>10. job' \in [Jobs -> Job]
  BY <1>8, <1>9
<1>11. UNCHANGED <<worker, admin, message, crashes, failures>>
  BY DEF Tick
<1>12. HandlersHoldJobs'
  <2> SUFFICES ASSUME NEW w \in Workers, worker[w].stage # "idle"
               PROVE  /\ worker[w].job \in Jobs
                      /\ job'[worker[w].job].state = "active"
                      /\ job'[worker[w].job].age < StaleAfter
                      /\ \A v \in Workers :
                             v # w /\ worker[v].stage # "idle" =>
                                 worker[v].job # worker[w].job
    BY <1>11 DEF HandlersHoldJobs
  <2>1. /\ worker[w].job \in Jobs
        /\ job[worker[w].job].state = "active"
        /\ \A v \in Workers :
               v # w /\ worker[v].stage # "idle" => worker[v].job # worker[w].job
    BY DEF Shape, HandlersHoldJobs
  <2>2. job[worker[w].job].age + 1 < StaleAfter
    BY DEF Tick
  <2>3. job'[worker[w].job].age = job[worker[w].job].age + 1
    BY <1>8, <1>9, <2>1 DEF older
  <2>4. job'[worker[w].job].state = "active"
    BY <1>8, <1>9, <2>1
  <2> QED BY <2>1, <2>2, <2>3, <2>4
<1>13. HandlersAreInformed'
  BY <1>11 DEF Shape, HandlersAreInformed, ShouldRetry
<1>14. VersionsCount'
  BY <1>5, <1>6, <1>11, VersionKept
<1> QED BY <1>5, <1>7, <1>10, <1>11, <1>12, <1>13, <1>14 DEF Shape, TypeOK

LEMMA InitShape == Init => Shape
<1> SUFFICES ASSUME Init PROVE Shape
  OBVIOUS
<1>1. delivery \in Delivery
  <2>1. delivery = [status |-> "QUEUED", attempts |-> 0, cycle |-> 0,
                    version |-> 1, wait |-> 0, age |-> 0, message |-> 0]
    BY DEF Init
  <2>2. 0 \in 0 .. MaxCycle /\ 1 \in 1 .. MaxCycle + 1 /\ 0 \in 0 .. StaleAfter
    BY Constants
  <2> QED BY <2>1, <2>2 DEF Delivery
<1>2. job \in [Jobs -> Job]
  <2>1. NoJob \in Job /\ [NoJob EXCEPT !.state = "created"] \in Job
    BY Constants DEF NoJob, Job
  <2> QED BY <2>1 DEF Init
<1>3. NoHandler \in Handler /\ NoHandler.stage = "idle"
  BY DEF NoHandler, Handler, Stages, Outcomes
<1>4. worker \in [Workers -> Handler] /\ \A w \in Workers : worker[w].stage = "idle"
  BY <1>3 DEF Init
<1>5. HandlersHoldJobs /\ HandlersAreInformed
  BY <1>4 DEF HandlersHoldJobs, HandlersAreInformed
<1>6. VersionsCount /\ admin \in [Admins -> 0 .. MaxCycle + 1]
  BY Constants DEF Init, VersionsCount
<1>7. message \in Seq(Message) /\ crashes \in 0 .. MaxCrashes /\ failures \in 0 .. MaxFailures
  BY Constants DEF Init
<1> QED BY <1>1, <1>2, <1>4, <1>5, <1>6, <1>7 DEF Shape, TypeOK, Message

LEMMA ShapeSteps == Shape /\ [Next]_vars => Shape'
<1> SUFFICES ASSUME Shape, [Next]_vars PROVE Shape'
  OBVIOUS
<1>1. ASSUME NEW w \in Workers, NEW j \in Jobs, Fetch(w, j) PROVE Shape'
  BY <1>1, FetchShape
<1>2. ASSUME NEW w \in Workers, Handle(w) \/ Crash(w) \/ Throw(w) PROVE Shape'
  <2>1. CASE Sweep(w)
    BY <2>1, SweepShape
  <2>2. CASE Find(w)
    BY <2>2, FindShape
  <2>3. CASE Claim(w)
    BY <2>3, ClaimShape
  <2>4. ASSUME NEW outcome \in Outcomes, Send(w, outcome) PROVE Shape'
    BY <2>4, SendShape
  <2>5. CASE Record(w)
    BY <2>5, RecordShape
  <2>6. CASE Requeue(w)
    BY <2>6, RequeueShape
  <2>7. CASE Finish(w) \/ Throw(w) \/ Crash(w)
    BY <2>7, EndShape
  <2> QED BY <1>2, <2>1, <2>2, <2>3, <2>4, <2>5, <2>6, <2>7 DEF Handle
<1>3. ASSUME NEW j \in Jobs, Expire(j) PROVE Shape'
  BY <1>3, ExpireShape
<1>4. CASE SweepByAnother
  BY <1>4, SweepByAnotherShape
<1>5. ASSUME NEW a \in Admins, AdminRead(a) \/ AdminRetry(a) \/ AdminConflict(a)
      PROVE  Shape'
  BY <1>5, AdminReadShape, AdminRetryShape
<1>6. ASSUME NEW m \in DOMAIN message,
             NEW status \in {"DELIVERED", "FAILED", "UNKNOWN"}, Receipt(m, status)
      PROVE  Shape'
  BY <1>6, ReceiptShape
<1>7. CASE Tick
  BY <1>7, TickShape
<1>8. CASE UNCHANGED vars
  BY <1>8 DEF vars, Shape, TypeOK, HandlersHoldJobs, HandlersAreInformed,
              ShouldRetry, VersionsCount
<1> QED BY <1>1, <1>2, <1>3, <1>4, <1>5, <1>6, <1>7, <1>8 DEF Next

\* The variables keep their types, whatever jobs are lost and repeated: no
\* handler works for a job the queue has given to another, no attempt is
\* looked up in a backoff the settings do not have, and no cycle or count
\* passes its bound.
THEOREM TypeCorrect == Spec => []TypeOK
<1>1. Shape => TypeOK
  BY DEF Shape
<1> QED BY <1>1, InitShape, ShapeSteps, PTL DEF Spec

-----------------------------------------------------------------------------
(* Order.                                                                  *)

LEMMA SendingIs ==
    \A w \in Workers : w \in Sending <=> worker[w].stage \in {"send", "record"}
BY DEF Sending

\* Who sends holds a job younger than a stale send.
LEMMA SendersAreFresh ==
    ASSUME Shape, Order, NEW w \in Sending
    PROVE  /\ w \in Workers /\ worker[w].job \in Jobs
           /\ job[worker[w].job].state = "active"
           /\ delivery.status = "SENDING" /\ delivery.age < StaleAfter
           /\ delivery.age = job[worker[w].job].age
BY DEF Shape, HandlersHoldJobs, Order, SenderOwnsRow, Sending

\* A step that neither touches the row nor a handler that sends.
LEMMA NothingMoved ==
    ASSUME Shape, Order, UNCHANGED <<delivery, admin, message>>,
           \A w \in Workers :
               worker'[w].stage \in {"send", "record"} =>
                   /\ worker'[w] = worker[w]
                   /\ job'[worker[w].job] = job[worker[w].job]
    PROVE  Order'
<1>1. SenderOwnsRow'
  BY DEF Order, SenderOwnsRow, Sending
<1>2. RetriesAreCurrent' /\ NoReceiptSurprises' /\ MessagesEndCycles' /\ AcceptedOnce'
  BY DEF Order, RetriesAreCurrent, NoReceiptSurprises, MessagesEndCycles, AcceptedOnce
<1> QED BY <1>1, <1>2 DEF Order

LEMMA GoIs ==
    ASSUME Shape, NEW w \in Workers, NEW stage, Go(w, stage)
    PROVE  \A v \in Workers :
               /\ v # w => worker'[v] = worker[v]
               /\ worker'[w].stage = stage /\ worker'[w].job = worker[w].job
BY DEF Go, Shape, TypeOK, Handler

LEMMA HandlersOrder ==
    ASSUME Shape, Order, NEW w \in Workers,
           Find(w) \/ Finish(w) \/ Throw(w) \/ Crash(w) \/ Requeue(w)
    PROVE  Order'
<1>1. \A v \in Workers : v # w => worker'[v] = worker[v]
  BY DEF Find, Finish, Throw, Crash, Requeue, Go, Shape, TypeOK
<1>2. worker'[w].stage \notin {"send", "record"}
  BY DEF Find, Finish, Throw, Crash, Requeue, Go, NoHandler, Shape, TypeOK, Handler
<1>3. worker[w].stage # "idle"
  BY DEF Find, Finish, Throw, Crash, Requeue
<1>4. ASSUME NEW v \in Workers, v # w, worker[v].stage # "idle"
      PROVE  job'[worker[v].job] = job[worker[v].job]
  <2>1. worker[v].job \in Jobs /\ worker[w].job \in Jobs
        /\ worker[v].job # worker[w].job
    BY <1>3, <1>4 DEF Shape, HandlersHoldJobs
  <2>2. CASE Find(w) \/ Crash(w)
    BY <2>2 DEF Find, Crash
  <2>3. CASE Finish(w)
    BY <2>1, <2>3 DEF Finish, Shape, TypeOK
  <2>4. CASE Throw(w)
    BY <2>1, <2>4, FailShape DEF Throw
  <2>5. CASE Requeue(w)
    <3>1. ShouldRetry(w) /\ worker[w].stage = "requeue"
      BY <2>5 DEF Requeue, Shape, HandlersAreInformed
    <3> QED BY <1>4, <2>5, <3>1, WaitIsNat, EnqueueShape DEF Requeue
  <2> QED BY <2>2, <2>3, <2>4, <2>5
<1>5. UNCHANGED <<delivery, admin, message>>
  BY DEF Find, Finish, Throw, Crash, Requeue
<1> QED BY <1>1, <1>2, <1>4, <1>5, NothingMoved

LEMMA QueueOrder ==
    ASSUME Shape, Order,
           \/ \E w \in Workers, j \in Jobs : Fetch(w, j)
           \/ \E j \in Jobs : Expire(j)
    PROVE  Order'
<1>1. ASSUME NEW w \in Workers, NEW j \in Jobs, Fetch(w, j)
      PROVE  Order'
  <2>1. \A v \in Workers : v # w => worker'[v] = worker[v]
    BY <1>1 DEF Fetch, Shape, TypeOK
  <2>2. worker'[w].stage = "sweep"
    BY <1>1 DEF Fetch, Shape, TypeOK, Handler
  <2>3. \A v \in Workers : worker[v].stage # "idle" =>
            job'[worker[v].job] = job[worker[v].job]
    BY <1>1 DEF Fetch, Shape, TypeOK, HandlersHoldJobs
  <2> QED BY <1>1, <2>1, <2>2, <2>3, NothingMoved DEF Fetch
<1>2. ASSUME NEW j \in Jobs, Expire(j)
      PROVE  Order'
  <2>1. \A i \in Jobs : i # j => job'[i] = job[i]
    BY <1>2, FailShape DEF Expire
  <2>2. \A v \in Workers : worker[v].stage # "idle" =>
            worker[v].job \in Jobs /\ worker[v].job # j
    BY <1>2, Constants DEF Expire, Shape, HandlersHoldJobs
  <2> QED BY <1>2, <2>1, <2>2, NothingMoved DEF Expire
<1> QED BY <1>1, <1>2

\* A stale send is nobody's.
LEMMA StaleIsNobodys ==
    ASSUME Shape, Order, Stale
    PROVE  Sending = {}
<1>1. delivery.age >= StaleAfter
  BY DEF Stale
<1>2. \A w \in Sending : delivery.age < StaleAfter
  BY SendersAreFresh
<1> QED BY <1>1, <1>2, Types, Constants

LEMMA ResetOrder ==
    ASSUME Shape, Order, ResetStale, UNCHANGED <<job, admin, message>>,
           \A w \in Workers :
               worker'[w].stage \in {"send", "record"} => worker'[w] = worker[w]
    PROVE  Order'
<1>1. CASE ~Stale
  BY <1>1, NothingMoved DEF ResetStale
<1>2. CASE Stale
  <2>1. delivery'.status = "QUEUED" /\ delivery'.message = delivery.message
        /\ delivery'.cycle = delivery.cycle /\ delivery'.version = delivery.version
    BY <1>2 DEF ResetStale, Shape, TypeOK, Delivery
  <2>2. delivery.status = "SENDING"
    BY <1>2 DEF Stale
  <2>3. Sending' = {}
    BY <1>2, StaleIsNobodys DEF Sending
  <2>4. RetriesAreCurrent'
    BY <2>1, <2>2 DEF Order, RetriesAreCurrent, Retryable
  <2>5. NoReceiptSurprises' /\ MessagesEndCycles' /\ AcceptedOnce'
    BY <2>1, <2>2
       DEF Order, NoReceiptSurprises, MessagesEndCycles, AcceptedOnce, Ended
  <2> QED BY <2>3, <2>4, <2>5 DEF Order, SenderOwnsRow
<1> QED BY <1>1, <1>2

LEMMA SweepOrder ==
    ASSUME Shape, Order, NEW w \in Workers, Sweep(w) \/ SweepByAnother
    PROVE  Order'
<1>1. CASE Sweep(w)
  BY <1>1, GoIs, ResetOrder DEF Sweep
<1>2. CASE SweepByAnother
  BY <1>2, ResetOrder DEF SweepByAnother
<1> QED BY <1>1, <1>2

\* Only a queued row is claimed, and nobody sends it then.
LEMMA ClaimOrder ==
    ASSUME Shape, Order, NEW w \in Workers, Claim(w)
    PROVE  Order'
<1>1. CASE ~Unclaimed
  BY <1>1, GoIs, NothingMoved DEF Claim
<1>2. CASE Unclaimed
  <2>1. delivery.status = "QUEUED" /\ Go(w, "send")
        /\ UNCHANGED <<job, admin, message>>
    BY <1>2 DEF Claim, Unclaimed
  <2>2. delivery'.status = "SENDING" /\ delivery'.message = delivery.message
        /\ delivery'.cycle = delivery.cycle /\ delivery'.version = delivery.version
        /\ delivery'.age = job[worker[w].job].age
    BY <1>2 DEF Claim, Shape, TypeOK, Delivery
  <2>3. Sending = {}
    BY <2>1, SendersAreFresh
  <2>4. \A v \in Workers :
            v \in Sending' => v = w /\ worker'[v].stage = "send"
                              /\ worker'[v].job = worker[v].job
    BY <2>1, <2>3, GoIs DEF Sending
  <2>5. SenderOwnsRow'
    BY <2>1, <2>2, <2>4 DEF SenderOwnsRow, Sending
  <2>6. RetriesAreCurrent'
    BY <2>1, <2>2 DEF Order, RetriesAreCurrent, Retryable
  <2>7. NoReceiptSurprises' /\ MessagesEndCycles' /\ AcceptedOnce'
    BY <2>1, <2>2
       DEF Order, NoReceiptSurprises, MessagesEndCycles, AcceptedOnce, Ended
  <2> QED BY <2>5, <2>6, <2>7 DEF Order
<1> QED BY <1>1, <1>2

LEMMA SendOrder ==
    ASSUME Shape, Order, NEW w \in Workers, NEW outcome \in Outcomes, Send(w, outcome)
    PROVE  Order'
<1> DEFINE new == [cycle |-> delivery.cycle, receipts |-> Receipts, recorded |-> FALSE]
<1>1. w \in Sending /\ UNCHANGED <<delivery, job, admin>>
  BY DEF Send, Sending
<1>2. delivery.status = "SENDING" /\ (\A v \in Sending : v = w)
      /\ delivery.age = job[worker[w].job].age
  BY <1>1 DEF Order, SenderOwnsRow
<1>3. message \in Seq(Message) /\ worker[w] \in Handler /\ worker \in [Workers -> Handler]
  BY DEF Shape, TypeOK, Message
<1>4. /\ outcome = "accepted" => message' = Append(message, new)
      /\ outcome # "accepted" => message' = message
  BY DEF Send
<1>5. new.cycle = delivery.cycle /\ new.recorded = FALSE
  OBVIOUS
<1> HIDE DEF new
<1>6. /\ Len(message) \in Nat /\ DOMAIN message = 1 .. Len(message)
      /\ \A m \in 1 .. Len(message) : message'[m] = message[m]
      /\ outcome = "accepted" =>
             Len(message') = Len(message) + 1 /\ message'[Len(message')] = new
      /\ outcome # "accepted" => Len(message') = Len(message)
      /\ DOMAIN message' = 1 .. Len(message')
  BY <1>3, <1>4
<1>7. /\ \A v \in Workers : v # w => worker'[v] = worker[v]
      /\ worker'[w].stage = "record" /\ worker'[w].job = worker[w].job
      /\ worker'[w].outcome = outcome
      /\ worker'[w].message = IF outcome = "accepted" THEN Len(message') ELSE 0
  BY <1>3 DEF Send, Handler
<1>8. \A v \in Workers : v \in Sending' => v = w
  BY <1>2, <1>7 DEF Sending
<1>9. SenderOwnsRow'
  <2>1. ASSUME outcome = "accepted"
        PROVE  Len(message') > 0 /\ message'[Len(message')].cycle = delivery.cycle
    <3>1. Len(message') = Len(message) + 1 /\ message'[Len(message')] = new
      BY <1>6, <2>1
    <3>2. Len(message) \in Nat
      BY <1>6
    <3> QED BY <1>5, <3>1, <3>2
  <2> QED BY <1>1, <1>2, <1>7, <1>8, <2>1 DEF SenderOwnsRow, Sending
<1>10. RetriesAreCurrent'
  BY <1>1 DEF Order, RetriesAreCurrent
<1>11. Len(message) \in Nat /\ Len(message') \in {Len(message), Len(message) + 1}
  BY <1>6
<1>12. ASSUME NEW m \in DOMAIN message'
       PROVE  \/ m \in 1 .. Len(message) /\ message'[m] = message[m]
              \/ m = Len(message) + 1 /\ message'[m] = new
  <2>1. m \in 1 .. Len(message') /\ Len(message) \in Nat
    BY <1>6
  <2>2. CASE outcome = "accepted"
    <3>1. Len(message') = Len(message) + 1 /\ message'[Len(message')] = new
      BY <1>6, <2>2
    <3>2. m \in 1 .. Len(message) \/ m = Len(message')
      BY <2>1, <3>1
    <3> QED BY <1>6, <3>1, <3>2
  <2>3. CASE outcome # "accepted"
    <3>1. Len(message') = Len(message)
      BY <1>6, <2>3
    <3> QED BY <1>6, <2>1, <3>1
  <2> QED BY <2>2, <2>3
<1>15. NoReceiptSurprises'
  <2>1. delivery.message \in 0 .. Len(message)
    BY DEF Order, NoReceiptSurprises
  <2>2. delivery.message \in 0 .. Len(message')
    BY <1>11, <2>1
  <2>3. ASSUME delivery.message # 0
        PROVE  message'[delivery.message] = message[delivery.message]
    <3>1. delivery.message \in 1 .. Len(message)
      BY <1>11, <2>1, <2>3
    <3> QED BY <1>6, <3>1
  <2> QED BY <1>1, <2>2, <2>3 DEF Order, NoReceiptSurprises
<1>13. MessagesEndCycles'
  <2> SUFFICES ASSUME NEW m \in DOMAIN message'
               PROVE  /\ message'[m].cycle <= delivery.cycle
                      /\ message'[m].recorded /\ message'[m].cycle = delivery.cycle =>
                             delivery.status \in Ended
    BY <1>1 DEF MessagesEndCycles
  <2>1. CASE m \in 1 .. Len(message) /\ message'[m] = message[m]
    BY <1>6, <2>1 DEF Order, MessagesEndCycles
  <2>2. CASE message'[m] = new
    BY <1>5, <2>2, Types
  <2> QED BY <1>12, <2>1, <2>2
<1>14. AcceptedOnce'
  <2> SUFFICES ASSUME NEW m \in DOMAIN message', NEW n \in DOMAIN message', m < n,
                      message'[m].cycle = message'[n].cycle
               PROVE  ~message'[m].recorded
    BY DEF AcceptedOnce
  <2>1. m \in 1 .. Len(message) /\ message'[m] = message[m]
    <3>1. m \in 1 .. Len(message')
      BY <1>6
    <3>2. n \in 1 .. Len(message') /\ (n \in 1 .. Len(message) \/ n = Len(message) + 1)
      BY <1>6, <1>12
    <3>3. m # Len(message) + 1
      BY <1>11, <3>1, <3>2
    <3> QED BY <1>12, <3>3
  <2>2. CASE n \in 1 .. Len(message) /\ message'[n] = message[n]
    BY <1>6, <2>1, <2>2 DEF Order, AcceptedOnce
  <2>3. CASE message'[n] = new
    BY <1>2, <1>5, <1>6, <2>1, <2>3 DEF Order, MessagesEndCycles, Ended
  <2> QED BY <1>12, <2>2, <2>3
<1> QED BY <1>9, <1>10, <1>13, <1>14, <1>15 DEF Order

\* What a record writes.
LEMMA RecordIs ==
    ASSUME Shape, NEW w \in Workers, Record(w)
    PROVE  /\ delivery'.status = IF ShouldRetry(w) THEN "QUEUED"
                                 ELSE FinalStatus(worker[w].outcome)
           /\ delivery'.message = worker[w].message
           /\ delivery'.cycle = delivery.cycle /\ delivery'.version = delivery.version
           /\ Len(message') = Len(message) /\ DOMAIN message' = DOMAIN message
           /\ \A m \in DOMAIN message :
                  /\ message'[m].cycle = message[m].cycle
                  /\ message'[m].receipts = message[m].receipts
                  /\ m # worker[w].message => message'[m] = message[m]
<1>1. delivery \in Delivery /\ message \in Seq(Message)
  BY DEF Shape, TypeOK, Message
<1>2. /\ delivery'.status = IF ShouldRetry(w) THEN "QUEUED"
                            ELSE FinalStatus(worker[w].outcome)
      /\ delivery'.message = worker[w].message
      /\ delivery'.cycle = delivery.cycle /\ delivery'.version = delivery.version
  BY <1>1 DEF Record, Delivery
<1>3. message' = [m \in DOMAIN message |->
                    IF m = worker[w].message
                    THEN [message[m] EXCEPT !.recorded = TRUE]
                    ELSE message[m]]
  BY DEF Record
<1>4. message' \in Seq(Message)
  BY RecordShape DEF Shape, TypeOK, Message
<1>5. \A x \in Message : [x EXCEPT !.recorded = TRUE].cycle = x.cycle
                         /\ [x EXCEPT !.recorded = TRUE].receipts = x.receipts
  BY DEF Message
<1>6. \A m \in DOMAIN message : message[m] \in Message
  BY <1>1
<1>7. DOMAIN message' = DOMAIN message
  BY <1>3
<1>8. Len(message') = Len(message)
  BY <1>1, <1>4, <1>7
<1>9. \A m \in DOMAIN message :
          /\ message'[m].cycle = message[m].cycle
          /\ message'[m].receipts = message[m].receipts
          /\ m # worker[w].message => message'[m] = message[m]
  BY <1>3, <1>5, <1>6
<1> QED BY <1>2, <1>7, <1>8, <1>9

LEMMA RecordOrder ==
    ASSUME Shape, Order, NEW w \in Workers, Record(w)
    PROVE  Order'
<1>1. w \in Sending /\ worker[w].stage = "record"
  BY DEF Record, Sending
<1>2. /\ delivery.status = "SENDING" /\ \A v \in Sending : v = w
      /\ IF worker[w].outcome = "accepted"
         THEN /\ Len(message) > 0 /\ worker[w].message = Len(message)
              /\ message[Len(message)].cycle = delivery.cycle
         ELSE worker[w].message = 0
  BY <1>1 DEF Order, SenderOwnsRow
<1>3. UNCHANGED <<job, admin>>
  BY DEF Record
<1>4. worker'[w].stage \notin {"send", "record"}
      /\ \A v \in Workers : v # w => worker'[v] = worker[v]
  BY GoIs DEF Record
<1>5. Sending' = {}
  BY <1>2, <1>4 DEF Sending
<1>6. worker[w].outcome = "accepted" => delivery'.status = "PROVIDER_ACCEPTED"
  BY RecordIs DEF ShouldRetry, FinalStatus
<1>7. worker[w].outcome # "accepted" => worker[w].message = 0
  BY <1>2
<1>8. RetriesAreCurrent'
  BY <1>2, <1>3, RecordIs DEF Order, RetriesAreCurrent, Retryable
<1>9. NoReceiptSurprises'
  <2>1. delivery'.message \in 0 .. Len(message')
    BY <1>2, Types, RecordIs
  <2> QED BY <1>6, <1>7, <2>1, RecordIs DEF NoReceiptSurprises
<1>10. ASSUME NEW m \in DOMAIN message, message'[m].recorded, m # worker[w].message
       PROVE  message[m].recorded
  BY <1>10, RecordIs
<1>11. MessagesEndCycles'
  <2> SUFFICES ASSUME NEW m \in DOMAIN message
               PROVE  /\ message'[m].cycle <= delivery'.cycle
                      /\ message'[m].recorded /\ message'[m].cycle = delivery'.cycle =>
                             delivery'.status \in Ended
    BY RecordIs DEF MessagesEndCycles
  <2>1. message'[m].cycle <= delivery'.cycle
    BY RecordIs DEF Order, MessagesEndCycles
  <2>2. CASE m = worker[w].message
    <3>1. worker[w].outcome = "accepted"
      BY <1>7, <2>2, Types
    <3> QED BY <1>6, <2>1, <3>1 DEF Ended
  <2>3. CASE m # worker[w].message
    BY <1>2, <1>10, <2>1, <2>3, RecordIs DEF Order, MessagesEndCycles, Ended
  <2> QED BY <2>2, <2>3
<1>12. AcceptedOnce'
  <2> SUFFICES ASSUME NEW m \in DOMAIN message, NEW n \in DOMAIN message, m < n,
                      message'[m].cycle = message'[n].cycle, message'[m].recorded
               PROVE  FALSE
    BY RecordIs DEF AcceptedOnce
  <2>1. m # worker[w].message
    BY <1>2, Types
  <2>2. message[m].recorded /\ message[m].cycle = message[n].cycle
    BY <1>10, <2>1, RecordIs
  <2> QED BY <2>2 DEF Order, AcceptedOnce
<1> QED BY <1>5, <1>8, <1>9, <1>11, <1>12 DEF Order, SenderOwnsRow

\* Administrators.
LEMMA AdminOrder ==
    ASSUME Shape, Order, NEW a \in Admins,
           AdminRead(a) \/ AdminConflict(a) \/ AdminRetry(a)
    PROVE  Order'
<1>1. admin \in [Admins -> 0 .. MaxCycle + 1]
  BY DEF Shape, TypeOK
<1>2. CASE AdminRead(a) \/ AdminConflict(a)
  <2>1. UNCHANGED <<delivery, job, worker, message>>
    BY <1>2 DEF AdminRead, AdminConflict
  <2>2. \/ admin' = [admin EXCEPT ![a] = delivery.version] /\ delivery.status \in Retryable
        \/ admin' = [admin EXCEPT ![a] = 0]
    BY <1>2 DEF AdminRead, AdminConflict
  <2>3. delivery.version \in Nat /\ delivery.version > 0
    BY Types, Constants
  <2>4. RetriesAreCurrent'
    BY <1>1, <2>1, <2>2, <2>3 DEF Order, RetriesAreCurrent
  <2>5. SenderOwnsRow' /\ NoReceiptSurprises' /\ MessagesEndCycles' /\ AcceptedOnce'
    BY <2>1 DEF Order, SenderOwnsRow, Sending, NoReceiptSurprises, MessagesEndCycles,
                AcceptedOnce
  <2> QED BY <2>4, <2>5 DEF Order
<1>3. CASE AdminRetry(a)
  <2>1. delivery.status \in Retryable
    BY <1>3 DEF AdminRetry, VersionRead, Order, RetriesAreCurrent
  <2>2. Sending = {}
    BY <2>1, SendersAreFresh DEF Retryable
  <2>3. UNCHANGED <<worker, message>> /\ admin' = [admin EXCEPT ![a] = 0]
    BY <1>3 DEF AdminRetry
  <2>4. Sending' = {}
    BY <2>2, <2>3 DEF Sending
  <2>5. /\ delivery'.status = "QUEUED" /\ delivery'.message = delivery.message
        /\ delivery'.cycle = delivery.cycle + 1
        /\ delivery'.version = delivery.version + 1
    BY <1>3, AdminRetryShape
  <2>6. delivery.version \in Nat /\ delivery.cycle \in Nat
    BY Types, Constants
  <2>7. RetriesAreCurrent'
    <3> SUFFICES ASSUME NEW b \in Admins
                 PROVE  admin'[b] < delivery'.version
      BY <2>6, <2>5, <2>3, <1>1 DEF RetriesAreCurrent
    <3>1. admin'[b] = 0 \/ admin'[b] = admin[b]
      BY <1>1, <2>3
    <3>2. admin[b] <= delivery.version /\ admin[b] \in Int
      BY <1>1, Constants DEF Order, RetriesAreCurrent
    <3> QED BY <2>5, <2>6, <3>1, <3>2
  <2>8. NoReceiptSurprises'
    BY <2>1, <2>3, <2>5 DEF Order, NoReceiptSurprises, Retryable
  <2>9. \A m \in DOMAIN message : message[m].cycle \in Nat /\ message[m].cycle <= delivery.cycle
    BY Types, Constants DEF Order, MessagesEndCycles
  <2>10. MessagesEndCycles' /\ AcceptedOnce'
    BY <2>3, <2>5, <2>6, <2>9 DEF Order, MessagesEndCycles, AcceptedOnce
  <2> QED BY <2>4, <2>7, <2>8, <2>10 DEF Order, SenderOwnsRow
<1> QED BY <1>2, <1>3

\* The provider.
LEMMA ReceiptOrder ==
    ASSUME Receipts <= 1, Shape, Order, NEW k \in DOMAIN message,
           NEW status \in {"DELIVERED", "FAILED", "UNKNOWN"}, Receipt(k, status)
    PROVE  Order'
<1>1. message \in Seq(Message) /\ message' \in Seq(Message) /\ delivery \in Delivery
  BY ReceiptShape DEF Shape, TypeOK, Message
<1>2. message[k] \in Message /\ message[k].receipts > 0
  BY <1>1 DEF Receipt
<1>3. message' = [message EXCEPT ![k].receipts = @ - 1]
      /\ UNCHANGED <<job, worker, admin>>
  BY DEF Receipt
<1>4. Len(message') = Len(message) /\ DOMAIN message' = DOMAIN message
  BY <1>1, <1>3
<1>5. \A m \in DOMAIN message :
          /\ m # k => message'[m] = message[m]
          /\ message'[m].cycle = message[m].cycle
          /\ message'[m].recorded = message[m].recorded
  BY <1>1, <1>2, <1>3 DEF Message
<1>6. message'[k].receipts = 0
  <2>1. message'[k].receipts = message[k].receipts - 1
    BY <1>2, <1>3 DEF Message
  <2> QED BY <1>2, <2>1, Constants DEF Message
<1>7. AcceptedOnce'
  BY <1>4, <1>5 DEF Order, AcceptedOnce
<1>8. CASE delivery.message # k
  <2>1. delivery' = delivery
    BY <1>8 DEF Receipt
  <2>2. SenderOwnsRow'
    BY <1>3, <1>4, <1>5, <2>1, Types DEF Order, SenderOwnsRow, Sending
  <2>3. RetriesAreCurrent' /\ MessagesEndCycles'
    BY <1>3, <1>4, <1>5, <2>1 DEF Order, RetriesAreCurrent, MessagesEndCycles
  <2>4. NoReceiptSurprises'
    BY <1>4, <1>5, <1>8, <2>1, Types DEF Order, NoReceiptSurprises
  <2> QED BY <1>7, <2>2, <2>3, <2>4 DEF Order
<1>9. CASE delivery.message = k
  <2>1. delivery'.status = status /\ delivery'.message = delivery.message
        /\ delivery'.cycle = delivery.cycle /\ delivery'.version = delivery.version
    BY <1>1, <1>9 DEF Receipt, Delivery
  <2>2. delivery.status = "PROVIDER_ACCEPTED"
    BY <1>2, <1>9, Types DEF Order, NoReceiptSurprises
  <2>3. Sending' = {}
    BY <1>3, <2>2, SendersAreFresh DEF Sending
  <2>4. RetriesAreCurrent'
    BY <1>3, <2>1, <2>2 DEF Order, RetriesAreCurrent, Retryable
  <2>5. MessagesEndCycles'
    BY <1>4, <1>5, <2>1 DEF Order, MessagesEndCycles, Ended
  <2>6. NoReceiptSurprises'
    BY <1>4, <1>6, <1>9, <2>1 DEF Order, NoReceiptSurprises
  <2> QED BY <1>7, <2>3, <2>4, <2>5, <2>6 DEF Order, SenderOwnsRow
<1> QED BY <1>8, <1>9

\* The age of a send grows with the age of its job.
LEMMA TickOrder ==
    ASSUME Shape, Order, Tick
    PROVE  Order'
<1>1. delivery \in Delivery /\ job \in [Jobs -> Job]
  BY DEF Shape, TypeOK
<1>2. UNCHANGED <<worker, admin, message>>
  BY DEF Tick
<1>3. delivery'.status = delivery.status /\ delivery'.message = delivery.message
      /\ delivery'.cycle = delivery.cycle /\ delivery'.version = delivery.version
      /\ delivery'.age = IF delivery.status = "SENDING" /\ delivery.age < StaleAfter
                         THEN delivery.age + 1 ELSE delivery.age
  BY <1>1 DEF Tick, Delivery
<1>4. \A j \in Jobs : job[j].state = "active" => job'[j].age = job[j].age + 1
  BY <1>1 DEF Tick, Job
<1>5. SenderOwnsRow'
  <2> SUFFICES ASSUME NEW w \in Sending
               PROVE  /\ delivery.status = "SENDING"
                      /\ delivery'.age = job'[worker[w].job].age
                      /\ \A v \in Sending : v = w
                      /\ worker[w].stage = "record" =>
                             IF worker[w].outcome = "accepted"
                             THEN /\ Len(message) > 0 /\ worker[w].message = Len(message)
                                  /\ message[Len(message)].cycle = delivery.cycle
                             ELSE worker[w].message = 0
    BY <1>2, <1>3 DEF SenderOwnsRow, Sending
  <2>1. delivery'.age = job'[worker[w].job].age
    BY <1>3, <1>4, SendersAreFresh
  <2> QED BY <2>1 DEF Order, SenderOwnsRow
<1>6. RetriesAreCurrent' /\ NoReceiptSurprises' /\ MessagesEndCycles' /\ AcceptedOnce'
  BY <1>2, <1>3
     DEF Order, RetriesAreCurrent, NoReceiptSurprises, MessagesEndCycles, AcceptedOnce
<1> QED BY <1>5, <1>6 DEF Order

LEMMA InitOrder == Init => Order
<1> SUFFICES ASSUME Init PROVE Order
  OBVIOUS
<1>1. Sending = {}
  BY DEF Init, Sending, NoHandler
<1>2. message = <<>> /\ delivery.message = 0 /\ delivery.version = 1
      /\ \A a \in Admins : admin[a] = 0
  BY DEF Init
<1>3. SenderOwnsRow /\ RetriesAreCurrent /\ NoReceiptSurprises
  BY <1>1, <1>2 DEF SenderOwnsRow, RetriesAreCurrent, NoReceiptSurprises
<1>4. MessagesEndCycles /\ AcceptedOnce
  BY <1>2 DEF MessagesEndCycles, AcceptedOnce
<1> QED BY <1>3, <1>4 DEF Order

LEMMA OrderSteps == Receipts <= 1 /\ IInv /\ [Next]_vars => IInv'
<1> SUFFICES ASSUME Receipts <= 1, Shape, Order, [Next]_vars PROVE Order'
  BY ShapeSteps DEF IInv
<1>1. ASSUME NEW w \in Workers, NEW j \in Jobs, Fetch(w, j) PROVE Order'
  BY <1>1, QueueOrder
<1>2. ASSUME NEW w \in Workers, Handle(w) \/ Crash(w) \/ Throw(w) PROVE Order'
  <2>1. CASE Sweep(w)
    BY <2>1, SweepOrder
  <2>2. CASE Claim(w)
    BY <2>2, ClaimOrder
  <2>3. ASSUME NEW outcome \in Outcomes, Send(w, outcome) PROVE Order'
    BY <2>3, SendOrder
  <2>4. CASE Record(w)
    BY <2>4, RecordOrder
  <2>5. CASE Find(w) \/ Finish(w) \/ Throw(w) \/ Crash(w) \/ Requeue(w)
    BY <2>5, HandlersOrder
  <2> QED BY <1>2, <2>1, <2>2, <2>3, <2>4, <2>5 DEF Handle
<1>3. ASSUME NEW j \in Jobs, Expire(j) PROVE Order'
  BY <1>3, QueueOrder
<1>4. CASE SweepByAnother
  BY <1>4, ResetOrder DEF SweepByAnother
<1>5. ASSUME NEW a \in Admins, AdminRead(a) \/ AdminRetry(a) \/ AdminConflict(a)
      PROVE  Order'
  BY <1>5, AdminOrder
<1>6. ASSUME NEW m \in DOMAIN message,
             NEW status \in {"DELIVERED", "FAILED", "UNKNOWN"}, Receipt(m, status)
      PROVE  Order'
  BY <1>6, ReceiptOrder
<1>7. CASE Tick
  BY <1>7, TickOrder
<1>8. CASE UNCHANGED vars
  BY <1>8 DEF vars, Order, SenderOwnsRow, Sending, RetriesAreCurrent,
              NoReceiptSurprises, MessagesEndCycles, AcceptedOnce
<1> QED BY <1>1, <1>2, <1>3, <1>4, <1>5, <1>6, <1>7, <1>8 DEF Next

LEMMA InvariantHolds == Receipts <= 1 /\ Spec => []IInv
<1> SUFFICES ASSUME Receipts <= 1 PROVE Spec => []IInv
  OBVIOUS
<1>1. Init => IInv
  BY InitShape, InitOrder DEF IInv
<1>2. IInv /\ [Next]_vars => IInv'
  BY OrderSteps
<1> QED BY <1>1, <1>2, PTL DEF Spec

\* Whatever jobs are repeated, expired and taken over, one worker at most is
\* between its claim and the record of its outcome, and the row says so: the
\* time after which a send is taken to be dead is longer than a live one.
\* The provider is assumed to send at most one receipt for a message.
THEOREM SendsExclude == Receipts <= 1 /\ Spec => []OneSender
<1>1. IInv => OneSender
  BY DEF IInv, Order, SenderOwnsRow, OneSender
<1> QED BY <1>1, InvariantHolds, PTL

\* After a recorded acceptance nothing more is sent in that retry cycle.
THEOREM AcceptancesAreFinal == Receipts <= 1 /\ Spec => []AcceptedOnce
<1>1. IInv => AcceptedOnce
  BY DEF IInv, Order
<1> QED BY <1>1, InvariantHolds, PTL

\* What a step does to the row.
LEMMA RowSteps ==
    ASSUME IInv, [Next]_vars
    PROVE  \/ delivery' = delivery
           \/ /\ delivery.status \in {"QUEUED", "SENDING"}
              /\ delivery'.cycle = delivery.cycle
           \/ delivery.status \in Retryable /\ delivery'.cycle = delivery.cycle + 1
           \/ delivery'.status \in Ended /\ delivery'.cycle = delivery.cycle
           \/ delivery'.status = delivery.status /\ delivery'.cycle = delivery.cycle
<1> DEFINE G == \/ delivery' = delivery
                \/ /\ delivery.status \in {"QUEUED", "SENDING"}
                   /\ delivery'.cycle = delivery.cycle
                \/ delivery.status \in Retryable /\ delivery'.cycle = delivery.cycle + 1
                \/ delivery'.status \in Ended /\ delivery'.cycle = delivery.cycle
                \/ delivery'.status = delivery.status /\ delivery'.cycle = delivery.cycle
<1> USE DEF IInv
<1>1. CASE ResetStale
  BY <1>1, ResetShape DEF ResetStale, Stale
<1>2. ASSUME NEW w \in Workers, Claim(w) PROVE G
  <2>1. CASE Unclaimed
    BY <1>2, <2>1 DEF Claim, Unclaimed, Shape, TypeOK, Delivery
  <2>2. CASE ~Unclaimed
    BY <1>2, <2>2 DEF Claim
  <2> QED BY <2>1, <2>2
<1>3. ASSUME NEW w \in Workers, Record(w) PROVE G
  <2>1. w \in Sending
    BY <1>3 DEF Record, Sending
  <2> QED BY <1>3, <2>1, SendersAreFresh, RecordIs
<1>4. ASSUME NEW a \in Admins, AdminRetry(a) PROVE G
  BY <1>4, AdminRetryShape DEF AdminRetry, VersionRead, Order, RetriesAreCurrent
<1>5. ASSUME NEW m \in DOMAIN message,
             NEW status \in {"DELIVERED", "FAILED", "UNKNOWN"}, Receipt(m, status)
      PROVE  G
  BY <1>5 DEF Receipt, Shape, TypeOK, Delivery, Ended
<1>6. CASE Tick
  BY <1>6 DEF Tick, Shape, TypeOK, Delivery
<1>7. ASSUME delivery' # delivery
      PROVE  \/ ResetStale \/ (\E w \in Workers : Claim(w) \/ Record(w)) \/ Tick
             \/ (\E a \in Admins : AdminRetry(a))
             \/ \E m \in DOMAIN message, status \in {"DELIVERED", "FAILED", "UNKNOWN"} :
                    Receipt(m, status)
  BY <1>7 DEF Next, Handle, Fetch, Sweep, Find, Send, Requeue, Finish, Crash, Throw,
              Expire, SweepByAnother, AdminRead, AdminConflict, vars
<1> HIDE DEF IInv
<1> QED BY <1>1, <1>2, <1>3, <1>4, <1>5, <1>6, <1>7

\* No handler that comes late and no receipt puts a delivery that ended back
\* into the queue: only an administrator's retry does.
THEOREM EndsAreKept == Receipts <= 1 /\ Spec => EndedStaysEnded
<1>1. IInv /\ [Next]_vars =>
          [delivery.status \in Ended /\ delivery'.cycle = delivery.cycle
             => delivery'.status \in Ended]_vars
  <2> SUFFICES ASSUME IInv, [Next]_vars, delivery.status \in Ended,
                      delivery'.cycle = delivery.cycle
               PROVE  delivery'.status \in Ended
    OBVIOUS
  <2>1. delivery.cycle \in Nat
    BY Types, Constants DEF IInv
  <2> QED BY <2>1, RowSteps DEF Ended
<1> QED BY <1>1, InvariantHolds, PTL DEF Spec, EndedStaysEnded

\* What an administrator retries had failed, and still has when it is queued.
THEOREM RetriesFollowFailures == Receipts <= 1 /\ Spec => OnlyFailedIsRetried
<1>1. IInv /\ [Next]_vars =>
          [delivery'.cycle # delivery.cycle => delivery.status \in Retryable]_vars
  BY RowSteps
<1> QED BY <1>1, InvariantHolds, PTL DEF Spec, OnlyFailedIsRetried
-----------------------------------------------------------------------------
(* The promise of the outbox.                                              *)

\* A step that shows only in the status, or not at all.
LEMMA NothingAccepted ==
    ASSUME Shape, DOMAIN message' = DOMAIN message,
           \A m \in DOMAIN message : message'[m].cycle = message[m].cycle
    PROVE  Accepted' = Accepted
BY DEF Accepted

LEMMA Hidden ==
    ASSUME Shape, UNCHANGED message, delivery'.cycle = delivery.cycle,
           Status' = Status
    PROVE  UNCHANGED Promise!vars
BY NothingAccepted DEF Promise!vars

LEMMA SendRefines ==
    ASSUME IInv, NEW w \in Workers, NEW outcome \in Outcomes, Send(w, outcome)
    PROVE  Promise!Accept \/ UNCHANGED Promise!vars
<1> DEFINE new == [cycle |-> delivery.cycle, receipts |-> Receipts, recorded |-> FALSE]
<1>1. w \in Sending /\ UNCHANGED delivery
  BY DEF Send, Sending
<1>2. Status = "OPEN" /\ Status' = Status
  BY <1>1 DEF IInv, Order, SenderOwnsRow, Status
<1>3. CASE outcome # "accepted"
  <2>1. UNCHANGED message
    BY <1>3 DEF Send
  <2> QED BY <1>1, <1>2, <2>1, Hidden DEF IInv
<1>4. CASE outcome = "accepted"
  <2>1. message \in Seq(Message) /\ new \in Message
    BY Types, Constants DEF IInv, Shape, TypeOK, Message
  <2>2. message' = Append(message, new) /\ new.cycle = delivery.cycle
    BY <1>4 DEF Send
  <2> HIDE DEF new
  <2>3. /\ Len(message) \in Nat /\ DOMAIN message = 1 .. Len(message)
        /\ DOMAIN message' = 1 .. Len(message) + 1
        /\ \A m \in 1 .. Len(message) : message'[m] = message[m]
        /\ message'[Len(message) + 1] = new
    BY <2>1, <2>2
  <2>4. Accepted \in Seq(Nat) /\ Len(Accepted) = Len(message)
        /\ delivery.cycle \in Nat
    <3>1. \A m \in 1 .. Len(message) : message[m].cycle \in Nat
      BY Types, Constants DEF IInv
    <3>2. delivery.cycle \in Nat
      BY Types, Constants DEF IInv
    <3> QED BY <2>3, <3>1, <3>2 DEF Accepted
  <2>5. Accepted' = [m \in 1 .. Len(message) + 1 |-> message'[m].cycle]
    BY <2>3 DEF Accepted
  <2>6. Append(Accepted, delivery.cycle)
          = [m \in 1 .. Len(message) + 1 |->
               IF m = Len(message) + 1 THEN delivery.cycle ELSE Accepted[m]]
    BY <2>3, <2>4
  <2>7. \A m \in 1 .. Len(message) + 1 :
            message'[m].cycle = IF m = Len(message) + 1 THEN delivery.cycle
                                ELSE Accepted[m]
    <3> SUFFICES ASSUME NEW m \in 1 .. Len(message) + 1
                 PROVE  message'[m].cycle = IF m = Len(message) + 1
                                            THEN delivery.cycle ELSE Accepted[m]
      OBVIOUS
    <3>1. CASE m = Len(message) + 1
      BY <2>2, <2>3, <3>1
    <3>2. CASE m # Len(message) + 1
      <4>1. m \in 1 .. Len(message)
        BY <2>3, <3>2
      <4> QED BY <2>3, <3>2, <4>1 DEF Accepted
    <3> QED BY <3>1, <3>2
  <2>8. Accepted' = Append(Accepted, delivery.cycle)
    BY <2>5, <2>6, <2>7
  <2> QED BY <1>1, <1>2, <2>8 DEF Promise!Accept
<1> QED BY <1>3, <1>4

LEMMA RecordRefines ==
    ASSUME IInv, NEW w \in Workers, Record(w)
    PROVE  Promise!RecordAcceptance \/ Promise!GiveUp \/ UNCHANGED Promise!vars
<1>1. w \in Sending /\ worker[w].stage = "record"
  BY DEF Record, Sending
<1>2. Status = "OPEN"
  BY <1>1 DEF IInv, Order, SenderOwnsRow, Status
<1>3. delivery'.cycle = delivery.cycle /\ Accepted' = Accepted
  BY RecordIs, NothingAccepted DEF IInv
<1>4. CASE ShouldRetry(w)
  <2>1. Status' = "OPEN"
    BY <1>4, RecordIs DEF IInv, Status
  <2> QED BY <1>2, <1>3, <2>1 DEF Promise!vars
<1>5. CASE ~ShouldRetry(w) /\ worker[w].outcome = "accepted"
  <2>1. Status' = "PROVIDER_ACCEPTED"
    BY <1>5, RecordIs DEF IInv, Status, FinalStatus
  <2>2. Len(message) > 0 /\ message[Len(message)].cycle = delivery.cycle
    BY <1>1, <1>5 DEF IInv, Order, SenderOwnsRow
  <2>3. Len(Accepted) = Len(message) /\ Accepted[Len(message)] = delivery.cycle
    <3>1. Len(message) \in Nat /\ DOMAIN message = 1 .. Len(message)
      BY Types DEF IInv
    <3> QED BY <2>2, <3>1 DEF Accepted
  <2> QED BY <1>2, <1>3, <2>1, <2>2, <2>3 DEF Promise!RecordAcceptance
<1>6. CASE ~ShouldRetry(w) /\ worker[w].outcome # "accepted"
  <2>1. worker[w].outcome \in Outcomes \ {"none", "accepted"}
    BY <1>1, <1>6, Types DEF IInv, Shape, HandlersAreInformed
  <2>2. FinalStatus(worker[w].outcome) \in {"FAILED", "UNKNOWN"}
    BY <2>1 DEF FinalStatus, Outcomes
  <2>3. Status' \in {"FAILED", "UNKNOWN"}
    BY <1>6, <2>2, RecordIs DEF IInv, Status
  <2> QED BY <1>2, <1>3, <2>3 DEF Promise!GiveUp, Promise!Undelivered
<1> QED BY <1>4, <1>5, <1>6
LEMMA RetryRefines ==
    ASSUME IInv, NEW a \in Admins, AdminRetry(a)
    PROVE  Promise!Reopen
<1>1. delivery.status \in Retryable
  BY DEF AdminRetry, VersionRead, IInv, Order, RetriesAreCurrent
<1>2. delivery'.status = "QUEUED" /\ delivery'.cycle = delivery.cycle + 1
  BY AdminRetryShape DEF IInv
<1>3. Accepted' = Accepted
  BY DEF AdminRetry, Accepted
<1> QED BY <1>1, <1>2, <1>3 DEF Promise!Reopen, Promise!Undelivered, Status, Retryable

LEMMA ReceiptRefines ==
    ASSUME IInv, NEW m \in DOMAIN message,
           NEW status \in {"DELIVERED", "FAILED", "UNKNOWN"}, Receipt(m, status)
    PROVE  Promise!Confirm \/ UNCHANGED Promise!vars
<1>1. message \in Seq(Message) /\ message[m] \in Message /\ delivery \in Delivery
  <2>1. message \in Seq(Message) /\ delivery \in Delivery
    BY DEF IInv, Shape, TypeOK, Message
  <2> QED BY <2>1
<1>2. message' = [message EXCEPT ![m] = [message[m] EXCEPT !.receipts = @ - 1]]
  BY DEF Receipt
<1>3. DOMAIN message' = DOMAIN message
      /\ \A n \in DOMAIN message : message'[n].cycle = message[n].cycle
  BY <1>1, <1>2 DEF Message
<1>4. Accepted' = Accepted
  BY <1>3, NothingAccepted DEF IInv
<1>5. CASE delivery.message # m
  <2>1. delivery' = delivery
    BY <1>5 DEF Receipt
  <2> QED BY <1>4, <2>1 DEF Promise!vars, Status
<1>6. CASE delivery.message = m
  <2>1. delivery.status = "PROVIDER_ACCEPTED"
    <3>1. m # 0 /\ message[m].receipts # 0
      BY Types DEF Receipt, IInv
    <3> QED BY <1>6, <3>1 DEF IInv, Order, NoReceiptSurprises
  <2>2. delivery'.status = status /\ delivery'.cycle = delivery.cycle
    BY <1>1, <1>6 DEF Receipt, Delivery
  <2> QED BY <1>4, <2>1, <2>2 DEF Promise!Confirm, Promise!Undelivered, Status
<1> QED BY <1>5, <1>6

\* Everything else is hidden.
LEMMA OthersHide ==
    ASSUME IInv, [Next]_vars,
           \A w \in Workers : ~Record(w) /\ \A outcome \in Outcomes : ~Send(w, outcome),
           \A a \in Admins : ~AdminRetry(a),
           \A m \in DOMAIN message, status \in {"DELIVERED", "FAILED", "UNKNOWN"} :
               ~Receipt(m, status)
    PROVE  UNCHANGED Promise!vars
<1>1. delivery \in Delivery
  BY DEF IInv, Shape, TypeOK
<1>2. UNCHANGED message
  BY DEF Next, Handle, Fetch, Sweep, Find, Claim, Requeue, Finish, Crash, Throw,
         Expire, SweepByAnother, AdminRead, AdminConflict, Tick, vars
<1>3. UNCHANGED delivery \/ ResetStale \/ (\E w \in Workers : Claim(w)) \/ Tick
  BY DEF Next, Handle, Fetch, Find, Requeue, Finish, Crash, Throw, Sweep,
         Expire, SweepByAnother, AdminRead, AdminConflict, vars
<1>4. CASE ResetStale
  <2>1. delivery'.cycle = delivery.cycle /\ Status' = Status
    BY <1>1, <1>4 DEF ResetStale, Stale, Status, Delivery
  <2> QED BY <1>2, <2>1, Hidden DEF IInv
<1>5. CASE \E w \in Workers : Claim(w)
  <2>1. delivery'.cycle = delivery.cycle /\ Status' = Status
    BY <1>1, <1>5 DEF Claim, Unclaimed, Status, Delivery
  <2> QED BY <1>2, <2>1, Hidden DEF IInv
<1>6. CASE Tick
  <2>1. delivery'.cycle = delivery.cycle /\ Status' = Status
    BY <1>1, <1>6 DEF Tick, Status, Delivery
  <2> QED BY <1>2, <2>1, Hidden DEF IInv
<1>7. CASE UNCHANGED delivery
  BY <1>2, <1>7, Hidden DEF IInv, Status
<1> QED BY <1>3, <1>4, <1>5, <1>6, <1>7

LEMMA PromiseSteps == IInv /\ [Next]_vars => [Promise!Next]_(Promise!vars)
<1> SUFFICES ASSUME IInv, [Next]_vars
             PROVE  Promise!Next \/ UNCHANGED Promise!vars
  OBVIOUS
<1>1. ASSUME NEW w \in Workers, NEW outcome \in Outcomes, Send(w, outcome)
      PROVE  Promise!Next \/ UNCHANGED Promise!vars
  BY <1>1, SendRefines DEF Promise!Next
<1>2. ASSUME NEW w \in Workers, Record(w)
      PROVE  Promise!Next \/ UNCHANGED Promise!vars
  BY <1>2, RecordRefines DEF Promise!Next
<1>3. ASSUME NEW a \in Admins, AdminRetry(a)
      PROVE  Promise!Next \/ UNCHANGED Promise!vars
  BY <1>3, RetryRefines DEF Promise!Next
<1>4. ASSUME NEW m \in DOMAIN message,
             NEW status \in {"DELIVERED", "FAILED", "UNKNOWN"}, Receipt(m, status)
      PROVE  Promise!Next \/ UNCHANGED Promise!vars
  BY <1>4, ReceiptRefines DEF Promise!Next
<1> QED BY <1>1, <1>2, <1>3, <1>4, OthersHide

LEMMA PromiseStarts == Init => Promise!Init
<1> SUFFICES ASSUME Init PROVE Promise!Init
  OBVIOUS
<1>1. delivery.status = "QUEUED" /\ delivery.cycle = 0 /\ message = <<>>
  BY DEF Init
<1>2. Accepted = <<>>
  BY <1>1 DEF Accepted
<1> QED BY <1>1, <1>2 DEF Promise!Init, Status

\* The jobs, the handlers and their times add up to the promise of the
\* outbox, with at most one receipt per message: the provider gets messages
\* while the notification is open and at no other time.
THEOREM Refinement == Receipts <= 1 /\ Spec => OutboxIsKept
<1> SUFFICES ASSUME Receipts <= 1 PROVE Spec => OutboxIsKept
  OBVIOUS
<1> QED BY PromiseStarts, PromiseSteps, InvariantHolds, PTL
        DEF Spec, OutboxIsKept, Promise!Spec
-----------------------------------------------------------------------------
(* No delivery is stranded.                                                *)

\* A job comes back for each crash of a worker that had it.
RetriesAreCrashes ==
    \A j \in Jobs : /\ job[j].retries <= crashes
                    /\ Abandoned(j) => job[j].retries < crashes

SendsAreDue == delivery.status = "SENDING" => delivery.wait = 0

Kept == RetriesAreCrashes /\ SendsAreDue /\ NeverStranded

\* The queue has retries for every crash, statements do not fail, and a job
\* that is expired and retried comes after the longest backoff.
QueueIsPatient ==
    /\ MaxFailures = 0 /\ MaxCrashes <= JobRetries
    /\ \A n \in 1 .. RetryLimit : Backoff[n] <= ExpireAfter + RetryDelay

\* A job that is left alone goes on being what the delivery waits for.
LEMMA JobStays ==
    ASSUME NEW j \in Jobs, job'[j] = job[j],
           delivery'.wait = delivery.wait, delivery'.age = delivery.age,
           \A v \in Workers :
               worker'[v].stage # "idle" /\ worker'[v].job = j =>
                   worker[v].stage # "idle" /\ worker[v].job = j
    PROVE  /\ JobFindsDue(j) => JobFindsDue(j)'
           /\ JobFindsStale(j) => JobFindsStale(j)'
BY DEF JobFindsDue, JobFindsStale, Abandoned

\* So does a handler.
LEMMA HandlerStays ==
    ASSUME NEW v \in Workers, worker'[v] = worker[v],
           worker[v].stage # "idle" => job'[worker[v].job] = job[worker[v].job],
           delivery'.wait = delivery.wait, delivery'.age = delivery.age
    PROVE  /\ HandlerFindsDue(v) => HandlerFindsDue(v)'
           /\ HandlerFindsStale(v) => HandlerFindsStale(v)'
BY DEF HandlerFindsDue, HandlerFindsStale, RetryWait

LEMMA FetchKeeps ==
    ASSUME IInv, NeverStranded, NEW w \in Workers, NEW j \in Jobs, Fetch(w, j)
    PROVE  NeverStranded'
<1>1. /\ job[j].state = "created" /\ job[j].wait = 0 /\ UNCHANGED delivery
      /\ \A i \in Jobs : i # j => job'[i] = job[i]
      /\ \A v \in Workers : v # w => worker'[v] = worker[v]
      /\ worker[w].stage = "idle" /\ worker'[w].stage = "sweep" /\ worker'[w].job = j
  BY DEF Fetch, IInv, Shape, TypeOK, Handler
<1>2. ASSUME NEW v \in Workers, worker[v].stage # "idle"
      PROVE  /\ HandlerFindsDue(v) => HandlerFindsDue(v)'
             /\ HandlerFindsStale(v) => HandlerFindsStale(v)'
  <2>1. worker[v].job \in Jobs /\ worker[v].job # j /\ v # w
    BY <1>1, <1>2 DEF IInv, Shape, HandlersHoldJobs
  <2> QED BY <1>1, <2>1, HandlerStays
<1>3. ASSUME NEW i \in Jobs, i # j
      PROVE  /\ JobFindsDue(i) => JobFindsDue(i)'
             /\ JobFindsStale(i) => JobFindsStale(i)'
  BY <1>1, <1>3, JobStays
<1>4. JobFindsDue(j) => HandlerFindsDue(w)'
  BY <1>1, Types DEF JobFindsDue, HandlerFindsDue, Abandoned, IInv
<1>5. JobFindsStale(j) => HandlerFindsStale(w)'
  BY <1>1 DEF JobFindsStale, HandlerFindsStale, Abandoned
<1>6. Sending # {} => Sending' # {}
  BY <1>1 DEF Sending
<1>7. \A v \in Workers : HandlerFindsDue(v) \/ HandlerFindsStale(v) => worker[v].stage # "idle"
  BY DEF HandlerFindsDue, HandlerFindsStale
<1> QED BY <1>1, <1>2, <1>3, <1>4, <1>5, <1>6, <1>7 DEF NeverStranded
\* A step of the handler of w that leaves the row alone; what is due to w
\* itself is for each step to say.
LEMMA TurnKeeps ==
    ASSUME IInv, NeverStranded, NEW w \in Workers, worker[w].stage # "idle",
           UNCHANGED delivery,
           \A v \in Workers : v # w => worker'[v] = worker[v],
           worker'[w].stage = "idle" \/ worker'[w].job = worker[w].job,
           \A i \in Jobs :
               i # worker[w].job => job'[i] = job[i] \/ job[i].state = "none",
           delivery.status = "QUEUED" /\ HandlerFindsDue(w) => NeverStranded',
           delivery.status = "SENDING" /\ (HandlerFindsStale(w) \/ w \in Sending) =>
               NeverStranded'
    PROVE  NeverStranded'
<1>1. /\ worker[w].job \in Jobs /\ job[worker[w].job].state = "active"
      /\ \A v \in Workers : v # w /\ worker[v].stage # "idle" =>
             /\ worker[v].job \in Jobs /\ worker[v].job # worker[w].job
             /\ job[worker[v].job].state = "active"
  BY DEF IInv, Shape, HandlersHoldJobs
<1>2. ASSUME NEW v \in Workers, v # w
      PROVE  /\ HandlerFindsDue(v) => HandlerFindsDue(v)'
             /\ HandlerFindsStale(v) => HandlerFindsStale(v)'
             /\ v \in Sending => v \in Sending'
  <2>1. worker[v].stage # "idle" => job'[worker[v].job] = job[worker[v].job]
    BY <1>1, <1>2
  <2>2. worker'[v] = worker[v]
    BY <1>2
  <2> QED BY <2>1, <2>2, HandlerStays DEF Sending
<1>3. ASSUME NEW j \in Jobs
      PROVE  /\ JobFindsDue(j) => JobFindsDue(j)'
             /\ JobFindsStale(j) => JobFindsStale(j)'
  <2>1. CASE job'[j] = job[j] /\ j # worker[w].job
    <3>1. \A v \in Workers :
              worker'[v].stage # "idle" /\ worker'[v].job = j =>
                  worker[v].stage # "idle" /\ worker[v].job = j
      BY <2>1
    <3> QED BY <2>1, <3>1, JobStays
  <2>2. CASE j = worker[w].job
    BY <1>1, <2>2 DEF JobFindsDue, JobFindsStale, Abandoned
  <2>3. CASE job[j].state = "none"
    BY <2>3 DEF JobFindsDue, JobFindsStale, Abandoned
  <2> QED BY <2>1, <2>2, <2>3
<1>4. Sending # {} => w \in Sending \/ Sending' # {}
  BY <1>2 DEF Sending
<1> QED BY <1>2, <1>3, <1>4 DEF NeverStranded

\* A handler that looks at the row, and takes it or leaves it.
LEMMA FindKeeps ==
    ASSUME IInv, NeverStranded, NEW w \in Workers, Find(w)
    PROVE  NeverStranded'
<1>1. /\ worker[w].stage = "find" /\ UNCHANGED <<delivery, job>>
      /\ \A v \in Workers : v # w => worker'[v] = worker[v]
      /\ worker'[w].job = worker[w].job
      /\ Due => worker'[w].stage = "claim"
  BY DEF Find, IInv, Shape, TypeOK, Handler
<1>2. delivery.status = "QUEUED" /\ HandlerFindsDue(w) => HandlerFindsDue(w)'
  BY <1>1 DEF HandlerFindsDue, Due
<1>3. ~HandlerFindsStale(w) /\ w \notin Sending
  BY <1>1 DEF HandlerFindsStale, Sending
<1>4. delivery.status = "QUEUED" /\ HandlerFindsDue(w) => NeverStranded'
  BY <1>1, <1>2 DEF NeverStranded
<1> QED BY <1>1, <1>3, <1>4, TurnKeeps

LEMMA FinishKeeps ==
    ASSUME IInv, NeverStranded, NEW w \in Workers, Finish(w)
    PROVE  NeverStranded'
<1>1. /\ worker[w].stage = "finish" /\ UNCHANGED delivery
      /\ \A v \in Workers : v # w => worker'[v] = worker[v]
      /\ worker'[w].stage = "idle"
      /\ \A i \in Jobs : i # worker[w].job => job'[i] = job[i]
  BY DEF Finish, NoHandler, IInv, Shape, TypeOK
<1>2. ~HandlerFindsDue(w) /\ ~HandlerFindsStale(w) /\ w \notin Sending
  BY <1>1 DEF HandlerFindsDue, HandlerFindsStale, Sending
<1> QED BY <1>1, <1>2, TurnKeeps

LEMMA RequeueKeeps ==
    ASSUME IInv, NeverStranded, NEW w \in Workers, Requeue(w)
    PROVE  NeverStranded'
<1>1. /\ worker[w].stage = "requeue" /\ UNCHANGED delivery
      /\ \A v \in Workers : v # w => worker'[v] = worker[v]
      /\ worker'[w].stage = "finish" /\ worker'[w].job = worker[w].job
  BY GoIs DEF Requeue, IInv
<1>2. PICK j \in Jobs :
          job[j].state = "none"
          /\ job' = [job EXCEPT ![j].state = "created", ![j].wait = RetryWait(w)]
  BY DEF Requeue, Enqueue
<1>3. /\ job'[j].state = "created" /\ job'[j].wait = RetryWait(w)
      /\ \A i \in Jobs : i # j => job'[i] = job[i]
  BY <1>2 DEF IInv, Shape, TypeOK, Job
<1>4. HandlerFindsDue(w) => JobFindsDue(j)'
  BY <1>1, <1>3 DEF HandlerFindsDue, JobFindsDue
<1>5. delivery.status = "QUEUED" /\ HandlerFindsDue(w) => NeverStranded'
  BY <1>1, <1>4 DEF NeverStranded
<1>6. ~HandlerFindsStale(w) /\ w \notin Sending
  BY <1>1 DEF HandlerFindsStale, Sending
<1>7. \A i \in Jobs : job'[i] = job[i] \/ job[i].state = "none"
  BY <1>2, <1>3
<1> QED BY <1>1, <1>5, <1>6, <1>7, TurnKeeps

LEMMA SendKeeps ==
    ASSUME IInv, NeverStranded, NEW w \in Workers, NEW outcome \in Outcomes,
           Send(w, outcome)
    PROVE  NeverStranded'
<1>1. /\ worker[w].stage = "send" /\ UNCHANGED <<delivery, job>>
      /\ \A v \in Workers : v # w => worker'[v] = worker[v]
      /\ worker'[w].stage = "record" /\ worker'[w].job = worker[w].job
  BY DEF Send, IInv, Shape, TypeOK, Handler
<1>2. w \in Sending' /\ ~HandlerFindsStale(w) /\ ~HandlerFindsDue(w)
  BY <1>1 DEF Sending, HandlerFindsStale, HandlerFindsDue
<1>3. delivery.status = "SENDING" => NeverStranded'
  BY <1>1, <1>2 DEF NeverStranded
<1> QED BY <1>1, <1>2, <1>3, TurnKeeps

\* The job of a handler that died comes back in time.
LEMMA CrashKeeps ==
    ASSUME QueueIsPatient, IInv, Kept, NEW w \in Workers, Crash(w)
    PROVE  NeverStranded'
<1>0. PICK j \in Jobs : j = worker[w].job
  BY DEF Crash, IInv, Shape, HandlersHoldJobs
<1>1. /\ worker[w].stage # "idle" /\ UNCHANGED <<delivery, job>>
      /\ \A v \in Workers : v # w => worker'[v] = worker[v]
      /\ worker'[w].stage = "idle"
  BY DEF Crash, NoHandler, IInv, Shape, TypeOK
<1>2. /\ job[j].state = "active"
      /\ \A v \in Workers : v # w /\ worker[v].stage # "idle" => worker[v].job # j
  BY <1>0, <1>1 DEF IInv, Shape, HandlersHoldJobs
<1>3. Abandoned(j)'
  BY <1>1, <1>2 DEF Abandoned
<1>4. /\ job[j].age \in 0 .. ExpireAfter /\ ExpireAfter \in Nat /\ RetryDelay \in Nat
      /\ delivery.wait \in Nat
  BY Types, Constants DEF IInv
<1>5. ASSUME HandlerFindsDue(w) PROVE JobFindsDue(j)'
  <2>1. CASE delivery.wait = 0
    BY <1>1, <1>3, <1>4, <2>1 DEF JobFindsDue
  <2>2. CASE worker[w].stage = "requeue" /\ delivery.wait <= RetryWait(w)
    <3>1. worker[w].number \in 1 .. RetryLimit
      BY <2>2, Types, Constants DEF ShouldRetry, IInv, Shape, HandlersAreInformed
    <3>2. Backoff[worker[w].number] <= ExpireAfter + RetryDelay
          /\ Backoff[worker[w].number] \in Nat
      BY <3>1, Constants DEF QueueIsPatient
    <3>3. RetryWait(w) <= ExpireAfter - job[j].age + RetryDelay
      BY <1>0, <1>4, <3>2 DEF RetryWait
    <3>4. RetryWait(w) \in Nat
      BY <1>0, <1>4, <3>2 DEF RetryWait
    <3>5. delivery.wait <= ExpireAfter - job[j].age + RetryDelay
      BY <1>4, <2>2, <3>3, <3>4
    <3> QED BY <1>1, <1>3, <3>5 DEF JobFindsDue
  <2> QED BY <1>5, <2>1, <2>2 DEF HandlerFindsDue
<1>6. ASSUME HandlerFindsStale(w) \/ w \in Sending PROVE JobFindsStale(j)'
  <2>1. delivery.age \in {job[j].age, StaleAfter}
    BY <1>0, <1>6, SendersAreFresh DEF HandlerFindsStale, IInv
  <2> QED BY <1>1, <1>3, <2>1 DEF JobFindsStale
<1>7. delivery.status = "QUEUED" /\ HandlerFindsDue(w) => NeverStranded'
  BY <1>1, <1>5 DEF NeverStranded
<1>8. delivery.status = "SENDING" /\ (HandlerFindsStale(w) \/ w \in Sending) =>
          NeverStranded'
  BY <1>1, <1>6 DEF NeverStranded
<1> QED BY <1>1, <1>7, <1>8, TurnKeeps DEF Kept
\* A reset makes the send of a handler that is gone due at once.
LEMMA ResetKeeps ==
    ASSUME IInv, Kept, ResetStale, Stale, UNCHANGED job,
           \A v \in Workers : \/ worker'[v] = worker[v]
                              \/ /\ worker[v].stage = "sweep"
                                 /\ worker'[v].stage = "find"
                                 /\ worker'[v].job = worker[v].job
    PROVE  NeverStranded'
<1>1. delivery.status = "SENDING" /\ Sending = {} /\ delivery.wait = 0
  BY StaleIsNobodys DEF Stale, IInv, Kept, SendsAreDue
<1>2. delivery'.status = "QUEUED" /\ delivery'.wait = 0
  BY <1>1 DEF ResetStale, IInv, Shape, TypeOK, Delivery
<1>3. ASSUME NEW j \in Jobs, JobFindsStale(j) PROVE JobFindsDue(j)'
  <2>1. CASE job[j].state = "created"
    <3>1. job[j].wait \in Nat
      BY Types DEF IInv
    <3> QED BY <1>2, <2>1, <3>1 DEF JobFindsDue
  <2>2. CASE Abandoned(j)
    <3>1. Abandoned(j)'
      BY <2>2 DEF Abandoned
    <3>2. 0 <= ExpireAfter - job[j].age + RetryDelay
      BY Types, Constants DEF IInv
    <3> QED BY <1>2, <3>1, <3>2 DEF JobFindsDue
  <2> QED BY <1>3, <2>1, <2>2 DEF JobFindsStale
<1>4. ASSUME NEW v \in Workers, HandlerFindsStale(v) PROVE HandlerFindsDue(v)'
  BY <1>2, <1>4 DEF HandlerFindsStale, HandlerFindsDue
<1> QED BY <1>1, <1>2, <1>3, <1>4 DEF Kept, NeverStranded

LEMMA SweepKeeps ==
    ASSUME IInv, Kept, NEW w \in Workers, Sweep(w)
    PROVE  NeverStranded'
<1>1. /\ worker[w].stage = "sweep" /\ UNCHANGED job /\ ResetStale
      /\ \A v \in Workers : v # w => worker'[v] = worker[v]
      /\ worker'[w].stage = "find" /\ worker'[w].job = worker[w].job
  BY GoIs DEF Sweep, IInv
<1>2. CASE Stale
  BY <1>1, <1>2, ResetKeeps
<1>3. CASE ~Stale
  <2>1. UNCHANGED delivery
    BY <1>1, <1>3 DEF ResetStale
  <2>2. HandlerFindsDue(w) => HandlerFindsDue(w)'
    BY <1>1, <2>1 DEF HandlerFindsDue
  <2>3. delivery.status = "QUEUED" /\ HandlerFindsDue(w) => NeverStranded'
    BY <2>1, <2>2 DEF NeverStranded
  <2>4. ~(delivery.status = "SENDING" /\ HandlerFindsStale(w)) /\ w \notin Sending
    BY <1>1, <1>3, Constants DEF HandlerFindsStale, Sending, Stale
  <2> QED BY <1>1, <2>1, <2>3, <2>4, TurnKeeps DEF Kept
<1> QED BY <1>2, <1>3

LEMMA ClaimKeeps ==
    ASSUME IInv, NeverStranded, NEW w \in Workers, Claim(w)
    PROVE  NeverStranded'
<1>1. CASE Unclaimed
  <2>1. delivery'.status = "SENDING" /\ Go(w, "send")
    BY <1>1 DEF Claim, IInv, Shape, TypeOK, Delivery
  <2>2. w \in Sending'
    BY <2>1, GoIs DEF Sending, IInv
  <2> QED BY <2>1, <2>2 DEF NeverStranded
<1>2. CASE ~Unclaimed
  <2>1. /\ worker[w].stage = "claim" /\ UNCHANGED <<delivery, job>>
        /\ \A v \in Workers : v # w => worker'[v] = worker[v]
        /\ worker'[w].stage = "finish" /\ worker'[w].job = worker[w].job
    BY <1>2, GoIs DEF Claim, IInv
  <2>2. delivery.status # "QUEUED" /\ ~HandlerFindsStale(w) /\ w \notin Sending
    BY <1>2, <2>1 DEF Unclaimed, HandlerFindsStale, Sending
  <2> QED BY <2>1, <2>2, TurnKeeps
<1> QED BY <1>1, <1>2

LEMMA RecordKeeps ==
    ASSUME IInv, NEW w \in Workers, Record(w)
    PROVE  NeverStranded'
<1>1. worker[w].stage = "record" /\ UNCHANGED job
  BY DEF Record
<1>2. CASE ~ShouldRetry(w)
  <2>1. worker[w].outcome \in Outcomes \ {"none"}
    BY <1>1, Types DEF IInv, Shape, HandlersAreInformed
  <2>2. FinalStatus(worker[w].outcome) \in {"PROVIDER_ACCEPTED", "UNKNOWN", "FAILED"}
    BY <2>1 DEF FinalStatus, Outcomes
  <2> QED BY <1>2, <2>2, RecordIs DEF NeverStranded, IInv
<1>3. CASE ShouldRetry(w)
  <2>1. delivery'.status = "QUEUED" /\ delivery'.wait = RetryWait(w)
    BY <1>3 DEF Record, IInv, Shape, TypeOK, Delivery
  <2>2. Go(w, "requeue")
    BY <1>3 DEF Record
  <2>3. /\ worker'[w].stage = "requeue" /\ worker'[w].job = worker[w].job
        /\ worker'[w].number = worker[w].number
    BY <2>2 DEF Go, IInv, Shape, TypeOK, Handler
  <2>4. RetryWait(w)' = RetryWait(w)
    BY <1>1, <2>3 DEF RetryWait
  <2>5. RetryWait(w) \in Nat
    BY <1>1, <1>3, WaitIsNat DEF IInv
  <2>6. HandlerFindsDue(w)'
    BY <2>1, <2>3, <2>4, <2>5 DEF HandlerFindsDue
  <2> QED BY <2>1, <2>6 DEF NeverStranded
<1> QED BY <1>2, <1>3

\* The queue hands the job of a dead worker out again.
LEMMA ExpireKeeps ==
    ASSUME QueueIsPatient, IInv, Kept, NEW j \in Jobs, Expire(j)
    PROVE  NeverStranded'
<1>1. /\ job[j].state = "active" /\ job[j].age = ExpireAfter
      /\ UNCHANGED <<delivery, worker>> /\ FailJob(j)
  BY DEF Expire
<1>2. /\ \A i \in Jobs : i # j => job'[i] = job[i]
      /\ \A v \in Workers : worker[v].stage # "idle" =>
             worker[v].job \in Jobs /\ worker[v].job # j
  BY <1>1, FailShape, Constants DEF IInv, Shape, HandlersHoldJobs
<1>3. job[j].retries < crashes
  BY <1>1, <1>2 DEF Abandoned, Kept, RetriesAreCrashes
<1>4. job[j].retries # JobRetries
  BY <1>3, Types, Constants DEF QueueIsPatient, IInv, Shape, TypeOK
<1>5. job'[j].state = "created" /\ job'[j].wait = RetryDelay
  BY <1>1, <1>4 DEF FailJob, IInv, Shape, TypeOK
<1>6. JobFindsDue(j) => JobFindsDue(j)'
  BY <1>1, <1>5, Types, Constants DEF JobFindsDue, IInv
<1>7. JobFindsStale(j) => JobFindsStale(j)'
  BY <1>1, <1>5, Types, Constants DEF JobFindsStale, IInv
<1>8. ASSUME NEW i \in Jobs, i # j
      PROVE  /\ JobFindsDue(i) => JobFindsDue(i)'
             /\ JobFindsStale(i) => JobFindsStale(i)'
  BY <1>1, <1>2, <1>8, JobStays
<1>9. ASSUME NEW v \in Workers
      PROVE  /\ HandlerFindsDue(v) => HandlerFindsDue(v)'
             /\ HandlerFindsStale(v) => HandlerFindsStale(v)'
  BY <1>1, <1>2, HandlerStays
<1> QED BY <1>1, <1>6, <1>7, <1>8, <1>9 DEF Kept, NeverStranded, Sending
LEMMA RetryKeeps ==
    ASSUME IInv, NEW a \in Admins, AdminRetry(a)
    PROVE  NeverStranded'
<1>1. delivery'.status = "QUEUED" /\ delivery'.wait = 0
  BY DEF AdminRetry, IInv, Shape, TypeOK, Delivery
<1>2. PICK j \in Jobs : job' = [job EXCEPT ![j].state = "created", ![j].wait = 0]
  BY DEF AdminRetry, Enqueue
<1>3. job'[j].state = "created" /\ job'[j].wait = 0
  BY <1>2 DEF IInv, Shape, TypeOK, Job
<1>4. JobFindsDue(j)'
  BY <1>1, <1>3 DEF JobFindsDue
<1> QED BY <1>1, <1>4 DEF NeverStranded

LEMMA ReceiptKeeps ==
    ASSUME IInv, NeverStranded, NEW m \in DOMAIN message,
           NEW status \in {"DELIVERED", "FAILED", "UNKNOWN"}, Receipt(m, status)
    PROVE  NeverStranded'
<1>1. UNCHANGED <<job, worker>>
  BY DEF Receipt
<1>2. CASE delivery.message = m
  <2>1. delivery'.status = status
    BY <1>2 DEF Receipt, IInv, Shape, TypeOK, Delivery
  <2> QED BY <2>1 DEF NeverStranded
<1>3. CASE delivery.message # m
  <2>1. UNCHANGED delivery
    BY <1>3 DEF Receipt
  <2> QED BY <1>1, <2>1 DEF NeverStranded, JobFindsDue, JobFindsStale, HandlerFindsDue,
                            HandlerFindsStale, RetryWait, Sending, Abandoned
<1> QED BY <1>2, <1>3

\* A delivery and what it waits for grow old together.
LEMMA TickKeeps ==
    ASSUME IInv, NeverStranded, Tick
    PROVE  NeverStranded'
<1>1. /\ UNCHANGED worker /\ delivery'.status = delivery.status
      /\ delivery'.wait = Less(delivery.wait)
      /\ delivery'.age = IF delivery.status = "SENDING" /\ delivery.age < StaleAfter
                         THEN delivery.age + 1 ELSE delivery.age
  BY DEF Tick, IInv, Shape, TypeOK, Delivery
<1>2. ASSUME NEW j \in Jobs
      PROVE  /\ job'[j].state = job[j].state /\ job'[j].wait = Less(job[j].wait)
             /\ job[j].state = "active" =>
                    job'[j].age = job[j].age + 1 /\ job[j].age < ExpireAfter
  BY DEF Tick, IInv, Shape, TypeOK, Job
<1>3. /\ delivery.wait \in Nat /\ delivery.age \in Nat /\ StaleAfter \in Nat
      /\ delivery.age <= StaleAfter
      /\ ExpireAfter \in Nat /\ RetryDelay \in Nat
      /\ \A j \in Jobs : job[j].wait \in Nat /\ job[j].age \in Nat
  BY Types, Constants DEF IInv
<1>4. ASSUME NEW j \in Jobs
      PROVE  JobFindsDue(j) => JobFindsDue(j)'
  <2>1. CASE job[j].state = "created" /\ delivery.wait <= job[j].wait
    BY <1>1, <1>2, <1>3, <2>1 DEF JobFindsDue, Less
  <2>2. CASE Abandoned(j) /\ delivery.wait <= ExpireAfter - job[j].age + RetryDelay
    <3>1. Abandoned(j)' /\ job'[j].age = job[j].age + 1 /\ job[j].age < ExpireAfter
      BY <1>1, <1>2, <2>2 DEF Abandoned
    <3>2. Less(delivery.wait) <= ExpireAfter - (job[j].age + 1) + RetryDelay
      BY <1>3, <2>2, <3>1 DEF Less
    <3> QED BY <1>1, <3>1, <3>2 DEF JobFindsDue
  <2> QED BY <2>1, <2>2 DEF JobFindsDue
<1>5. ASSUME NEW j \in Jobs, delivery.status = "SENDING"
      PROVE  JobFindsStale(j) => JobFindsStale(j)'
  <2>1. CASE job[j].state = "created" /\ delivery.age = StaleAfter
    BY <1>1, <1>2, <1>3, <2>1 DEF JobFindsStale
  <2>2. CASE Abandoned(j) /\ delivery.age \in {job[j].age, StaleAfter}
    <3>1. Abandoned(j)' /\ job'[j].age = job[j].age + 1
      BY <1>1, <1>2, <2>2 DEF Abandoned
    <3>2. delivery'.age \in {job[j].age + 1, StaleAfter}
      BY <1>1, <1>3, <1>5, <2>2
    <3> QED BY <3>1, <3>2 DEF JobFindsStale
  <2> QED BY <2>1, <2>2 DEF JobFindsStale
<1>6. ASSUME NEW w \in Workers
      PROVE  HandlerFindsDue(w) => HandlerFindsDue(w)'
  <2>1. CASE worker[w].stage \in {"sweep", "find", "claim"} /\ delivery.wait = 0
    BY <1>1, <2>1 DEF HandlerFindsDue, Less
  <2>2. CASE worker[w].stage = "requeue" /\ delivery.wait <= RetryWait(w)
    <3>1. worker[w].number \in 1 .. RetryLimit
      BY <2>2, Types, Constants DEF ShouldRetry, IInv, Shape, HandlersAreInformed
    <3>2. Backoff[worker[w].number] \in Nat
      BY <3>1, Constants
    <3>3. worker[w].job \in Jobs /\ job[worker[w].job].state = "active"
      BY <2>2 DEF IInv, Shape, HandlersHoldJobs
    <3>4. job'[worker[w].job].age = job[worker[w].job].age + 1
          /\ job[worker[w].job].age \in Nat
      BY <1>2, <1>3, <3>3
    <3>5. Less(delivery.wait) <= RetryWait(w)'
      BY <1>1, <1>3, <2>2, <3>2, <3>4 DEF RetryWait, Less
    <3> QED BY <1>1, <2>2, <3>5 DEF HandlerFindsDue
  <2> QED BY <2>1, <2>2 DEF HandlerFindsDue
<1>7. \A w \in Workers : HandlerFindsStale(w) => HandlerFindsStale(w)'
  BY <1>1, <1>3 DEF HandlerFindsStale
<1> QED BY <1>1, <1>4, <1>5, <1>6, <1>7 DEF NeverStranded, Sending
LEMMA RetriesStay ==
    ASSUME RetriesAreCrashes, UNCHANGED crashes,
           \A j \in Jobs : /\ job'[j].retries = job[j].retries
                           /\ job'[j].state = "active" => job[j].state = "active",
           \A w \in Workers :
               worker[w].stage # "idle" =>
                   worker'[w].stage # "idle" /\ worker'[w].job = worker[w].job
    PROVE  RetriesAreCrashes'
BY DEF RetriesAreCrashes, Abandoned

LEMMA NewJobs ==
    ASSUME IInv, NEW wait, Enqueue(wait), NEW j \in Jobs
    PROVE  /\ job'[j].retries = job[j].retries
           /\ job'[j].state = "active" => job[j].state = "active"
BY DEF Enqueue, IInv, Shape, TypeOK, Job

LEMMA RetriesKept ==
    ASSUME QueueIsPatient, IInv, RetriesAreCrashes, [Next]_vars
    PROVE  RetriesAreCrashes'
<1>0. /\ job \in [Jobs -> Job] /\ worker \in [Workers -> Handler]
      /\ crashes \in Nat
      /\ \A j \in Jobs : job[j].retries \in Nat
  BY Types, Constants DEF IInv, Shape, TypeOK
<1>1. ASSUME NEW w \in Workers, NEW j \in Jobs, Fetch(w, j) PROVE RetriesAreCrashes'
  <2>1. /\ job'[j].retries = job[j].retries /\ UNCHANGED crashes
        /\ \A i \in Jobs : i # j => job'[i] = job[i]
        /\ \A v \in Workers : v # w => worker'[v] = worker[v]
        /\ worker[w].stage = "idle" /\ worker'[w].stage = "sweep" /\ worker'[w].job = j
    BY <1>0, <1>1 DEF Fetch, Job, Handler
  <2> QED BY <2>1 DEF RetriesAreCrashes, Abandoned
<1>2. ASSUME NEW w \in Workers,
             Sweep(w) \/ Find(w) \/ Claim(w) \/ Record(w) \/ Requeue(w)
             \/ \E outcome \in Outcomes : Send(w, outcome)
      PROVE  RetriesAreCrashes'
  <2>1. UNCHANGED crashes /\ worker[w].stage # "idle"
    BY <1>2 DEF Sweep, Find, Claim, Record, Requeue, Send
  <2>2. \A j \in Jobs : /\ job'[j].retries = job[j].retries
                        /\ job'[j].state = "active" => job[j].state = "active"
    <3>1. CASE Requeue(w)
      BY <3>1, NewJobs DEF Requeue
    <3>2. CASE ~Requeue(w)
      BY <1>2, <3>2 DEF Sweep, Find, Claim, Record, Send
    <3> QED BY <3>1, <3>2
  <2>3. worker'[w].stage # "idle" /\ worker'[w].job = worker[w].job
        /\ \A v \in Workers : v # w => worker'[v] = worker[v]
    <3>1. CASE \E stage \in {"find", "send", "requeue", "finish"} : Go(w, stage)
      BY <3>1, GoIs DEF IInv
    <3>2. CASE Find(w)
      BY <1>0, <3>2 DEF Find, Handler
    <3>4. ASSUME NEW outcome \in Outcomes, Send(w, outcome)
          PROVE  /\ worker'[w].stage = "record" /\ worker'[w].job = worker[w].job
                 /\ \A v \in Workers : v # w => worker'[v] = worker[v]
      BY <1>0, <3>4 DEF Send, Handler
    <3>3. Sweep(w) \/ Claim(w) \/ Record(w) \/ Requeue(w)
            => \E stage \in {"find", "send", "requeue", "finish"} : Go(w, stage)
      BY DEF Sweep, Claim, Record, Requeue
    <3> QED BY <1>2, <3>1, <3>2, <3>3, <3>4
  <2> QED BY <2>1, <2>2, <2>3, RetriesStay
<1>3. ASSUME NEW w \in Workers, Finish(w) PROVE RetriesAreCrashes'
  <2>1. worker[w].job \in Jobs
    BY <1>3 DEF Finish, IInv, Shape, HandlersHoldJobs
  <2>2. /\ UNCHANGED crashes
        /\ \A i \in Jobs : job'[i] = IF i = worker[w].job THEN NoJob ELSE job[i]
        /\ \A v \in Workers : v # w => worker'[v] = worker[v]
    BY <1>0, <1>3 DEF Finish
  <2> QED BY <1>0, <2>1, <2>2 DEF RetriesAreCrashes, Abandoned, NoJob
<1>4. ASSUME NEW w \in Workers, Crash(w) PROVE RetriesAreCrashes'
  <2>1. /\ crashes' = crashes + 1 /\ UNCHANGED job
        /\ \A v \in Workers : v # w => worker'[v] = worker[v]
    BY <1>0, <1>4 DEF Crash
  <2> QED BY <1>0, <2>1 DEF RetriesAreCrashes
<1>5. ASSUME NEW w \in Workers, Throw(w) PROVE RetriesAreCrashes'
  BY <1>5 DEF Throw, QueueIsPatient, IInv, Shape, TypeOK
<1>6. ASSUME NEW j \in Jobs, Expire(j) PROVE RetriesAreCrashes'
  <2>1. \A v \in Workers : worker[v].stage # "idle" => worker[v].job # j
    BY <1>6, Constants DEF Expire, IInv, Shape, HandlersHoldJobs
  <2>2. job[j].retries < crashes
    BY <1>6, <2>1 DEF Expire, Abandoned, RetriesAreCrashes
  <2>3. /\ UNCHANGED <<worker, crashes>>
        /\ \A i \in Jobs : i # j => job'[i] = job[i]
        /\ job'[j].state # "active" /\ job'[j].retries \in {0, job[j].retries + 1}
    BY <1>0, <1>6 DEF Expire, FailJob, NoJob
  <2> QED BY <1>0, <2>2, <2>3 DEF RetriesAreCrashes, Abandoned
<1>7. ASSUME NEW a \in Admins, AdminRead(a) \/ AdminRetry(a) \/ AdminConflict(a)
      PROVE  RetriesAreCrashes'
  <2>1. UNCHANGED <<worker, crashes>>
    BY <1>7 DEF AdminRead, AdminRetry, AdminConflict
  <2>2. \A j \in Jobs : /\ job'[j].retries = job[j].retries
                        /\ job'[j].state = "active" => job[j].state = "active"
    BY <1>7, NewJobs DEF AdminRead, AdminRetry, AdminConflict
  <2> QED BY <2>1, <2>2, RetriesStay
<1>8. CASE Tick
  <2>1. \A j \in Jobs : /\ job'[j].retries = job[j].retries
                        /\ job'[j].state = job[j].state
    BY <1>0, <1>8 DEF Tick, Job
  <2> QED BY <1>8, <2>1, RetriesStay DEF Tick
<1>9. CASE SweepByAnother \/ UNCHANGED vars
           \/ \E m \in DOMAIN message, status \in {"DELIVERED", "FAILED", "UNKNOWN"} :
                  Receipt(m, status)
  <2>1. UNCHANGED <<job, worker, crashes>>
    BY <1>9 DEF SweepByAnother, Receipt, vars
  <2> QED BY <2>1, RetriesStay
<1> QED BY <1>1, <1>2, <1>3, <1>4, <1>5, <1>6, <1>7, <1>8, <1>9 DEF Next, Handle

LEMMA DueKept ==
    ASSUME IInv, SendsAreDue, [Next]_vars
    PROVE  SendsAreDue'
<1>0. delivery \in Delivery
  BY DEF IInv, Shape, TypeOK
<1>1. CASE ResetStale
  BY <1>0, <1>1 DEF ResetStale, SendsAreDue, Delivery
<1>2. ASSUME NEW w \in Workers, Claim(w) PROVE SendsAreDue'
  BY <1>0, <1>2 DEF Claim, SendsAreDue, Delivery
<1>3. ASSUME NEW w \in Workers, Record(w) PROVE SendsAreDue'
  <2>1. worker[w].outcome \in Outcomes \ {"none"}
    BY <1>3, Types DEF Record, IInv, Shape, HandlersAreInformed
  <2>2. delivery'.status # "SENDING"
    BY <1>3, <2>1, RecordIs DEF FinalStatus, Outcomes, IInv
  <2> QED BY <2>2 DEF SendsAreDue
<1>4. ASSUME NEW a \in Admins, AdminRetry(a) PROVE SendsAreDue'
  BY <1>4, AdminRetryShape DEF SendsAreDue, IInv
<1>5. ASSUME NEW m \in DOMAIN message,
             NEW status \in {"DELIVERED", "FAILED", "UNKNOWN"}, Receipt(m, status)
      PROVE  SendsAreDue'
  BY <1>0, <1>5 DEF Receipt, SendsAreDue, Delivery
<1>6. CASE Tick
  <2>1. delivery'.status = delivery.status /\ delivery'.wait = Less(delivery.wait)
    BY <1>0, <1>6 DEF Tick, Delivery
  <2> QED BY <2>1 DEF SendsAreDue, Less
<1>7. CASE UNCHANGED delivery
  BY <1>7 DEF SendsAreDue
<1>8. ASSUME delivery' # delivery
      PROVE  \/ ResetStale \/ (\E w \in Workers : Claim(w) \/ Record(w)) \/ Tick
             \/ (\E a \in Admins : AdminRetry(a))
             \/ \E m \in DOMAIN message, status \in {"DELIVERED", "FAILED", "UNKNOWN"} :
                    Receipt(m, status)
  BY <1>8 DEF Next, Handle, Fetch, Sweep, Find, Send, Requeue, Finish, Crash, Throw,
              Expire, SweepByAnother, AdminRead, AdminConflict, vars
<1> QED BY <1>1, <1>2, <1>3, <1>4, <1>5, <1>6, <1>7, <1>8

LEMMA StrandedSteps ==
    ASSUME QueueIsPatient, IInv, Kept, [Next]_vars
    PROVE  NeverStranded'
<1> USE DEF Kept
<1>1. ASSUME NEW w \in Workers, Handle(w) \/ Crash(w) \/ Throw(w)
      PROVE  NeverStranded'
  <2>1. ~Throw(w)
    BY DEF Throw, QueueIsPatient, IInv, Shape, TypeOK
  <2> HIDE DEF Kept
  <2>2. NeverStranded
    BY DEF Kept
  <2> QED BY <1>1, <2>1, <2>2, SweepKeeps, FindKeeps, ClaimKeeps, SendKeeps, RecordKeeps,
             RequeueKeeps, FinishKeeps, CrashKeeps DEF Handle
<1>2. CASE SweepByAnother
  BY <1>2, ResetKeeps DEF SweepByAnother
<1>3. ASSUME NEW a \in Admins, AdminRead(a) \/ AdminConflict(a) PROVE NeverStranded'
  BY <1>3 DEF AdminRead, AdminConflict, NeverStranded, JobFindsDue, JobFindsStale,
              HandlerFindsDue, HandlerFindsStale, RetryWait, Sending, Abandoned
<1>4. CASE UNCHANGED vars
  BY <1>4 DEF vars, NeverStranded, JobFindsDue, JobFindsStale,
              HandlerFindsDue, HandlerFindsStale, RetryWait, Sending, Abandoned
<1> HIDE DEF Kept
<1>5. NeverStranded
  BY DEF Kept
<1> QED BY <1>1, <1>2, <1>3, <1>4, <1>5, FetchKeeps, ExpireKeeps, RetryKeeps, ReceiptKeeps,
           TickKeeps DEF Next

LEMMA InitKept == Init => Kept
<1> SUFFICES ASSUME Init PROVE Kept
  OBVIOUS
<1>1. delivery.status = "QUEUED" /\ delivery.wait = 0
  BY DEF Init
<1>2. PICK j \in Jobs : job = [i \in Jobs |-> IF i = j
                                             THEN [NoJob EXCEPT !.state = "created"]
                                             ELSE NoJob]
  BY DEF Init
<1>3. \A i \in Jobs : job[i].retries = 0 /\ job[i].wait = 0 /\ job[i].state # "active"
  BY <1>2 DEF NoJob
<1>4. job[j].state = "created"
  BY <1>2 DEF NoJob
<1>5. RetriesAreCrashes
  BY <1>3 DEF Init, RetriesAreCrashes, Abandoned
<1>6. JobFindsDue(j)
  BY <1>1, <1>3, <1>4 DEF JobFindsDue
<1> QED BY <1>1, <1>5, <1>6 DEF Kept, SendsAreDue, NeverStranded

\* While a notification is queued or being sent a job exists that takes it
\* up, for any number of workers, administrators and repeated jobs.  It needs
\* what the settings give: statements that do not fail, a retry of the queue
\* for each crash, and no backoff longer than an expiry and its retry.
THEOREM NothingIsStranded ==
    QueueIsPatient /\ Receipts <= 1 /\ Spec => []NeverStranded
<1> SUFFICES ASSUME QueueIsPatient, Receipts <= 1 PROVE Spec => []NeverStranded
  OBVIOUS
<1>1. IInv /\ Kept /\ [Next]_vars => Kept'
  BY RetriesKept, DueKept, StrandedSteps DEF Kept
<1>2. Kept => NeverStranded
  BY DEF Kept
<1> QED BY <1>1, <1>2, InitKept, InvariantHolds, PTL DEF Spec
=============================================================================
