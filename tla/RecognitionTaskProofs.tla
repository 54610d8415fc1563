------------------------ MODULE RecognitionTaskProofs ------------------------
(***************************************************************************)
(* Proofs of the safety properties of RecognitionTask, for any number of   *)
(* handlers, attempts, retries and crashes, and for any ages at which      *)
(* claims and jobs are given up.                                           *)
(***************************************************************************)
EXTENDS RecognitionTask, TLAPS

-----------------------------------------------------------------------------
(* The strengthening.                                                      *)

\* A handler about to claim read an attempt count that leaves it one.
ClaimsAreAllowed ==
    \A h \in Handlers :
        handler[h].stage = "claim" => handler[h].number <= RetryLimit

\* What a submission read of the task and relies on when it commits still
\* holds: no other request inserted the task, a completed one stays so.
SubmissionIsCurrent ==
    submission.stage = "read" =>
        /\ submission.status = "none" => task.status = "none"
        /\ submission.status = "COMPLETED" => task.status = "COMPLETED"

IInv ==
    /\ TypeOK
    /\ AttemptsBounded
    /\ ClaimsAreAllowed
    /\ SubmissionIsCurrent
    /\ VerificationOfResult

-----------------------------------------------------------------------------
(* Types.                                                                  *)

\* The ages and counts of the settings are natural numbers.
LEMMA ConstantsTyped ==
    /\ StaleAfter \in Nat /\ ExpireAfter \in Nat
    /\ RetryLimit \in Nat /\ RetryDelay \in Nat /\ JobRetries \in Nat
    /\ MaxCrashes \in Nat
BY ConstantsAssumption

\* A fresh age is an age.
LEMMA ZeroAge == 0 \in 0 .. StaleAfter /\ 0 \in 0 .. ExpireAfter
BY ConstantsTyped

\* The job a handler leaves behind when it throws is a job.
LEMMA FailedJobType ==
    ASSUME job \in Job
    PROVE  FailedJob \in Job
BY ConstantsTyped DEF Job, FailedJob, NoJob

\* The values of the constants' operators are well typed.
LEMMA Blanks == NoTask \in Task /\ NoJob \in Job /\ NoHandler \in Handler
BY ConstantsTyped
DEF NoTask, NoJob, NoHandler, Task, Job, Handler, Open, Ended

\* A handler goes on to another stage.
LEMMA GoType ==
    ASSUME TypeOK, NEW h \in Handlers,
           NEW stage \in {"idle", "sweep", "read", "refuse", "claim",
                          "recognize", "store", "fail", "finish"},
           Go(h, stage)
    PROVE  handler' \in [Handlers -> Handler]
<1>1. handler[h] \in Handler
  BY DEF TypeOK
<1>2. [handler[h] EXCEPT !.stage = stage] \in Handler
  BY <1>1 DEF Handler
<1> QED BY <1>2 DEF TypeOK, Go

\* A handler leaves with an exception.
LEMMA ThrowType ==
    ASSUME TypeOK, NEW h \in Handlers, Throw(h)
    PROVE  job' \in Job /\ handler' \in [Handlers -> Handler]
<1>1. job' \in Job
  BY FailedJobType DEF TypeOK, Throw
<1>2. handler' \in [Handlers -> Handler]
  BY Blanks DEF TypeOK, Throw
<1> QED BY <1>1, <1>2

\* Stale claims are reset to queued tasks.
LEMMA ResetType ==
    ASSUME TypeOK, ResetStale
    PROVE  task' \in Task
BY ZeroAge DEF TypeOK, ResetStale, Task, Open

\* A task and its job are well typed when they are inserted.
LEMMA CreateType ==
    ASSUME CreateTask
    PROVE  task' \in Task /\ job' \in Job
<1>1. task' \in Task
  BY Blanks DEF CreateTask, Task, Open
<1>2. job' \in Job
  BY Blanks DEF CreateTask, Job
<1> QED BY <1>1, <1>2

\* A comparison is with a result.
LEMMA PersistType ==
    ASSUME TypeOK, NEW result \in Nat, Persist(result)
    PROVE  verification' \in Nat \cup {Disabled}
BY DEF TypeOK, Persist

\* The variables are well typed initially.
LEMMA InitType == Init => TypeOK
<1> SUFFICES ASSUME Init
             PROVE  TypeOK
  OBVIOUS
<1>1. task \in Task /\ job \in Job /\ handler \in [Handlers -> Handler]
  BY Blanks DEF Init
<1>2. submission \in Seen
  BY DEF Init, Seen
<1>3. valid \in BOOLEAN /\ verification \in Nat /\ crashes \in 0 .. MaxCrashes
  BY ConstantsTyped DEF Init
<1> QED BY <1>1, <1>2, <1>3 DEF TypeOK

\* Every step of a handler keeps the variables well typed.
LEMMA HandleType ==
    ASSUME TypeOK, NEW h \in Handlers, Handle(h)
    PROVE  TypeOK'
<1>0. task \in Task /\ handler[h] \in Handler /\ task.result \in Nat
  BY DEF TypeOK, Task
<1>1. CASE Sweep(h)
  <2>1. task' \in Task
    BY <1>1, ResetType DEF Sweep
  <2>2. handler' \in [Handlers -> Handler]
    BY <1>1, GoType DEF Sweep
  <2> QED BY <1>1, <2>1, <2>2 DEF Sweep, TypeOK
<1>2. CASE Read(h)
  <2>1. verification' \in Nat \cup {Disabled}
    BY <1>0, <1>2, PersistType DEF Read, TypeOK
  <2>2. PICK stage \in {"refuse", "claim", "finish"} :
          handler' = [handler EXCEPT ![h].number = task.attempts,
                                     ![h].stage = stage]
    BY <1>2 DEF Read
  <2>3. [handler[h] EXCEPT !.number = task.attempts, !.stage = stage]
          \in Handler
    BY <1>0 DEF Handler, Task
  <2>4. handler' \in [Handlers -> Handler]
    BY <2>2, <2>3 DEF TypeOK
  <2> QED BY <1>2, <2>1, <2>4 DEF Read, TypeOK
<1>3. CASE Refuse(h)
  <2>1. task' \in Task
    BY <1>0, <1>3 DEF Refuse, Task, Ended
  <2> QED BY <1>3, <2>1, ThrowType DEF Refuse, TypeOK
<1>4. CASE Claim(h)
  <2>0. handler[h].age \in 0 .. StaleAfter /\ task.attempts + 1 \in Nat
    BY <1>0 DEF Handler, Task
  <2>1. task' \in Task
    BY <1>0, <1>4, <2>0 DEF Claim, Task, Open
  <2>2. [handler[h] EXCEPT !.stage = "recognize",
                           !.number = task.attempts + 1] \in Handler
    BY <1>0, <2>0 DEF Handler
  <2>3. handler' \in [Handlers -> Handler]
    BY <1>4, <2>2 DEF Claim, TypeOK
  <2> QED BY <1>4, <2>1, <2>3 DEF Claim, TypeOK
<1>5. CASE ClaimLost(h)
  <2>1. verification' \in Nat \cup {Disabled}
    BY <1>0, <1>5, PersistType DEF ClaimLost, TypeOK
  <2>2. job' \in Job /\ handler' \in [Handlers -> Handler]
    BY <1>5, ThrowType, GoType DEF ClaimLost, TypeOK
  <2> QED BY <1>5, <2>1, <2>2 DEF ClaimLost, TypeOK
<1>6. ASSUME NEW answered \in BOOLEAN, Recognize(h, answered)
      PROVE  TypeOK'
  <2>1. handler' \in [Handlers -> Handler]
    BY <1>6, GoType DEF Recognize
  <2> QED BY <1>6, <2>1 DEF Recognize, TypeOK
<1>7. CASE Store(h)
  <2>1. handler[h].number \in Nat
    BY <1>0 DEF Handler
  <2>2. CASE Storable(h)
    <3>1. task' \in Task
      BY <1>0, <1>7, <2>1, <2>2 DEF Store, Task, Ended
    <3>2. verification' \in Nat \cup {Disabled}
      BY <1>7, <2>1, <2>2, PersistType DEF Store
    <3>3. handler' \in [Handlers -> Handler]
      BY <1>7, <2>2, GoType DEF Store
    <3> QED BY <1>7, <3>1, <3>2, <3>3 DEF Store, TypeOK
  <2>3. CASE ~Storable(h)
    <3>1. handler' \in [Handlers -> Handler]
      BY <1>7, <2>3, GoType DEF Store
    <3> QED BY <1>7, <2>3, <3>1 DEF Store, TypeOK
  <2> QED BY <2>2, <2>3
<1>8. CASE Fail(h)
  <2>1. task' \in Task
    BY <1>0, <1>8, ZeroAge DEF Fail, Task, Open, Ended
  <2> QED BY <1>8, <2>1, ThrowType DEF Fail, TypeOK
<1>9. CASE Finish(h)
  <2>1. job' \in Job /\ handler' \in [Handlers -> Handler]
    BY <1>9, Blanks DEF Finish, TypeOK
  <2> QED BY <1>9, <2>1 DEF Finish, TypeOK
<1> QED BY <1>1, <1>2, <1>3, <1>4, <1>5, <1>6, <1>7, <1>8, <1>9 DEF Handle

\* Every step keeps the variables well typed.
LEMMA StepType == TypeOK /\ [Next]_vars => TypeOK'
<1> SUFFICES ASSUME TypeOK, [Next]_vars
             PROVE  TypeOK'
  OBVIOUS
<1> USE ConstantsTyped
<1>1. ASSUME NEW h \in Handlers, Fetch(h)
      PROVE  TypeOK'
  <2>1. job' \in Job
    BY <1>1, ZeroAge DEF Fetch, TypeOK, Job
  <2>2. [NoHandler EXCEPT !.stage = "sweep", !.hasJob = TRUE] \in Handler
    BY Blanks DEF Handler
  <2>3. handler' \in [Handlers -> Handler]
    BY <1>1, <2>2 DEF Fetch, TypeOK
  <2> QED BY <1>1, <2>1, <2>3 DEF Fetch, TypeOK
<1>2. ASSUME NEW h \in Handlers, Handle(h)
      PROVE  TypeOK'
  BY <1>2, HandleType
<1>3. ASSUME NEW h \in Handlers, Crash(h)
      PROVE  TypeOK'
  BY <1>3, Blanks DEF Crash, TypeOK
<1>4. CASE Expire
  <2>1. handler' \in [Handlers -> Handler]
    BY <1>4 DEF Expire, TypeOK, Handler
  <2> QED BY <1>4, <2>1, FailedJobType DEF Expire, TypeOK
<1>5. CASE SweepByAnother
  <2>1. task' \in Task
    BY <1>5, ResetType DEF SweepByAnother
  <2> QED BY <1>5, <2>1 DEF SweepByAnother, TypeOK
<1>6. CASE RequestRecognition
  <2>1. task' \in Task /\ job' \in Job
    BY <1>6, CreateType DEF RequestRecognition
  <2> QED BY <1>6, <2>1 DEF RequestRecognition, TypeOK
<1>7. ASSUME NEW enabled \in BOOLEAN, SubmitRead(enabled)
      PROVE  TypeOK'
  BY <1>7 DEF SubmitRead, TypeOK, Task, Seen
<1>8. CASE SubmitCommit
  <2>1. task' \in Task /\ job' \in Job
    BY <1>8, CreateType DEF SubmitCommit, TypeOK
  <2>2. verification' \in Nat \cup {Disabled}
    BY <1>8 DEF SubmitCommit, TypeOK, Task
  <2> QED BY <1>8, <2>1, <2>2 DEF SubmitCommit, TypeOK, Seen
<1>9. CASE SubmitAbort
  BY <1>9 DEF SubmitAbort, TypeOK, Seen
<1>10. CASE Revalue
  BY <1>10 DEF Revalue, TypeOK
<1>11. CASE Tick
  <2>1. job' \in Job
    <3>1. job.wait \in Nat /\ job.age \in 0 .. ExpireAfter
      BY DEF TypeOK, Job
    <3> DEFINE wait == IF job.wait > 0 THEN job.wait - 1 ELSE 0
               age == IF job.state = "active" THEN job.age + 1 ELSE job.age
    <3>2. wait \in Nat
      BY <3>1
    <3>3. age \in 0 .. ExpireAfter
      BY <1>11, <3>1 DEF Tick
    <3>4. job' = [job EXCEPT !.wait = wait, !.age = age]
      BY <1>11 DEF Tick
    <3> HIDE DEF wait, age
    <3> QED BY <3>2, <3>3, <3>4 DEF TypeOK, Job
  <2>2. task' \in Task
    BY <1>11 DEF Tick, TypeOK, Task, Older
  <2>3. handler' \in [Handlers -> Handler]
    BY <1>11 DEF Tick, TypeOK, Handler, Older
  <2> QED BY <1>11, <2>1, <2>2, <2>3 DEF Tick, TypeOK
<1>12. CASE UNCHANGED vars
  BY <1>12 DEF vars, TypeOK
<1> QED
  BY <1>1, <1>2, <1>3, <1>4, <1>5, <1>6, <1>7, <1>8, <1>9, <1>10, <1>11,
     <1>12 DEF Next

\* Every reachable state is well typed.
THEOREM TypeCorrect == Spec => []TypeOK
<1> QED BY InitType, StepType, PTL DEF Spec

-----------------------------------------------------------------------------
(* The invariant.                                                          *)

\* The invariant holds initially.
LEMMA InitInvariant == Init => IInv
<1> SUFFICES ASSUME Init
             PROVE  IInv
  OBVIOUS
<1>1. TypeOK
  BY InitType
<1>2. AttemptsBounded
  BY ConstantsTyped DEF Init, NoTask, AttemptsBounded
<1>3. ClaimsAreAllowed
  BY DEF Init, NoHandler, ClaimsAreAllowed
<1>4. SubmissionIsCurrent /\ VerificationOfResult
  BY DEF Init, SubmissionIsCurrent, VerificationOfResult
<1> QED BY <1>1, <1>2, <1>3, <1>4 DEF IInv

\* Every step of a handler keeps the invariant.
LEMMA HandleInvariant ==
    ASSUME IInv, NEW h \in Handlers, Handle(h)
    PROVE  (AttemptsBounded /\ ClaimsAreAllowed
              /\ SubmissionIsCurrent /\ VerificationOfResult)'
<1>0. /\ task \in Task /\ handler \in [Handlers -> Handler]
      /\ submission' = submission
  BY DEF IInv, TypeOK, Handle, Sweep, Read, Refuse, Claim, ClaimLost,
         Recognize, Store, Fail, Finish
<1>1. CASE Sweep(h)
  <2>1. /\ task'.attempts = task.attempts /\ task'.result = task.result
        /\ task.status \in {"none", "COMPLETED"} => task' = task
    BY <1>0, <1>1 DEF Sweep, ResetStale, Stale, Task
  <2>2. ClaimsAreAllowed'
    BY <1>0, <1>1 DEF Sweep, Go, IInv, ClaimsAreAllowed, Handler
  <2> QED
    BY <1>0, <1>1, <2>1, <2>2
    DEF Sweep, IInv, AttemptsBounded, SubmissionIsCurrent,
        VerificationOfResult
<1>2. CASE Read(h)
  <2>1. ClaimsAreAllowed'
    BY <1>0, <1>2 DEF Read, IInv, ClaimsAreAllowed, Handler
  <2>2. VerificationOfResult'
    BY <1>0, <1>2 DEF Read, Persist, IInv, VerificationOfResult
  <2> QED
    BY <1>0, <1>2, <2>1, <2>2
    DEF Read, IInv, AttemptsBounded, SubmissionIsCurrent
<1>3. CASE Refuse(h)
  <2>1. /\ task'.attempts = task.attempts /\ task'.result = task.result
        /\ task.status \in {"none", "COMPLETED"} => task' = task
    BY <1>0, <1>3 DEF Refuse, Refusable, Open, Task
  <2>2. ClaimsAreAllowed'
    BY <1>0, <1>3
    DEF Refuse, Throw, NoHandler, IInv, ClaimsAreAllowed, Handler
  <2> QED
    BY <1>0, <1>3, <2>1, <2>2
    DEF Refuse, IInv, AttemptsBounded, SubmissionIsCurrent,
        VerificationOfResult
<1>4. CASE Claim(h)
  <2>1. /\ task.status = "QUEUED"
        /\ task'.attempts = handler[h].number + 1
        /\ handler[h].number <= RetryLimit
    BY <1>0, <1>4 DEF Claim, Claimable, IInv, ClaimsAreAllowed, Task
  <2>2. AttemptsBounded'
    BY <1>0, <2>1, ConstantsTyped DEF AttemptsBounded, Handler
  <2>3. ClaimsAreAllowed'
    BY <1>0, <1>4 DEF Claim, IInv, ClaimsAreAllowed, Handler
  <2> QED
    BY <1>0, <1>4, <2>1, <2>2, <2>3
    DEF Claim, IInv, SubmissionIsCurrent, VerificationOfResult
<1>5. CASE ClaimLost(h)
  <2>1. ClaimsAreAllowed'
    BY <1>0, <1>5
    DEF ClaimLost, Throw, Go, NoHandler, IInv, ClaimsAreAllowed, Handler
  <2>2. VerificationOfResult'
    BY <1>0, <1>5 DEF ClaimLost, Persist, IInv, VerificationOfResult
  <2> QED
    BY <1>0, <1>5, <2>1, <2>2
    DEF ClaimLost, IInv, AttemptsBounded, SubmissionIsCurrent
<1>6. ASSUME NEW answered \in BOOLEAN, Recognize(h, answered)
      PROVE  (AttemptsBounded /\ ClaimsAreAllowed
                /\ SubmissionIsCurrent /\ VerificationOfResult)'
  <2>1. ClaimsAreAllowed'
    BY <1>0, <1>6 DEF Recognize, Go, IInv, ClaimsAreAllowed, Handler
  <2> QED
    BY <1>0, <1>6, <2>1
    DEF Recognize, IInv, AttemptsBounded, SubmissionIsCurrent,
        VerificationOfResult
<1>7. CASE Store(h)
  <2>1. ClaimsAreAllowed'
    BY <1>0, <1>7 DEF Store, Go, IInv, ClaimsAreAllowed, Handler
  <2>2. CASE Storable(h)
    <3>1. /\ task.status = "RUNNING" /\ task'.status = "COMPLETED"
          /\ task'.attempts = task.attempts
          /\ task'.result = handler[h].number
      BY <1>0, <1>7, <2>2 DEF Store, Storable, Task
    <3>2. verification' \in {verification, handler[h].number}
      BY <1>7, <2>2 DEF Store, Persist
    <3>3. VerificationOfResult'
      BY <3>1, <3>2 DEF IInv, VerificationOfResult
    <3> QED
      BY <1>0, <2>1, <3>1, <3>3
      DEF IInv, AttemptsBounded, SubmissionIsCurrent
  <2>3. CASE ~Storable(h)
    BY <1>0, <1>7, <2>1, <2>3
    DEF Store, IInv, AttemptsBounded, SubmissionIsCurrent,
        VerificationOfResult
  <2> QED BY <2>2, <2>3
<1>8. CASE Fail(h)
  <2>1. /\ task'.attempts = task.attempts /\ task'.result = task.result
        /\ task.status # "RUNNING" => task' = task
    BY <1>0, <1>8 DEF Fail, Task
  <2>2. ClaimsAreAllowed'
    BY <1>0, <1>8
    DEF Fail, Throw, NoHandler, IInv, ClaimsAreAllowed, Handler
  <2> QED
    BY <1>0, <1>8, <2>1, <2>2
    DEF Fail, IInv, AttemptsBounded, SubmissionIsCurrent,
        VerificationOfResult
<1>9. CASE Finish(h)
  <2>1. ClaimsAreAllowed'
    BY <1>0, <1>9 DEF Finish, NoHandler, IInv, ClaimsAreAllowed, Handler
  <2> QED
    BY <1>0, <1>9, <2>1
    DEF Finish, IInv, AttemptsBounded, SubmissionIsCurrent,
        VerificationOfResult
<1> QED BY <1>1, <1>2, <1>3, <1>4, <1>5, <1>6, <1>7, <1>8, <1>9 DEF Handle

\* Every step keeps the invariant.
LEMMA StepInvariant == IInv /\ [Next]_vars => IInv'
<1> SUFFICES ASSUME IInv, [Next]_vars
             PROVE  (AttemptsBounded /\ ClaimsAreAllowed
                       /\ SubmissionIsCurrent /\ VerificationOfResult)'
  BY StepType DEF IInv
<1>0. /\ task \in Task /\ handler \in [Handlers -> Handler]
      /\ submission \in Seen
  BY DEF IInv, TypeOK
<1> USE DEF IInv, AttemptsBounded, SubmissionIsCurrent, VerificationOfResult
<1>1. ASSUME NEW h \in Handlers, Fetch(h)
      PROVE  (AttemptsBounded /\ ClaimsAreAllowed
                /\ SubmissionIsCurrent /\ VerificationOfResult)'
  <2>1. ClaimsAreAllowed'
    BY <1>0, <1>1 DEF Fetch, NoHandler, ClaimsAreAllowed, Handler
  <2> QED BY <1>1, <2>1 DEF Fetch
<1>2. ASSUME NEW h \in Handlers, Handle(h)
      PROVE  (AttemptsBounded /\ ClaimsAreAllowed
                /\ SubmissionIsCurrent /\ VerificationOfResult)'
  BY <1>2, HandleInvariant
<1>3. ASSUME NEW h \in Handlers, Crash(h)
      PROVE  (AttemptsBounded /\ ClaimsAreAllowed
                /\ SubmissionIsCurrent /\ VerificationOfResult)'
  <2>1. ClaimsAreAllowed'
    BY <1>0, <1>3 DEF Crash, NoHandler, ClaimsAreAllowed, Handler
  <2> QED BY <1>3, <2>1 DEF Crash
<1>4. CASE Expire
  <2>1. ClaimsAreAllowed'
    BY <1>0, <1>4 DEF Expire, ClaimsAreAllowed, Handler
  <2> QED BY <1>4, <2>1 DEF Expire
<1>5. CASE SweepByAnother
  <2>1. /\ task'.attempts = task.attempts /\ task'.result = task.result
        /\ task.status = "RUNNING"
    BY <1>0, <1>5 DEF SweepByAnother, ResetStale, Stale, Task
  <2>2. ClaimsAreAllowed'
    BY <1>5 DEF SweepByAnother, ClaimsAreAllowed
  <2> QED BY <1>5, <2>1, <2>2 DEF SweepByAnother
<1>6. CASE RequestRecognition
  <2>1. task.status = "none" /\ task'.attempts = 0 /\ ~Inserting
    BY <1>6 DEF RequestRecognition, CreateTask, NoTask
  <2>2. ClaimsAreAllowed'
    BY <1>6 DEF RequestRecognition, ClaimsAreAllowed
  <2> QED
    BY <1>6, <2>1, <2>2, ConstantsTyped DEF RequestRecognition, Inserting
<1>7. ASSUME NEW enabled \in BOOLEAN, SubmitRead(enabled)
      PROVE  (AttemptsBounded /\ ClaimsAreAllowed
                /\ SubmissionIsCurrent /\ VerificationOfResult)'
  BY <1>7 DEF SubmitRead, ClaimsAreAllowed
<1>8. CASE SubmitCommit
  <2>1. ClaimsAreAllowed'
    BY <1>8 DEF SubmitCommit, ClaimsAreAllowed
  <2>2. SubmissionIsCurrent'
    BY <1>0, <1>8 DEF SubmitCommit, Seen
  <2>3. AttemptsBounded'
    BY <1>8, ConstantsTyped DEF SubmitCommit, CreateTask, NoTask
  <2>4. VerificationOfResult'
    BY <1>8 DEF SubmitCommit, CreateTask, NoTask
  <2> QED BY <2>1, <2>2, <2>3, <2>4
<1>9. CASE SubmitAbort
  BY <1>9 DEF SubmitAbort, ClaimsAreAllowed
<1>10. CASE Revalue
  BY <1>10 DEF Revalue, ClaimsAreAllowed
<1>11. CASE Tick
  <2>1. /\ task'.attempts = task.attempts /\ task'.result = task.result
        /\ task'.status = task.status
    BY <1>0, <1>11 DEF Tick, Task
  <2>2. ClaimsAreAllowed'
    BY <1>0, <1>11 DEF Tick, ClaimsAreAllowed, Handler
  <2> QED BY <1>11, <2>1, <2>2 DEF Tick
<1>12. CASE UNCHANGED vars
  BY <1>12 DEF vars, ClaimsAreAllowed
<1> QED
  BY <1>1, <1>2, <1>3, <1>4, <1>5, <1>6, <1>7, <1>8, <1>9, <1>10, <1>11,
     <1>12 DEF Next

\* The strengthened invariant holds in every reachable state.
THEOREM InvariantHolds == Spec => []IInv
<1> QED BY InitInvariant, StepInvariant, PTL DEF Spec

\* The image is sent at most RetryLimit + 1 times.
THEOREM AttemptsAreBounded == Spec => []AttemptsBounded
<1>1. IInv => AttemptsBounded
  BY DEF IInv
<1> QED BY <1>1, InvariantHolds, PTL

\* The request is compared with the result the task keeps.
THEOREM VerificationIsOfResult == Spec => []VerificationOfResult
<1>1. IInv => VerificationOfResult
  BY DEF IInv
<1> QED BY <1>1, InvariantHolds, PTL

-----------------------------------------------------------------------------
(* Results are final.                                                      *)

\* No step changes how a task ended: each writer of the row is guarded by a
\* status, and the insertion by the one the submission read.
LEMMA StepFinal ==
    ASSUME IInv, Next, task.status \in Ended
    PROVE  task'.status = task.status /\ task'.result = task.result
<1>0. task \in Task /\ task.status \notin {"none", "QUEUED", "RUNNING"}
  BY DEF IInv, TypeOK, Ended
<1>1. ASSUME NEW h \in Handlers, Handle(h)
      PROVE  task' = task
  BY <1>0, <1>1
  DEF Handle, Sweep, ResetStale, Stale, Read, Refuse, Refusable, Open, Claim,
      Claimable, ClaimLost, Recognize, Store, Storable, Fail, Finish
<1>2. CASE SubmitCommit
  BY <1>0, <1>2 DEF SubmitCommit, IInv, SubmissionIsCurrent
<1>3. CASE Tick
  BY <1>0, <1>3 DEF Tick, Task
<1>4. ASSUME \/ \E h \in Handlers : Fetch(h) \/ Crash(h)
             \/ Expire \/ SweepByAnother \/ RequestRecognition
             \/ \E enabled \in BOOLEAN : SubmitRead(enabled)
             \/ SubmitAbort \/ Revalue
      PROVE  task' = task
  BY <1>0, <1>4
  DEF Fetch, Crash, Expire, SweepByAnother, Stale, RequestRecognition,
      SubmitRead, SubmitAbort, Revalue
<1> QED BY <1>1, <1>2, <1>3, <1>4 DEF Next

\* An ended task keeps its status and its result.
THEOREM ResultsAreFinal == Spec => ResultIsFinal
<1>1. IInv /\ [Next]_vars =>
        [task.status \in Ended =>
            task'.status = task.status /\ task'.result = task.result]_vars
  BY StepFinal DEF vars
<1> QED BY <1>1, InvariantHolds, PTL DEF Spec, ResultIsFinal
-----------------------------------------------------------------------------
(* No task is dropped.  One handler at a time has the job; if handlers are *)
(* timely it is the only one at work, so that the claim it makes is the    *)
(* claim it loses, its age is the age of the job, and each retry of the    *)
(* job stands for an attempt or a crash.                                   *)

OneHolder ==
    /\ \A h \in Handlers :
          handler[h].hasJob => job.state = "active" /\ handler[h].stage # "idle"
    /\ \A g, h \in Handlers : handler[g].hasJob /\ handler[h].hasJob => g = h

TasksComeFirst == task.status = "none" => job.state = "none"

Working(h) ==
    handler[h].hasJob /\ handler[h].stage \in {"recognize", "store", "fail"}

\* Who starts with the job is as old as the job.
AgesAgree ==
    \A h \in Handlers :
        handler[h].hasJob =>
            /\ handler[h].age \in {job.age, StaleAfter}
            /\ Working(h) /\ task.status = "RUNNING" =>
                   task.age \in {job.age, StaleAfter}

\* An attempt or a crash that has not cost the job a retry yet.
Pending == Abandoned \/ \E h \in Handlers : Working(h)

RetriesCounted ==
    task.status \in Open =>
        /\ job.retries <= task.attempts + crashes
        /\ Pending => job.retries < task.attempts + crashes

Kept ==
    /\ OneHolder /\ TasksComeFirst /\ AgesAgree
    /\ RetriesCounted /\ TakenUp

\* The queue has a retry for every attempt after the first and every crash.
EnoughRetries == RetryLimit + MaxCrashes <= JobRetries

LEMMA Values ==
    ASSUME TypeOK
    PROVE  /\ task.status \in {"none"} \cup Open \cup Ended
           /\ task.attempts \in Nat /\ task.age \in Nat /\ task.age <= StaleAfter
           /\ job.state \in {"none", "created", "active"}
           /\ job.retries \in Nat /\ job.age \in Nat /\ job.age <= ExpireAfter
           /\ crashes \in Nat /\ crashes <= MaxCrashes
BY ConstantsTyped DEF TypeOK, Task, Job

\* A handler at work has the job and works alone.
LEMMA Alone ==
    ASSUME OneHolder, Timely, NEW h \in Handlers, handler[h].stage # "idle"
    PROVE  /\ handler[h].hasJob /\ job.state = "active" /\ ~Abandoned
           /\ \A g \in Handlers :
                 g # h => handler[g].stage = "idle" /\ ~handler[g].hasJob
BY DEF OneHolder, Timely, Abandoned

\* It still does when it goes on.
LEMMA GoesOn ==
    ASSUME OneHolder, Timely, NEW h \in Handlers, handler[h].stage # "idle",
           handler'[h].stage # "idle",
           handler'[h].hasJob = handler[h].hasJob,
           \A g \in Handlers : g # h => handler'[g] = handler[g],
           UNCHANGED job
    PROVE  /\ OneHolder' /\ ~Abandoned'
           /\ \A g \in Handlers : handler'[g].hasJob <=> g = h
BY Alone DEF OneHolder, Abandoned

\* Nobody has the job once it has left.
LEMMA Leaves ==
    ASSUME OneHolder, Timely, NEW h \in Handlers, handler[h].stage # "idle",
           handler' = [handler EXCEPT ![h] = NoHandler],
           handler \in [Handlers -> Handler]
    PROVE  /\ OneHolder' /\ \A g \in Handlers : ~handler'[g].hasJob
           /\ \A g \in Handlers : ~Working(g)'
<1>1. \A g \in Handlers : ~handler'[g].hasJob
  BY Alone DEF NoHandler
<1> QED BY <1>1 DEF OneHolder, Working

LEMMA SweepKept ==
    ASSUME TypeOK, Kept, Timely, NEW h \in Handlers, Sweep(h)
    PROVE  Kept'
<1> USE DEF Kept
<1>1. /\ handler[h].stage = "sweep" /\ UNCHANGED <<job, crashes>>
      /\ handler'[h].stage = "read" /\ handler'[h].hasJob = handler[h].hasJob
      /\ handler'[h].age = handler[h].age
      /\ \A g \in Handlers : g # h => handler'[g] = handler[g]
  BY DEF Sweep, Go, TypeOK, Handler
<1>2. /\ OneHolder' /\ ~Abandoned' /\ ~Abandoned /\ handler[h].hasJob
      /\ \A g \in Handlers : handler'[g].hasJob <=> g = h
      /\ \A g \in Handlers : g # h => ~handler[g].hasJob
  BY <1>1, GoesOn, Alone
<1>3. /\ task'.attempts = task.attempts
      /\ task'.status = IF Stale THEN "QUEUED" ELSE task.status
      /\ ~Stale => task' = task
  BY DEF Sweep, ResetStale, TypeOK, Task
<1>4. TasksComeFirst'
  BY <1>1, <1>2, <1>3 DEF TasksComeFirst, Stale
<1>5. AgesAgree'
  BY <1>1, <1>2 DEF AgesAgree, Working
<1>6. RetriesCounted'
  BY <1>1, <1>2, <1>3 DEF RetriesCounted, Pending, Working, Open, Stale
<1>7. FindsQueued'
  BY <1>1, <1>2 DEF FindsQueued
<1>8. task'.attempts <= RetryLimit => task'.status # "RUNNING"
  <2> SUFFICES ASSUME task.attempts <= RetryLimit, task.status = "RUNNING"
               PROVE  Stale
    BY <1>3
  <2>1. job.state = "active"
    BY <1>2 DEF OneHolder
  <2>2. task.age = StaleAfter
    BY <1>1, <1>2, <2>1 DEF TakenUp, FindsRunning
  <2> QED BY <2>2, ConstantsTyped DEF Stale
<1>9. TakenUp'
  BY <1>7, <1>8 DEF TakenUp
<1> QED BY <1>2, <1>4, <1>5, <1>6, <1>9

LEMMA ReadKept ==
    ASSUME TypeOK, Kept, Timely, NEW h \in Handlers, Read(h)
    PROVE  Kept'
<1> USE DEF Kept
<1>1. PICK stage \in {"refuse", "claim", "finish"} :
          handler' = [handler EXCEPT ![h].number = task.attempts,
                                     ![h].stage = stage]
  BY DEF Read
<1>2. /\ handler[h].stage = "read" /\ UNCHANGED <<task, job, crashes>>
      /\ handler'[h].stage = stage /\ handler'[h].hasJob = handler[h].hasJob
      /\ handler'[h].age = handler[h].age /\ handler'[h].number = task.attempts
      /\ \A g \in Handlers : g # h => handler'[g] = handler[g]
  BY <1>1 DEF Read, TypeOK, Handler
<1>3. /\ OneHolder' /\ ~Abandoned' /\ ~Abandoned /\ handler[h].hasJob
      /\ \A g \in Handlers : handler'[g].hasJob <=> g = h
      /\ \A g \in Handlers : g # h => ~handler[g].hasJob
      /\ job.state = "active"
  BY <1>2, GoesOn, Alone
<1>4. TasksComeFirst' /\ AgesAgree' /\ RetriesCounted'
  BY <1>2, <1>3
  DEF TasksComeFirst, AgesAgree, RetriesCounted, Pending, Working
<1>5. task.status = "QUEUED" /\ task.attempts <= RetryLimit => stage # "finish"
  <2> SUFFICES ASSUME task.status = "QUEUED", task.attempts <= RetryLimit
               PROVE  handler'[h].stage # "finish"
    BY <1>2
  <2>1. handler[h] \in Handler /\ valid \in BOOLEAN
    BY DEF TypeOK
  <2>2. CASE valid
    BY <2>1, <2>2 DEF Read, TypeOK, Handler
  <2>3. CASE ~valid
    BY <2>1, <2>3 DEF Read, TypeOK, Handler
  <2> QED BY <2>1, <2>2, <2>3
<1>6. task.attempts <= RetryLimit => task.status # "RUNNING"
  BY <1>2, <1>3 DEF TakenUp, FindsRunning
<1>7. TakenUp'
  BY <1>2, <1>3, <1>5, <1>6 DEF TakenUp, FindsQueued
<1> QED BY <1>3, <1>4, <1>7
\* What a handler leaves with an exception: the job has a retry left if the
\* task has an attempt left.
LEMMA ThrowKept ==
    ASSUME TypeOK, Kept, Timely, EnoughRetries, NEW h \in Handlers,
           handler[h].stage # "idle", Throw(h), UNCHANGED crashes,
           task'.attempts = task.attempts,
           task'.status = task.status \/ task'.status \in Open \cup Ended,
           task'.status \in Open => task.status \in Open /\ Working(h),
           task'.status # "RUNNING"
    PROVE  Kept'
<1> USE DEF Kept
<1>1. /\ handler[h].hasJob /\ job.state = "active" /\ job' = FailedJob
      /\ task.status # "none" /\ job \in Job
  BY Alone DEF Throw, TasksComeFirst, TypeOK
<1>2. /\ OneHolder' /\ \A g \in Handlers : ~handler'[g].hasJob
      /\ \A g \in Handlers : ~Working(g)'
  BY Leaves DEF Throw, TypeOK
<1>3. job'.state # "active" /\ job'.retries \in {0, job.retries + 1}
  BY <1>1 DEF FailedJob, NoJob
<1>4. TasksComeFirst' /\ AgesAgree'
  BY <1>1, <1>2 DEF TasksComeFirst, AgesAgree, Open, Ended
<1>5. ~Pending'
  BY <1>2, <1>3 DEF Pending, Abandoned
<1>6. task'.status \in Open => job.retries < task.attempts + crashes
  BY DEF RetriesCounted, Pending
<1>7. RetriesCounted'
  BY <1>3, <1>5, <1>6, Values DEF RetriesCounted
<1>8. ASSUME task'.status = "QUEUED", task.attempts <= RetryLimit
      PROVE  job'.state = "created"
  <2>1. job.retries < task.attempts + crashes
    BY <1>6, <1>8 DEF Open
  <2>2. job.retries # JobRetries
    BY <1>8, <2>1, Values, ConstantsTyped DEF EnoughRetries
  <2> QED BY <1>1, <2>2 DEF FailedJob
<1>9. TakenUp'
  BY <1>8 DEF TakenUp, FindsQueued
<1> QED BY <1>2, <1>4, <1>7, <1>9

LEMMA RefuseKept ==
    ASSUME TypeOK, Kept, Timely, EnoughRetries, NEW h \in Handlers, Refuse(h)
    PROVE  Kept'
<1>1. /\ task'.attempts = task.attempts
      /\ task'.status = IF Refusable THEN "FAILED" ELSE task.status
  BY DEF Refuse, TypeOK, Task
<1>2. handler[h].stage = "refuse" /\ Throw(h) /\ UNCHANGED crashes
  BY DEF Refuse
<1>3. task'.status \notin Open
  BY <1>1 DEF Refusable, Open
<1>4. task'.status = task.status \/ task'.status \in Open \cup Ended
  BY <1>1 DEF Ended
<1> QED BY <1>1, <1>2, <1>3, <1>4, ThrowKept DEF Open

LEMMA ClaimKept ==
    ASSUME TypeOK, Kept, Timely, NEW h \in Handlers, Claim(h)
    PROVE  Kept'
<1> USE DEF Kept
<1>1. /\ handler[h].stage = "claim" /\ UNCHANGED <<job, crashes>>
      /\ handler'[h].stage = "recognize" /\ handler'[h].hasJob = handler[h].hasJob
      /\ handler'[h].age = handler[h].age
      /\ \A g \in Handlers : g # h => handler'[g] = handler[g]
  BY DEF Claim, TypeOK, Handler
<1>2. /\ OneHolder' /\ ~Abandoned' /\ ~Abandoned /\ handler[h].hasJob
      /\ \A g \in Handlers : handler'[g].hasJob <=> g = h
      /\ \A g \in Handlers : g # h => ~handler[g].hasJob
  BY <1>1, GoesOn, Alone
<1>3. /\ task.status = "QUEUED" /\ task'.status = "RUNNING"
      /\ task'.attempts = task.attempts + 1 /\ task'.age = handler[h].age
  BY DEF Claim, Claimable, TypeOK, Task
<1>4. TasksComeFirst'
  BY <1>3 DEF TasksComeFirst
<1>5. AgesAgree'
  BY <1>1, <1>2, <1>3 DEF AgesAgree, Working
<1>6. RetriesCounted'
  BY <1>1, <1>3, Values DEF RetriesCounted, Open
<1>7. TakenUp'
  BY <1>1, <1>2, <1>3 DEF TakenUp, FindsRunning
<1> QED BY <1>2, <1>4, <1>5, <1>6, <1>7

\* A handler without competition loses its claim only if the task ended, or
\* has no attempt left.
LEMMA ClaimLostKept ==
    ASSUME TypeOK, Kept, Timely, EnoughRetries, NEW h \in Handlers, ClaimLost(h)
    PROVE  Kept'
<1> USE DEF Kept
<1>1. /\ handler[h].stage = "claim" /\ UNCHANGED <<task, crashes>>
      /\ ~Claimable(h)
  BY DEF ClaimLost
<1>2. CASE task.status = "COMPLETED" /\ ~valid
  <2>1. Throw(h)
    BY <1>2 DEF ClaimLost
  <2> QED BY <1>1, <1>2, <2>1, ThrowKept DEF Open
<1>3. CASE ~(task.status = "COMPLETED" /\ ~valid)
  <2>1. /\ UNCHANGED job /\ handler'[h].stage = "finish"
        /\ handler'[h].hasJob = handler[h].hasJob
        /\ handler'[h].age = handler[h].age
        /\ \A g \in Handlers : g # h => handler'[g] = handler[g]
    BY <1>3 DEF ClaimLost, Go, TypeOK, Handler
  <2>2. /\ OneHolder' /\ ~Abandoned' /\ ~Abandoned /\ handler[h].hasJob
        /\ job.state = "active"
        /\ \A g \in Handlers : handler'[g].hasJob <=> g = h
        /\ \A g \in Handlers : g # h => ~handler[g].hasJob
    BY <1>1, <2>1, GoesOn, Alone
  <2>3. TasksComeFirst' /\ AgesAgree' /\ RetriesCounted'
    BY <1>1, <2>1, <2>2
    DEF TasksComeFirst, AgesAgree, RetriesCounted, Pending, Working
  <2>4. task.attempts <= RetryLimit => task.status \notin Open
    BY <1>1, <2>2 DEF TakenUp, FindsQueued, FindsRunning, Claimable, Open
  <2>5. TakenUp'
    BY <1>1, <2>4 DEF TakenUp, Open
  <2> QED BY <2>2, <2>3, <2>5
<1> QED BY <1>2, <1>3

LEMMA RecognizeKept ==
    ASSUME TypeOK, Kept, Timely, NEW h \in Handlers,
           NEW answered \in BOOLEAN, Recognize(h, answered)
    PROVE  Kept'
<1> USE DEF Kept
<1>1. /\ handler[h].stage = "recognize" /\ UNCHANGED <<task, job, crashes>>
      /\ handler'[h].stage \in {"store", "fail"}
      /\ handler'[h].hasJob = handler[h].hasJob
      /\ handler'[h].age = handler[h].age
      /\ \A g \in Handlers : g # h => handler'[g] = handler[g]
  BY DEF Recognize, Go, TypeOK, Handler
<1>2. /\ OneHolder' /\ ~Abandoned' /\ ~Abandoned /\ handler[h].hasJob
      /\ \A g \in Handlers : handler'[g].hasJob <=> g = h
  BY <1>1, GoesOn, Alone
<1>3. TasksComeFirst' /\ AgesAgree' /\ RetriesCounted'
  BY <1>1, <1>2
  DEF TasksComeFirst, AgesAgree, RetriesCounted, Pending, Working
<1>4. TakenUp'
  BY <1>1, <1>2 DEF TakenUp, FindsQueued, FindsRunning
<1> QED BY <1>2, <1>3, <1>4

LEMMA StoreKept ==
    ASSUME TypeOK, Kept, Timely, NEW h \in Handlers, Store(h)
    PROVE  Kept'
<1> USE DEF Kept
<1>1. /\ handler[h].stage = "store" /\ UNCHANGED <<job, crashes>>
      /\ handler'[h].stage = IF Storable(h) THEN "finish" ELSE "fail"
      /\ handler'[h].hasJob = handler[h].hasJob
      /\ handler'[h].age = handler[h].age
      /\ \A g \in Handlers : g # h => handler'[g] = handler[g]
  BY DEF Store, Go, TypeOK, Handler
<1>2. /\ OneHolder' /\ ~Abandoned' /\ ~Abandoned /\ handler[h].hasJob
      /\ \A g \in Handlers : handler'[g].hasJob <=> g = h
  BY <1>1, GoesOn, Alone
<1>3. /\ Storable(h) => task'.status = "COMPLETED"
      /\ ~Storable(h) => task' = task /\ task.status # "RUNNING"
  BY DEF Store, Storable, TypeOK, Task
<1>4. TasksComeFirst' /\ AgesAgree' /\ RetriesCounted'
  BY <1>1, <1>2, <1>3
  DEF TasksComeFirst, AgesAgree, RetriesCounted, Pending, Working, Open
<1>5. TakenUp'
  BY <1>1, <1>2, <1>3 DEF TakenUp, FindsQueued
<1> QED BY <1>2, <1>4, <1>5

LEMMA FailKept ==
    ASSUME TypeOK, Kept, Timely, EnoughRetries, NEW h \in Handlers, Fail(h)
    PROVE  Kept'
<1> USE DEF Kept
<1>1. /\ handler[h].stage = "fail" /\ Throw(h) /\ UNCHANGED crashes
      /\ handler[h].hasJob
  BY Alone DEF Fail
<1>2. /\ task'.attempts = task.attempts /\ task'.status # "RUNNING"
      /\ task.status # "RUNNING" => task' = task
      /\ task.status = "RUNNING" => task'.status \in {"QUEUED", "FAILED"}
  BY DEF Fail, TypeOK, Task
<1>3. Working(h)
  BY <1>1 DEF Working
<1>4. task'.status \in Open => task.status \in Open
  BY <1>2 DEF Open
<1>5. task'.status = task.status \/ task'.status \in Open \cup Ended
  BY <1>2 DEF Open, Ended
<1> QED BY <1>1, <1>2, <1>3, <1>4, <1>5, ThrowKept
LEMMA FinishKept ==
    ASSUME TypeOK, Kept, Timely, NEW h \in Handlers, Finish(h)
    PROVE  Kept'
<1> USE DEF Kept
<1>1. /\ handler[h].stage = "finish" /\ UNCHANGED <<task, crashes>>
      /\ handler[h].hasJob /\ job' = NoJob /\ job.state = "active" /\ ~Abandoned
      /\ \A g \in Handlers : g # h => ~handler[g].hasJob
  BY Alone DEF Finish
<1>2. /\ OneHolder' /\ \A g \in Handlers : ~handler'[g].hasJob
      /\ \A g \in Handlers : ~Working(g)'
  BY <1>1, Leaves DEF Finish, TypeOK
<1>3. TasksComeFirst' /\ AgesAgree'
  BY <1>1, <1>2 DEF TasksComeFirst, AgesAgree, NoJob
<1>4. job'.retries = 0 /\ job'.state = "none"
  BY <1>1 DEF NoJob
<1>5. ~Pending'
  BY <1>2, <1>4 DEF Pending, Abandoned
<1>6. RetriesCounted'
  BY <1>1, <1>4, <1>5, Values DEF RetriesCounted
<1>7. TakenUp'
  BY <1>1 DEF TakenUp, FindsQueued, FindsRunning
<1> QED BY <1>2, <1>3, <1>6, <1>7

\* The claim of a handler that died is as old as its job.
LEMMA CrashKept ==
    ASSUME TypeOK, Kept, Timely, NEW h \in Handlers, Crash(h)
    PROVE  Kept'
<1> USE DEF Kept
<1>1. /\ handler[h].stage # "idle" /\ UNCHANGED <<task, job>>
      /\ crashes' = crashes + 1
      /\ handler[h].hasJob /\ job.state = "active" /\ ~Abandoned
      /\ \A g \in Handlers : g # h => ~handler[g].hasJob
  BY Alone DEF Crash
<1>2. /\ OneHolder' /\ \A g \in Handlers : ~handler'[g].hasJob
      /\ \A g \in Handlers : ~Working(g)'
  BY <1>1, Leaves DEF Crash, TypeOK
<1>3. TasksComeFirst' /\ AgesAgree'
  BY <1>1, <1>2 DEF TasksComeFirst, AgesAgree
<1>4. RetriesCounted'
  BY <1>1, Values DEF RetriesCounted
<1>5. Abandoned'
  BY <1>1, <1>2 DEF Abandoned
<1>6. task.attempts <= RetryLimit /\ task.status = "RUNNING" =>
          task.age \in {job.age, StaleAfter}
  BY <1>1 DEF TakenUp, FindsRunning, AgesAgree, Working
<1>7. TakenUp'
  BY <1>1, <1>5, <1>6 DEF TakenUp, FindsQueued, FindsRunning
<1> QED BY <1>2, <1>3, <1>4, <1>7

LEMMA FetchKept ==
    ASSUME TypeOK, Kept, Timely, NEW h \in Handlers, Fetch(h)
    PROVE  Kept'
<1> USE DEF Kept
<1>1. /\ job.state = "created" /\ UNCHANGED <<task, crashes>>
      /\ \A g \in Handlers : ~handler[g].hasJob
  BY DEF Fetch, OneHolder
<1>2. /\ job'.state = "active" /\ job'.age = 0 /\ job'.retries = job.retries
      /\ handler'[h].stage = "sweep" /\ handler'[h].hasJob /\ handler'[h].age = 0
      /\ \A g \in Handlers : g # h => handler'[g] = handler[g]
  BY DEF Fetch, NoHandler, TypeOK, Job, Handler
<1>3. \A g \in Handlers : handler'[g].hasJob <=> g = h
  BY <1>1, <1>2
<1>4. OneHolder' /\ TasksComeFirst' /\ AgesAgree'
  BY <1>1, <1>2, <1>3 DEF OneHolder, TasksComeFirst, AgesAgree, Working
<1>5. ~Pending'
  BY <1>2, <1>3 DEF Pending, Abandoned, Working
<1>6. RetriesCounted'
  BY <1>1, <1>2, <1>5 DEF RetriesCounted
<1>7. TakenUp'
  BY <1>1, <1>2 DEF TakenUp, FindsQueued, FindsRunning, Abandoned
<1> QED BY <1>4, <1>6, <1>7

\* A job expires after the claim of the handler that had it is stale.
LEMMA ExpireKept ==
    ASSUME TypeOK, Kept, Timely, Timely', EnoughRetries, Expire
    PROVE  Kept'
<1> USE DEF Kept
<1>1. /\ job.state = "active" /\ job.age = ExpireAfter /\ job' = FailedJob
      /\ UNCHANGED <<task, crashes>>
      /\ \A h \in Handlers : /\ ~handler'[h].hasJob
                             /\ handler'[h].stage = handler[h].stage
  BY DEF Expire, TypeOK, Handler
<1>2. \A h \in Handlers : ~handler[h].hasJob
  BY <1>1 DEF Timely, OneHolder
<1>3. Abandoned
  BY <1>1, <1>2 DEF Abandoned
<1>4. job'.state # "active" /\ job'.retries \in {0, job.retries + 1}
  BY <1>1 DEF FailedJob, NoJob
<1>5. OneHolder' /\ TasksComeFirst' /\ AgesAgree'
  BY <1>1 DEF OneHolder, TasksComeFirst, AgesAgree
<1>6. ~Pending'
  BY <1>1, <1>4 DEF Pending, Abandoned, Working
<1>7. task.status \in Open => job.retries < task.attempts + crashes
  BY <1>3 DEF RetriesCounted, Pending
<1>8. RetriesCounted'
  BY <1>1, <1>4, <1>6, <1>7, Values DEF RetriesCounted
<1>9. ASSUME task.status \in Open, task.attempts <= RetryLimit
      PROVE  job'.state = "created"
  <2>1. job.retries # JobRetries
    BY <1>7, <1>9, Values, ConstantsTyped DEF EnoughRetries
  <2> QED BY <1>1, <2>1 DEF FailedJob
<1>10. task.attempts <= RetryLimit /\ task.status = "RUNNING" =>
           task.age = StaleAfter
  BY <1>1, <1>2, Values, ConstantsAssumption, ConstantsTyped
  DEF TakenUp, FindsRunning
<1>11. TakenUp'
  BY <1>1, <1>9, <1>10 DEF TakenUp, FindsQueued, FindsRunning, Open
<1> QED BY <1>5, <1>8, <1>11

LEMMA SweepByAnotherKept ==
    ASSUME TypeOK, Kept, SweepByAnother
    PROVE  Kept'
<1> USE DEF Kept
<1>1. /\ task.status = "RUNNING" /\ task'.status = "QUEUED"
      /\ task'.attempts = task.attempts /\ UNCHANGED <<job, handler, crashes>>
  BY DEF SweepByAnother, ResetStale, Stale, TypeOK, Task
<1>2. OneHolder' /\ TasksComeFirst' /\ AgesAgree'
  BY <1>1 DEF OneHolder, TasksComeFirst, AgesAgree
<1>3. Pending' <=> Pending
  BY <1>1 DEF Pending, Abandoned, Working
<1>4. RetriesCounted'
  BY <1>1, <1>3 DEF RetriesCounted, Open
<1>5. TakenUp'
  BY <1>1 DEF TakenUp, FindsQueued, FindsRunning, Abandoned
<1> QED BY <1>2, <1>4, <1>5

\* A task comes with its job, and the first one finds no other.
LEMMA CreateKept ==
    ASSUME TypeOK, Kept, task.status = "none", CreateTask,
           UNCHANGED <<handler, crashes>>
    PROVE  Kept'
<1> USE DEF Kept
<1>1. \A h \in Handlers : ~handler[h].hasJob
  BY DEF TasksComeFirst, OneHolder
<1>2. /\ task'.status = "QUEUED" /\ task'.attempts = 0
      /\ job'.state = "created" /\ job'.retries = 0
  BY DEF CreateTask, NoTask, NoJob
<1>3. OneHolder' /\ TasksComeFirst' /\ AgesAgree' /\ ~Pending'
  BY <1>1, <1>2
  DEF OneHolder, TasksComeFirst, AgesAgree, Pending, Abandoned, Working
<1>4. RetriesCounted' /\ TakenUp'
  BY <1>2, <1>3, Values DEF RetriesCounted, TakenUp, FindsQueued
<1> QED BY <1>3, <1>4

\* Time.
LEMMA TickKept ==
    ASSUME TypeOK, Kept, Tick
    PROVE  Kept'
<1> USE DEF Kept
<1>1. /\ job'.state = job.state /\ job'.retries = job.retries
      /\ job.state = "active" => job'.age = job.age + 1
  BY DEF Tick, TypeOK, Job
<1>2. /\ task'.status = task.status /\ task'.attempts = task.attempts
      /\ task'.age = IF task.status = "RUNNING" THEN Older(task.age) ELSE task.age
      /\ UNCHANGED crashes
  BY DEF Tick, TypeOK, Task
<1>3. \A h \in Handlers :
          /\ handler'[h].stage = handler[h].stage
          /\ handler'[h].hasJob = handler[h].hasJob
          /\ handler'[h].number = handler[h].number
          /\ handler'[h].age = IF handler[h].stage = "idle" THEN handler[h].age
                               ELSE Older(handler[h].age)
  BY DEF Tick, TypeOK, Handler
<1>4. OneHolder' /\ TasksComeFirst' /\ (Pending' <=> Pending)
  BY <1>1, <1>2, <1>3
  DEF OneHolder, TasksComeFirst, Pending, Abandoned, Working
<1>5. RetriesCounted'
  BY <1>1, <1>2, <1>4 DEF RetriesCounted
<1>6. ASSUME NEW age, age \in {job.age, StaleAfter}, job.state = "active",
             age \in Nat, age <= StaleAfter
      PROVE  Older(age) \in {job'.age, StaleAfter}
  BY <1>1, <1>6, ConstantsTyped DEF Older
<1>7. \A h \in Handlers : handler[h].age \in Nat /\ handler[h].age <= StaleAfter
  BY ConstantsTyped DEF TypeOK, Handler
<1>8. AgesAgree'
  <2> SUFFICES ASSUME NEW h \in Handlers, handler[h].hasJob
               PROVE  /\ handler'[h].age \in {job'.age, StaleAfter}
                      /\ Working(h) /\ task.status = "RUNNING" =>
                             task'.age \in {job'.age, StaleAfter}
    BY <1>2, <1>3 DEF AgesAgree, Working
  <2>1. job.state = "active" /\ handler[h].stage # "idle"
    BY DEF OneHolder
  <2>2. handler'[h].age \in {job'.age, StaleAfter}
    BY <1>3, <1>6, <1>7, <2>1 DEF AgesAgree
  <2>3. Working(h) /\ task.status = "RUNNING" => task'.age \in {job'.age, StaleAfter}
    BY <1>2, <1>6, <2>1, Values DEF AgesAgree
  <2> QED BY <2>2, <2>3
<1>9. FindsQueued => FindsQueued'
  BY <1>1, <1>2, <1>3 DEF FindsQueued, Abandoned
<1>10. ASSUME task.status = "RUNNING", FindsRunning PROVE FindsRunning'
  <2>1. task.age = StaleAfter => task'.age = StaleAfter
    BY <1>2, <1>10, ConstantsTyped DEF Older
  <2>2. CASE job.state = "created" /\ task.age = StaleAfter
    BY <1>1, <2>1, <2>2 DEF FindsRunning
  <2>3. CASE Abandoned /\ task.age \in {job.age, StaleAfter}
    <3>1. Abandoned' /\ job.state = "active"
      BY <1>1, <1>3, <2>3 DEF Abandoned
    <3>2. task'.age \in {job'.age, StaleAfter}
      BY <1>2, <1>6, <1>10, <2>3, <3>1, Values
    <3> QED BY <3>1, <3>2 DEF FindsRunning
  <2>4. ASSUME NEW h \in Handlers, handler[h].hasJob,
               \/ handler[h].stage \in {"recognize", "store", "fail"}
               \/ handler[h].stage = "sweep" /\ task.age = StaleAfter
        PROVE  FindsRunning'
    BY <1>3, <2>1, <2>4 DEF FindsRunning
  <2> QED BY <1>10, <2>2, <2>3, <2>4 DEF FindsRunning
<1>11. TakenUp'
  BY <1>2, <1>9, <1>10 DEF TakenUp
<1> QED BY <1>4, <1>5, <1>8, <1>11

\* What the rest leaves alone.
LEMMA OthersKept ==
    ASSUME Kept, UNCHANGED <<task, job, handler, crashes>>
    PROVE  Kept'
BY DEF Kept, OneHolder, TasksComeFirst, AgesAgree, RetriesCounted, TakenUp,
       Pending, Working, Abandoned, FindsQueued, FindsRunning

LEMMA InitKept == Init => Kept
<1> SUFFICES ASSUME Init PROVE Kept
  OBVIOUS
<1>1. /\ task.status = "none" /\ job.state = "none"
      /\ \A h \in Handlers : ~handler[h].hasJob
  BY DEF Init, NoTask, NoJob, NoHandler
<1> QED BY <1>1 DEF Kept, OneHolder, TasksComeFirst, AgesAgree, RetriesCounted,
                    TakenUp, Open

LEMMA StepKept ==
    ASSUME EnoughRetries, IInv, Kept, Timely, Timely', [Next]_vars
    PROVE  Kept'
<1>0. TypeOK
  BY DEF IInv
<1>1. ASSUME NEW h \in Handlers, Fetch(h) \/ Handle(h) \/ Crash(h) PROVE Kept'
  BY <1>0, <1>1, FetchKept, CrashKept, SweepKept, ReadKept, RefuseKept, ClaimKept,
     ClaimLostKept, RecognizeKept, StoreKept, FailKept, FinishKept DEF Handle
<1>2. CASE Expire \/ SweepByAnother \/ Tick
  BY <1>0, <1>2, ExpireKept, SweepByAnotherKept, TickKept
<1>3. CASE RequestRecognition
  BY <1>0, <1>3, CreateKept DEF RequestRecognition
<1>4. CASE SubmitCommit
  <2>1. CASE submission.status = "none"
    <3>1. task.status = "none"
      BY <1>4, <2>1 DEF SubmitCommit, IInv, SubmissionIsCurrent
    <3> QED BY <1>0, <1>4, <2>1, <3>1, CreateKept DEF SubmitCommit
  <2>2. CASE submission.status # "none"
    BY <1>4, <2>2, OthersKept DEF SubmitCommit
  <2> QED BY <2>1, <2>2
<1>5. CASE \/ \E enabled \in BOOLEAN : SubmitRead(enabled)
           \/ SubmitAbort \/ Revalue \/ UNCHANGED vars
  BY <1>5, OthersKept DEF SubmitRead, SubmitAbort, Revalue, vars
<1> QED BY <1>1, <1>2, <1>3, <1>4, <1>5 DEF Next

\* While handlers are timely a task with attempts left always has a job or a
\* handler that finds it queued or its claim stale: the safety core of
\* EventuallySettles.
THEOREM NoTaskIsDropped == EnoughRetries /\ Spec => NeverDropped
<1> SUFFICES ASSUME EnoughRetries PROVE Spec => NeverDropped
  OBVIOUS
<1>1. IInv /\ Kept /\ Timely /\ Timely' /\ [Next]_vars => Kept'
  BY StepKept
<1>2. Kept => TakenUp
  BY DEF Kept
<1> QED BY <1>1, <1>2, InitKept, InvariantHolds, PTL DEF Spec, NeverDropped
=============================================================================
