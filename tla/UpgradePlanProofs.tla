-------------------------- MODULE UpgradePlanProofs --------------------------
(***************************************************************************)
(* Proofs of the safety properties of UpgradePlan, for any number of       *)
(* requests, plans, assignments, pilots and stages.                        *)
(*                                                                         *)
(* The invariant has three layers, each proved from the ones before: the   *)
(* shape of the requests, the locks, and what a request still knows of the *)
(* plan it read.  At the end, UpgradePlan implements PlanLifecycle: its    *)
(* initial states map to initial states, every step to a step or to none.  *)
(***************************************************************************)
EXTENDS PlanRefinement, TLAPS

-----------------------------------------------------------------------------
(* First layer: the shape of the requests.                                 *)

Lifecycle == {"start", "pause", "resume", "cancel"}

Versioned == {"reassign", "complete", "reschedule", "edit"}

\* A request of the kind can be there.
Placed(kind, at) ==
    /\ kind = "none" => at = "idle"
    /\ kind \in {"create", "start", "resume"} =>
           at \in {"assignment", "check", "write"}
    /\ kind = "reassign" => at \in {"plan", "share", "assignment", "check"}
    /\ kind = "end" => at \in {"check", "write"}
    /\ kind \in {"pause", "cancel", "complete", "reschedule", "edit"} =>
           at = "write"

WellFormed(o) ==
    /\ Placed(o.kind, o.at)
    /\ o.kind \in Lifecycle \cup Versioned \cup {"create"} => o.plan \in Plans
    /\ o.kind \in {"start", "resume", "reassign", "end"} =>
           o.holder \in Assignments
    /\ o.at \in {"share", "assignment"} => o.holder \in Assignments
    /\ o.kind = "create" => o.pilot \in Pilots /\ o.status \in {"DRAFT", "ACTIVE"}
    /\ o.kind \in {"complete", "reschedule"} => o.stage \in Stages
    /\ o.kind = "reschedule" => o.day \in Days

Shape == TypeOK /\ \A x \in Actors : WellFormed(op[x])

-----------------------------------------------------------------------------
(* Second layer: the locks.                                                *)

\* A request that has passed the wait for a row holds it.
HeldIn(locks, x, o) ==
    /\ o.kind \in Lifecycle => [by |-> x, row |-> o.plan, mode |-> "for_update"]
                                 \in locks
    /\ o.kind = "reassign" /\ o.at # "plan" =>
           [by |-> x, row |-> o.plan, mode |-> "update"] \in locks
    /\ o.kind \in {"create", "start", "resume", "reassign", "end"}
         /\ o.at \in {"check", "write"} /\ o.holder # None =>
           [by |-> x, row |-> o.holder, mode |-> "for_update"] \in locks

LocksAreHeld == \A x \in Actors : HeldIn(held, x, op[x])

\* Nothing else is held, and a request that waits for a plan holds nothing.
Explains(o, row) ==
    \/ row = o.plan /\ o.kind \in Lifecycle \cup {"reassign"} /\ o.at # "plan"
    \/ row = o.holder /\ o.at \in {"check", "write"}
    \/ row = o.holder /\ o.kind = "reassign" /\ o.at = "assignment"

LocksAreExplained == \A l \in held : Explains(op[l.by], l.row)

LocksExclude ==
    \A l, m \in held :
        l.row = m.row /\ l.by # m.by => Compatible(l.mode, m.mode)

Locks == LocksAreHeld /\ LocksAreExplained /\ LocksExclude

-----------------------------------------------------------------------------
(* Third layer: the plans, and what a request knows of the plan it read.   *)

\* NOT_STARTED is a status of seeded plans only.
NoneSeeded == \A p \in Plans : plan[p].status # "NOT_STARTED"

\* Until it is started, a plan has no stage begun.
DraftsAreUntouched ==
    \A p \in Plans :
        plan[p].status \in {"ABSENT", "DRAFT"} =>
            inspected[p] = {} /\ \A s \in Stages : stage[p][s] = "NOT_STARTED"

\* A plan is created by one request, the others are about plans that exist.
OneCreation ==
    \A x, y \in Actors :
        op[x].kind = "create" /\ op[y].kind = "create" /\ x # y =>
            op[x].plan # op[y].plan

StillNew(o) ==
    /\ o.kind = "create" => plan[o.plan].status = "ABSENT"
    /\ o.kind \in Lifecycle \cup Versioned => plan[o.plan].status # "ABSENT"

\* A locked plan is as it was read.
LockedIsCurrent(o) ==
    /\ o.kind \in Lifecycle => plan[o.plan].status \in AllowedFrom(o.kind)
    /\ o.kind = "reassign" => o.status \in {"DRAFT", "NOT_STARTED"}
    /\ o.kind = "reassign" /\ o.at # "plan" => plan[o.plan].status = o.status

\* So is one that still has the version that was read.
VersionIsCurrent(o) ==
    o.kind \in {"complete", "reschedule"} =>
        /\ o.version <= plan[o.plan].version
        /\ o.version = plan[o.plan].version /\ o.kind = "complete" =>
               /\ Completable(o.plan, o.stage)
               /\ o.next <=> o.stage < StageCount
                             /\ stage[o.plan][o.stage + 1] = "NOT_STARTED"
        /\ o.version = plan[o.plan].version /\ o.kind = "reschedule" =>
               Ordered([planned[o.plan] EXCEPT ![o.stage] = o.day])

\* What was checked under the lock of an assignment holds until the end.
ChecksHold(o) ==
    o.at = "write" =>
        /\ o.kind = "create" /\ o.holder # None =>
               assignment[o.holder] \in {"ACTIVE", "DELETED"}
        /\ o.kind = "end" => ~ InUse(o.holder)

Knows(o) ==
    StillNew(o) /\ LockedIsCurrent(o) /\ VersionIsCurrent(o) /\ ChecksHold(o)

Knowledge ==
    /\ NoneSeeded /\ DraftsAreUntouched /\ OneCreation
    /\ \A x \in Actors : Knows(op[x])

IInv ==
    /\ Shape /\ Locks /\ Knowledge
    /\ PlansHoldAssignments /\ OneRunningPlan /\ StagesInOrder /\ DatesInOrder

-----------------------------------------------------------------------------
(* Shape.                                                                  *)

\* What a proof needs of the constants.
LEMMA Constants ==
    /\ StageCount \in Nat /\ LastDay \in Nat
    /\ 1 \in Stages /\ StageCount \in Stages /\ 1 \in Days
    /\ Schedules \subseteq [Stages -> Days]
    /\ \A days \in Schedules : Ordered(days)
    /\ PilotOf \in [Assignments -> Pilots]
    /\ None \notin Plans /\ None \notin Assignments
BY ConstantsAssumption DEF Stages, Days

\* No request is well formed, and has its type.
LEMMA NoOpShape == NoOp \in Op /\ WellFormed(NoOp)
<1>1. NoOp \in Op
  BY Constants DEF NoOp, Op, Kinds, Statuses
<1>2. WellFormed(NoOp)
  BY DEF NoOp, WellFormed, Placed, Lifecycle, Versioned
<1> QED BY <1>1, <1>2

\* A new request keeps the shape of the requests.
LEMMA BeginShape ==
    ASSUME Shape, NEW x \in Actors, NEW o \in Op, WellFormed(o), Begin(x, o)
    PROVE  op' \in [Actors -> Op] /\ \A y \in Actors : WellFormed(op[y])'
<1>1. op \in [Actors -> Op] /\ op' = [op EXCEPT ![x] = o]
  BY DEF Shape, TypeOK, Begin
<1>2. \A y \in Actors : op'[y] = IF y = x THEN o ELSE op[y]
  BY <1>1
<1>3. \A y \in Actors : WellFormed(op'[y])
  BY <1>2 DEF Shape
<1> QED BY <1>1, <1>3 DEF WellFormed

\* So does the end of a request.
LEMMA EndShape ==
    ASSUME Shape, NEW x \in Actors, End(x)
    PROVE  /\ op' \in [Actors -> Op] /\ \A y \in Actors : WellFormed(op[y])'
           /\ held' \subseteq held
<1>1. op \in [Actors -> Op] /\ op' = [op EXCEPT ![x] = NoOp]
  BY DEF Shape, TypeOK, End
<1>2. \A y \in Actors : op'[y] = IF y = x THEN NoOp ELSE op[y]
  BY <1>1
<1>3. \A y \in Actors : WellFormed(op'[y])
  BY <1>2, NoOpShape DEF Shape
<1>4. op' \in [Actors -> Op]
  BY <1>1, NoOpShape
<1> QED BY <1>3, <1>4 DEF WellFormed, End

\* And going on to another place of the kind.
LEMMA GoShape ==
    ASSUME Shape, NEW x \in Actors, NEW at, Placed(op[x].kind, at),
           at \in {"idle", "plan", "share", "assignment", "check", "write"},
           at \in {"share", "assignment"} => op[x].holder \in Assignments,
           Go(x, at)
    PROVE  op' \in [Actors -> Op] /\ \A y \in Actors : WellFormed(op[y])'
<1> DEFINE o == [op[x] EXCEPT !.at = at]
<1>1. op \in [Actors -> Op] /\ op' = [op EXCEPT ![x].at = at]
  BY DEF Shape, TypeOK, Go
<1>2. op[x] \in Op /\ WellFormed(op[x])
  BY <1>1 DEF Shape
<1>4. o \in Op
  BY <1>2 DEF Op
<1>5. WellFormed(o)
  BY <1>2, <1>4 DEF WellFormed, Op
<1>6. \A y \in Actors : op'[y] = IF y = x THEN o ELSE op[y]
  BY <1>1
<1>7. \A y \in Actors : WellFormed(op'[y])
  BY <1>5, <1>6 DEF Shape
<1>8. op' \in [Actors -> Op]
  BY <1>1, <1>4
<1> QED BY <1>7, <1>8 DEF WellFormed

\* A lock that a request takes is a lock.
LEMMA LockShape ==
    ASSUME Shape, NEW x \in Actors, NEW row \in Plans \cup Assignments,
           NEW mode \in Modes, Lock(x, row, mode)
    PROVE  held' \subseteq [by: Actors, row: Plans \cup Assignments, mode: Modes]
BY DEF Shape, TypeOK, Lock

\* Initially everything has its shape.
LEMMA InitShape == Init => Shape
<1> SUFFICES ASSUME Init
             PROVE  Shape
  OBVIOUS
<1>1. Absent \in Plan
  BY DEF Absent, Plan, Statuses
<1>2. plan \in [Plans -> Plan] /\ inspected \in [Plans -> SUBSET Stages]
  BY <1>1 DEF Init
<1>3. stage \in [Plans -> [Stages -> StageStatuses]]
  BY DEF Init, StageStatuses
<1>4. planned \in [Plans -> [Stages -> Days]]
  BY Constants DEF Init
<1>5. assignment \in [Assignments -> AssignmentStatuses] /\ held = {}
  BY DEF Init, AssignmentStatuses
<1>6. op \in [Actors -> Op] /\ \A x \in Actors : WellFormed(op[x])
  BY NoOpShape DEF Init
<1> QED BY <1>2, <1>3, <1>4, <1>5, <1>6 DEF Shape, TypeOK

\* A handler that begins with a read changes no row, and takes no lock.
LEMMA ReadsKeepShape ==
    ASSUME Shape, NEW x \in Actors,
           NEW o \in Op, WellFormed(o), Begin(x, o), UNCHANGED <<Rows, held>>
    PROVE  Shape'
<1>1. op' \in [Actors -> Op] /\ \A y \in Actors : WellFormed(op[y])'
  BY BeginShape
<1> QED BY <1>1 DEF Shape, TypeOK, Rows

\* What the handlers read of a plan has the types of a request's fields.
LEMMA PlanFields ==
    ASSUME Shape, NEW p \in Plans
    PROVE  /\ plan[p].status \in Statuses /\ plan[p].version \in Nat
           /\ plan[p].pilot \in Pilots \cup {None}
           /\ plan[p].holder \in Assignments \cup {None}
           /\ Stages \subseteq 0 .. StageCount /\ Days \subseteq 0 .. LastDay
           /\ {"DRAFT", "ACTIVE"} \subseteq Statuses
BY Constants
DEF Shape, TypeOK, Plan, Stages, Days, Statuses, Unfinished, Running

\* The reads with which handlers begin.
LEMMA CreateReadShape ==
    ASSUME Shape, NEW x \in Actors, NEW p \in Plans, NEW i \in Pilots,
           NEW a \in Assignments \cup {None}, NEW status \in {"DRAFT", "ACTIVE"},
           CreateRead(x, p, i, a, status)
    PROVE  Shape'
<1> DEFINE o == [NoOp EXCEPT !.kind = "create", !.plan = p, !.pilot = i,
                             !.holder = a, !.status = status,
                             !.at = IF a = None THEN "check"
                                    ELSE "assignment"]
<1>1. o \in Op
  BY PlanFields, NoOpShape DEF Op, Kinds
<1>2. WellFormed(o)
  BY DEF NoOp, WellFormed, Placed, Lifecycle, Versioned
<1> QED BY <1>1, <1>2, ReadsKeepShape DEF CreateRead

LEMMA ReassignReadShape ==
    ASSUME Shape, NEW x \in Actors, NEW p \in Plans, NEW a \in Assignments,
           ReassignRead(x, p, a)
    PROVE  Shape'
<1> DEFINE o == [NoOp EXCEPT !.kind = "reassign", !.plan = p, !.holder = a,
                             !.version = plan[p].version,
                             !.status = plan[p].status, !.at = "plan"]
<1>1. o \in Op
  BY PlanFields, NoOpShape DEF Op, Kinds
<1>2. WellFormed(o)
  BY DEF NoOp, WellFormed, Placed, Lifecycle, Versioned
<1> QED BY <1>1, <1>2, ReadsKeepShape DEF ReassignRead

LEMMA CompleteReadShape ==
    ASSUME Shape, NEW x \in Actors, NEW p \in Plans, NEW s \in Stages,
           CompleteRead(x, p, s)
    PROVE  Shape'
<1> DEFINE n == s < StageCount /\ stage[p][s + 1] = "NOT_STARTED"
           o == [NoOp EXCEPT !.kind = "complete", !.plan = p, !.stage = s,
                             !.version = plan[p].version, !.at = "write",
                             !.next = n]
<1>1. o \in Op
  <2>1. n \in BOOLEAN
    OBVIOUS
  <2> HIDE DEF n
  <2> QED BY <2>1, PlanFields, NoOpShape DEF Op, Kinds
<1>2. WellFormed(o)
  BY DEF NoOp, WellFormed, Placed, Lifecycle, Versioned
<1> QED BY <1>1, <1>2, ReadsKeepShape DEF CompleteRead

LEMMA RescheduleReadShape ==
    ASSUME Shape, NEW x \in Actors, NEW p \in Plans, NEW s \in Stages,
           NEW day \in Days, RescheduleRead(x, p, s, day)
    PROVE  Shape'
<1> DEFINE o == [NoOp EXCEPT !.kind = "reschedule", !.plan = p, !.stage = s,
                             !.day = day, !.version = plan[p].version,
                             !.at = "write"]
<1>1. o \in Op
  BY PlanFields, NoOpShape DEF Op, Kinds
<1>2. WellFormed(o)
  BY DEF NoOp, WellFormed, Placed, Lifecycle, Versioned
<1> QED BY <1>1, <1>2, ReadsKeepShape DEF RescheduleRead

LEMMA EditReadShape ==
    ASSUME Shape, NEW x \in Actors, NEW p \in Plans, EditRead(x, p)
    PROVE  Shape'
<1> DEFINE o == [NoOp EXCEPT !.kind = "edit", !.plan = p, !.at = "write",
                             !.version = plan[p].version,
                             !.status = plan[p].status]
<1>1. o \in Op
  BY PlanFields, NoOpShape DEF Op, Kinds
<1>2. WellFormed(o)
  BY DEF NoOp, WellFormed, Placed, Lifecycle, Versioned
<1> QED BY <1>1, <1>2, ReadsKeepShape DEF EditRead

LEMMA LifecycleLockPlanShape ==
    ASSUME Shape, NEW x \in Actors, NEW p \in Plans,
           NEW action \in Lifecycle, LifecycleLockPlan(x, p, action)
    PROVE  Shape'
<1> DEFINE held_o == [NoOp EXCEPT !.kind = action, !.plan = p,
                                  !.holder = plan[p].holder,
                                  !.pilot = plan[p].pilot,
                                  !.status = "ACTIVE", !.at = "assignment"]
           free_o == [NoOp EXCEPT !.kind = action, !.plan = p, !.at = "write"]
<1>1. held' \subseteq [by: Actors, row: Plans \cup Assignments, mode: Modes]
  BY LockShape DEF LifecycleLockPlan, Modes
<1>2. op' \in [Actors -> Op] /\ \A y \in Actors : WellFormed(op[y])'
  <2>1. CASE action \in {"start", "resume"}
    <3>1. held_o \in Op
      BY <2>1, PlanFields, NoOpShape DEF Op, Kinds
    <3>2. plan[p].holder \in Assignments
      BY <2>1, PlanFields DEF LifecycleLockPlan
    <3>3. WellFormed(held_o)
      BY <2>1, <3>2 DEF NoOp, WellFormed, Placed, Lifecycle, Versioned
    <3>4. Begin(x, held_o)
      BY <2>1 DEF LifecycleLockPlan
    <3> QED BY <3>1, <3>3, <3>4, BeginShape
  <2>2. CASE action \in {"pause", "cancel"}
    <3>1. free_o \in Op
      BY <2>2, PlanFields, NoOpShape DEF Op, Kinds
    <3>2. WellFormed(free_o)
      BY <2>2 DEF NoOp, WellFormed, Placed, Lifecycle, Versioned
    <3>3. Begin(x, free_o)
      BY <2>2 DEF LifecycleLockPlan
    <3> QED BY <3>1, <3>2, <3>3, BeginShape
  <2> QED BY <2>1, <2>2 DEF Lifecycle
<1> QED BY <1>1, <1>2 DEF Shape, TypeOK, LifecycleLockPlan, Rows

LEMMA EndLockShape ==
    ASSUME Shape, NEW x \in Actors, NEW a \in Assignments, EndLock(x, a)
    PROVE  Shape'
<1> DEFINE o == [NoOp EXCEPT !.kind = "end", !.holder = a, !.at = "check"]
<1>1. held' \subseteq [by: Actors, row: Plans \cup Assignments, mode: Modes]
  BY LockShape DEF EndLock, Modes
<1>2. o \in Op
  BY NoOpShape DEF Op, Kinds
<1>3. WellFormed(o)
  BY DEF NoOp, WellFormed, Placed, Lifecycle, Versioned
<1>4. op' \in [Actors -> Op] /\ \A y \in Actors : WellFormed(op[y])'
  BY <1>2, <1>3, BeginShape DEF EndLock
<1> QED BY <1>1, <1>4 DEF Shape, TypeOK, EndLock, Rows

\* The steps that wait for a row or read again, and go on.
LEMMA WaitsKeepShape ==
    ASSUME Shape, NEW x \in Actors,
           \/ ReassignPlan(x) \/ ReassignShare(x) \/ LockAssignment(x)
           \/ Check(x) \/ EndCheck(x)
    PROVE  Shape'
<1>1. WellFormed(op[x])
  BY DEF Shape
<1> DEFINE Typed == op' \in [Actors -> Op] /\ \A y \in Actors : WellFormed(op[y])'
           Locked == held' \subseteq [by: Actors, row: Plans \cup Assignments,
                                      mode: Modes]
<1>2. CASE ReassignPlan(x)
  <2>1. Typed
    <3>1. op[x].holder \in Assignments /\ op[x].kind = "reassign"
      BY <1>1, <1>2 DEF ReassignPlan, At, WellFormed
    <3>2. CASE Go(x, "assignment")
      BY <3>1, <3>2, GoShape DEF Placed
    <3>3. CASE Go(x, "share")
      BY <3>1, <3>3, GoShape DEF Placed
    <3> QED BY <1>2, <3>2, <3>3 DEF ReassignPlan
  <2>2. op[x].plan \in Plans
    BY <1>1, <1>2 DEF ReassignPlan, At, WellFormed, Versioned
  <2>3. Locked
    BY <1>2, <2>2, LockShape DEF ReassignPlan, Modes
  <2> QED BY <1>2, <2>1, <2>3 DEF Shape, TypeOK, ReassignPlan, Rows
<1>3. CASE ReassignShare(x)
  <2>1. op[x].holder \in Assignments /\ op[x].kind = "reassign"
    BY <1>1, <1>3 DEF ReassignShare, At, WellFormed
  <2>2. Typed
    BY <1>3, <2>1, GoShape DEF ReassignShare, Placed
  <2>3. Locked
    BY <1>3, <2>1, LockShape DEF ReassignShare, Modes
  <2> QED BY <1>3, <2>2, <2>3 DEF Shape, TypeOK, ReassignShare, Rows
<1>4. CASE LockAssignment(x)
  <2>1. op[x].holder \in Assignments
        /\ op[x].kind \in {"create", "start", "resume", "reassign"}
    BY <1>1, <1>4 DEF LockAssignment, WellFormed, Placed, Shape, TypeOK, Op, Kinds
  <2>2. Typed
    BY <1>4, <2>1, GoShape DEF LockAssignment, Placed
  <2>3. Locked
    BY <1>4, <2>1, LockShape DEF LockAssignment, Modes
  <2> QED BY <1>4, <2>2, <2>3 DEF Shape, TypeOK, LockAssignment, Rows
<1>5. CASE Check(x)
  <2>1. Typed
    BY <1>5, GoShape DEF Check, At, Placed
  <2> QED BY <1>5, <2>1 DEF Shape, TypeOK, Check, Rows
<1>6. CASE EndCheck(x)
  <2>1. Typed
    BY <1>6, GoShape DEF EndCheck, At, Placed
  <2> QED BY <1>6, <2>1 DEF Shape, TypeOK, EndCheck, Rows
<1> QED BY <1>2, <1>3, <1>4, <1>5, <1>6

\* The writes that end a transaction.
LEMMA CreateWriteShape ==
    ASSUME Shape, NEW x \in Actors, CreateWrite(x)
    PROVE  Shape'
<1> DEFINE o == op[x]
<1>1. o \in Op /\ o.plan \in Plans /\ o.pilot \in Pilots
  BY DEF Shape, TypeOK, WellFormed, CreateWrite, At
<1>2. plan' \in [Plans -> Plan]
  <2>1. [status |-> o.status, pilot |-> o.pilot, holder |-> o.holder,
         version |-> 1] \in Plan
    BY <1>1 DEF Op, Plan
  <2> QED BY <2>1 DEF CreateWrite, Shape, TypeOK
<1>3. stage' \in [Plans -> [Stages -> StageStatuses]]
  <2>1. [stage[o.plan] EXCEPT ![1] = "SCHEDULED"] \in [Stages -> StageStatuses]
    BY <1>1, Constants DEF Shape, TypeOK, StageStatuses
  <2> QED BY <2>1 DEF CreateWrite, Shape, TypeOK
<1>4. planned' \in [Plans -> [Stages -> Days]]
  BY <1>1, Constants DEF CreateWrite, Shape, TypeOK
<1>5. op' \in [Actors -> Op] /\ (\A y \in Actors : WellFormed(op[y])')
      /\ held' \subseteq held
  BY EndShape DEF CreateWrite
<1> QED BY <1>2, <1>3, <1>4, <1>5 DEF CreateWrite, Shape, TypeOK

\* A plan with a new version is a plan.
LEMMA BumpedShape ==
    ASSUME Shape, NEW p \in Plans
    PROVE  /\ Bumped(p) \in Plan
           /\ Bumped(p) = [status |-> plan[p].status, pilot |-> plan[p].pilot,
                           holder |-> plan[p].holder,
                           version |-> plan[p].version + 1]
BY DEF Shape, TypeOK, Plan, Bumped

LEMMA LifecycleWriteShape ==
    ASSUME Shape, NEW x \in Actors, LifecycleWrite(x)
    PROVE  Shape'
<1> DEFINE o == op[x]
<1>1. o.plan \in Plans /\ o.kind \in Lifecycle
  BY DEF Shape, WellFormed, LifecycleWrite, At, Lifecycle
<1>2. plan' \in [Plans -> Plan]
  <2>1. Becomes(o.kind) \in Statuses
    BY <1>1 DEF Lifecycle, Becomes, Statuses, Unfinished, Running
  <2>2. [Bumped(o.plan) EXCEPT !.status = Becomes(o.kind)] \in Plan
    BY <1>1, <2>1, BumpedShape DEF Plan
  <2> QED BY <2>2 DEF LifecycleWrite, Shape, TypeOK
<1>3. stage' \in [Plans -> [Stages -> StageStatuses]]
  <2>1. [stage[o.plan] EXCEPT ![1] = "SCHEDULED"] \in [Stages -> StageStatuses]
    BY <1>1, Constants DEF Shape, TypeOK, StageStatuses
  <2> QED BY <2>1 DEF LifecycleWrite, Shape, TypeOK
<1>4. op' \in [Actors -> Op] /\ (\A y \in Actors : WellFormed(op[y])')
      /\ held' \subseteq held
  BY EndShape DEF LifecycleWrite
<1> QED BY <1>2, <1>3, <1>4 DEF LifecycleWrite, Shape, TypeOK

LEMMA ReassignWriteShape ==
    ASSUME Shape, NEW x \in Actors, ReassignWrite(x)
    PROVE  Shape'
<1> DEFINE o == op[x]
<1>1. o.plan \in Plans /\ o.holder \in Assignments
  BY DEF Shape, WellFormed, ReassignWrite, At, Versioned
<1>2. plan' \in [Plans -> Plan]
  <2>1. [Bumped(o.plan) EXCEPT !.holder = o.holder,
                               !.pilot = PilotOf[o.holder]] \in Plan
    BY <1>1, BumpedShape, Constants DEF Plan
  <2> QED BY <2>1 DEF ReassignWrite, Shape, TypeOK
<1>3. op' \in [Actors -> Op] /\ (\A y \in Actors : WellFormed(op[y])')
      /\ held' \subseteq held
  BY EndShape DEF ReassignWrite
<1> QED BY <1>2, <1>3 DEF ReassignWrite, Shape, TypeOK

LEMMA CompleteWriteShape ==
    ASSUME Shape, NEW x \in Actors, CompleteWrite(x)
    PROVE  Shape'
<1> DEFINE o == op[x]
<1>1. o.plan \in Plans /\ o.stage \in Stages
  BY DEF Shape, WellFormed, CompleteWrite, At, Versioned
<1>2. plan' \in [Plans -> Plan]
  <2>1. [Bumped(o.plan) EXCEPT !.status =
            IF o.stage = StageCount THEN "COMPLETED" ELSE @] \in Plan
    BY <1>1, BumpedShape DEF Plan, Statuses
  <2> QED BY <2>1 DEF CompleteWrite, Shape, TypeOK
<1>3. stage' \in [Plans -> [Stages -> StageStatuses]]
  BY <1>1 DEF CompleteWrite, Shape, TypeOK, StageStatuses
<1>4. inspected' \in [Plans -> SUBSET Stages]
  BY <1>1 DEF CompleteWrite, Shape, TypeOK
<1>5. op' \in [Actors -> Op] /\ (\A y \in Actors : WellFormed(op[y])')
      /\ held' \subseteq held
  BY EndShape DEF CompleteWrite
<1> QED BY <1>2, <1>3, <1>4, <1>5 DEF CompleteWrite, Shape, TypeOK

LEMMA RescheduleWriteShape ==
    ASSUME Shape, NEW x \in Actors, RescheduleWrite(x)
    PROVE  Shape'
<1> DEFINE o == op[x]
<1>1. o.plan \in Plans /\ o.stage \in Stages /\ o.day \in Days
  BY DEF Shape, WellFormed, RescheduleWrite, At, Versioned
<1>2. plan' \in [Plans -> Plan]
  BY <1>1, BumpedShape DEF RescheduleWrite, Shape, TypeOK
<1>3. planned' \in [Plans -> [Stages -> Days]]
  BY <1>1 DEF RescheduleWrite, Shape, TypeOK
<1>4. op' \in [Actors -> Op] /\ (\A y \in Actors : WellFormed(op[y])')
      /\ held' \subseteq held
  BY EndShape DEF RescheduleWrite
<1> QED BY <1>2, <1>3, <1>4 DEF RescheduleWrite, Shape, TypeOK

LEMMA EditWriteShape ==
    ASSUME Shape, NEW x \in Actors, EditWrite(x)
    PROVE  Shape'
<1> DEFINE o == op[x]
<1>1. o.plan \in Plans
  BY DEF Shape, WellFormed, EditWrite, At, Versioned
<1>2. plan' \in [Plans -> Plan]
  BY <1>1, BumpedShape DEF EditWrite, Shape, TypeOK
<1>3. planned' \in [Plans -> [Stages -> Days]]
      /\ inspected' \in [Plans -> SUBSET Stages]
  BY <1>1, Constants DEF EditWrite, Shape, TypeOK
<1>4. op' \in [Actors -> Op] /\ (\A y \in Actors : WellFormed(op[y])')
      /\ held' \subseteq held
  BY EndShape DEF EditWrite
<1> QED BY <1>2, <1>3, <1>4 DEF EditWrite, Shape, TypeOK

LEMMA EndWriteShape ==
    ASSUME Shape, NEW x \in Actors, EndWrite(x)
    PROVE  Shape'
<1>1. assignment' \in [Assignments -> AssignmentStatuses]
  BY DEF EndWrite, Shape, TypeOK, AssignmentStatuses
<1>2. op' \in [Actors -> Op] /\ (\A y \in Actors : WellFormed(op[y])')
      /\ held' \subseteq held
  BY EndShape DEF EndWrite
<1> QED BY <1>1, <1>2 DEF EndWrite, Shape, TypeOK

LEMMA AbandonShape ==
    ASSUME Shape, NEW x \in Actors, Abandon(x)
    PROVE  Shape'
<1>1. op' \in [Actors -> Op] /\ (\A y \in Actors : WellFormed(op[y])')
      /\ held' \subseteq held
  BY EndShape DEF Abandon
<1> QED BY <1>1 DEF Abandon, Rows, Shape, TypeOK

LEMMA AssignmentShape ==
    ASSUME Shape, NEW a \in Assignments, AssignPosition(a) \/ DeletePosition(a)
    PROVE  Shape'
BY DEF AssignPosition, DeletePosition, Shape, TypeOK, AssignmentStatuses,
       WellFormed

\* The steps of a request.
Step(x) ==
    \/ \E p \in Plans, i \in Pilots, a \in Assignments \cup {None},
         status \in {"DRAFT", "ACTIVE"} : CreateRead(x, p, i, a, status)
    \/ CreateWrite(x)
    \/ \E p \in Plans, action \in Lifecycle : LifecycleLockPlan(x, p, action)
    \/ LifecycleWrite(x)
    \/ \E p \in Plans, a \in Assignments : ReassignRead(x, p, a)
    \/ ReassignPlan(x) \/ ReassignShare(x) \/ ReassignWrite(x)
    \/ LockAssignment(x) \/ Check(x)
    \/ \E p \in Plans, s \in Stages : CompleteRead(x, p, s)
    \/ CompleteWrite(x)
    \/ \E p \in Plans, s \in Stages, day \in Days : RescheduleRead(x, p, s, day)
    \/ RescheduleWrite(x)
    \/ \E p \in Plans : EditRead(x, p)
    \/ EditWrite(x)
    \/ \E a \in Assignments : EndLock(x, a)
    \/ EndCheck(x) \/ EndWrite(x)
    \/ Abandon(x)

LEMMA NextIsSteps ==
    Next <=> \/ \E x \in Actors : Step(x)
             \/ \E a \in Assignments : AssignPosition(a) \/ DeletePosition(a)
BY DEF Next, Step, Lifecycle

\* Every step keeps the shape.
LEMMA NextShape == Shape /\ [Next]_vars => Shape'
<1> SUFFICES ASSUME Shape, [Next]_vars
             PROVE  Shape'
  OBVIOUS
<1>1. ASSUME NEW x \in Actors, Step(x)
      PROVE  Shape'
  BY <1>1, CreateReadShape, CreateWriteShape, LifecycleLockPlanShape,
     LifecycleWriteShape, ReassignReadShape, ReassignWriteShape,
     WaitsKeepShape, CompleteReadShape, CompleteWriteShape,
     RescheduleReadShape, RescheduleWriteShape, EditReadShape, EditWriteShape,
     EndLockShape, EndWriteShape, AbandonShape
  DEF Step
<1>2. CASE UNCHANGED vars
  BY <1>2 DEF vars, Shape, TypeOK, WellFormed
<1> QED BY <1>1, <1>2, AssignmentShape, NextIsSteps

\* Every reachable state is well typed.
THEOREM TypeCorrect == Spec => []TypeOK
<1>1. Spec => []Shape
  BY InitShape, NextShape, PTL DEF Spec
<1>2. Shape => TypeOK
  BY DEF Shape
<1> QED BY <1>1, <1>2, PTL

-----------------------------------------------------------------------------
(* Locks.                                                                  *)

\* A row locked for update is locked by one request only, and two locks
\* agree in either order.
LEMMA LockModes ==
    /\ \A m : ~ Compatible("for_update", m) /\ ~ Compatible(m, "for_update")
    /\ \A m, n : Compatible(m, n) <=> Compatible(n, m)
    /\ ~ Compatible("update", "update")
<1>1. \A m, n : {m, n} = {n, m}
  OBVIOUS
<1>2. \A m : "for_update" \in {"for_update", m} /\ "for_update" \in {m, "for_update"}
  OBVIOUS
<1>3. "for_update" \notin {"key_share"} /\ "for_update" \notin {"key_share", "update"}
  OBVIOUS
<1>4. {"update", "update"} # {"key_share"} /\ {"update", "update"} # {"key_share", "update"}
  <2>1. "update" \in {"update", "update"} /\ "update" \notin {"key_share"}
    OBVIOUS
  <2>2. "key_share" \in {"key_share", "update"} /\ "key_share" \notin {"update", "update"}
    OBVIOUS
  <2> QED BY <2>1, <2>2
<1> QED BY <1>1, <1>2, <1>3, <1>4 DEF Compatible

\* A step that moves one request and takes no lock.
LEMMA LocksKept ==
    ASSUME Shape, Locks, NEW x \in Actors, NEW o,
           op' = [op EXCEPT ![x] = o], held' = held,
           HeldIn(held, x, o),
           \A row : Explains(op[x], row) => Explains(o, row)
    PROVE  Locks'
<1>1. \A y \in Actors : op'[y] = IF y = x THEN o ELSE op[y]
  BY DEF Shape, TypeOK
<1>2. \A y \in Actors : HeldIn(held', y, op'[y])
  BY <1>1 DEF Locks, LocksAreHeld
<1>3. \A l \in held' : Explains(op'[l.by], l.row)
  <2>1. \A l \in held : l.by \in Actors
    BY DEF Shape, TypeOK
  <2> QED BY <1>1, <2>1 DEF Locks, LocksAreExplained
<1> QED
  BY <1>2, <1>3
  DEF Locks, LocksAreHeld, LocksAreExplained, LocksExclude, HeldIn, Explains,
      Compatible

\* A step that moves one request and takes a lock.
LEMMA LocksTaken ==
    ASSUME Shape, Locks, NEW x \in Actors, NEW o, NEW row, NEW mode,
           op' = [op EXCEPT ![x] = o], Lock(x, row, mode),
           HeldIn(held', x, o), Explains(o, row),
           \A r : Explains(op[x], r) => Explains(o, r)
    PROVE  Locks'
<1> DEFINE new == [by |-> x, row |-> row, mode |-> mode]
<1>1. \A y \in Actors : op'[y] = IF y = x THEN o ELSE op[y]
  BY DEF Shape, TypeOK
<1>2. held' = held \cup {new}
  BY DEF Lock
<1>3. \A y \in Actors : HeldIn(held', y, op'[y])
  <2> SUFFICES ASSUME NEW y \in Actors
               PROVE  HeldIn(held', y, op'[y])
    OBVIOUS
  <2>1. CASE y = x
    BY <1>1, <2>1
  <2>2. CASE y # x
    <3>1. op'[y] = op[y] /\ HeldIn(held, y, op[y])
      BY <1>1, <2>2 DEF Locks, LocksAreHeld
    <3> QED BY <1>2, <3>1 DEF HeldIn
  <2> QED BY <2>1, <2>2
<1>4. \A l \in held' : Explains(op'[l.by], l.row)
  <2>1. \A l \in held : l.by \in Actors
    BY DEF Shape, TypeOK
  <2>2. \A l \in held : Explains(op'[l.by], l.row)
    BY <1>1, <2>1 DEF Locks, LocksAreExplained
  <2>3. Explains(op'[new.by], new.row)
    BY <1>1
  <2> QED BY <1>2, <2>2, <2>3
<1>5. \A l, m \in held' : l.row = m.row /\ l.by # m.by => Compatible(l.mode, m.mode)
  <2>1. \A l \in held : l.row = row /\ l.by # x =>
            Compatible(l.mode, mode) /\ Compatible(mode, l.mode)
    BY LockModes DEF Lock, Obstacles
  <2>2. \A l \in held : l.row = new.row /\ l.by # new.by =>
            Compatible(l.mode, new.mode) /\ Compatible(new.mode, l.mode)
    BY <2>1
  <2>3. \A l, m \in held : l.row = m.row /\ l.by # m.by => Compatible(l.mode, m.mode)
    BY DEF Locks, LocksExclude
  <2> HIDE DEF new
  <2> QED BY <1>2, <2>2, <2>3
<1> QED
  BY <1>3, <1>4, <1>5
  DEF Locks, LocksAreHeld, LocksAreExplained, LocksExclude, HeldIn, Explains,
      Compatible

\* The end of a transaction.
LEMMA LocksReleased ==
    ASSUME Shape, Locks, NEW x \in Actors, End(x)
    PROVE  Locks'
<1>1. \A y \in Actors : op'[y] = IF y = x THEN NoOp ELSE op[y]
  BY DEF Shape, TypeOK, End
<1>2. \A y \in Actors : HeldIn(held', y, op'[y])
  <2> SUFFICES ASSUME NEW y \in Actors
               PROVE  HeldIn(held', y, op'[y])
    OBVIOUS
  <2>1. CASE y = x
    BY <1>1, <2>1 DEF NoOp, HeldIn, Lifecycle
  <2>2. CASE y # x
    BY <1>1, <2>2 DEF Locks, LocksAreHeld, HeldIn, End
  <2> QED BY <2>1, <2>2
<1>3. \A l \in held' : l \in held /\ l.by \in Actors /\ l.by # x
  BY DEF Shape, TypeOK, End
<1>4. \A l \in held' : Explains(op'[l.by], l.row)
  BY <1>1, <1>3 DEF Locks, LocksAreExplained
<1>5. \A l, m \in held' : l.row = m.row /\ l.by # m.by => Compatible(l.mode, m.mode)
  BY <1>3 DEF Locks, LocksExclude
<1> QED
  BY <1>2, <1>4, <1>5
  DEF Locks, LocksAreHeld, LocksAreExplained, LocksExclude, HeldIn, Explains,
      Compatible

\* A request that begins holds nothing.
LEMMA IdleHoldsNothing ==
    ASSUME NEW row
    PROVE  ~ Explains(NoOp, row)
BY DEF Explains, NoOp, Lifecycle

\* The handlers that begin with a read.
LEMMA ReadsKeepLocks ==
    ASSUME Shape, Locks, NEW x \in Actors, NEW o, Begin(x, o), held' = held,
           \/ o.kind \in {"complete", "reschedule", "edit"}
           \/ o.kind = "reassign" /\ o.at = "plan"
           \/ o.kind = "create" /\ o.at = "assignment"
           \/ o.kind = "create" /\ o.holder = None
    PROVE  Locks'
<1>1. op' = [op EXCEPT ![x] = o] /\ op[x] = NoOp
  BY DEF Begin
<1>2. HeldIn(held, x, o)
  BY DEF HeldIn, Lifecycle
<1> QED BY <1>1, <1>2, IdleHoldsNothing, LocksKept

LEMMA CreateReadLocks ==
    ASSUME Shape, Locks, NEW x \in Actors, NEW p \in Plans, NEW i \in Pilots,
           NEW a \in Assignments \cup {None}, NEW status \in {"DRAFT", "ACTIVE"},
           CreateRead(x, p, i, a, status)
    PROVE  Locks'
<1> DEFINE o == [NoOp EXCEPT !.kind = "create", !.plan = p, !.pilot = i,
                             !.holder = a, !.status = status,
                             !.at = IF a = None THEN "check"
                                    ELSE "assignment"]
<1>1. \/ o.kind = "create" /\ o.at = "assignment"
      \/ o.kind = "create" /\ o.holder = None
  BY DEF NoOp
<1>2. Begin(x, o) /\ held' = held
  BY DEF CreateRead
<1> HIDE DEF o
<1> QED BY <1>1, <1>2, ReadsKeepLocks

LEMMA OtherReadsLocks ==
    ASSUME Shape, Locks, NEW x \in Actors, NEW p \in Plans,
           \/ \E a \in Assignments : ReassignRead(x, p, a)
           \/ \E s \in Stages : CompleteRead(x, p, s)
           \/ \E s \in Stages, day \in Days : RescheduleRead(x, p, s, day)
           \/ EditRead(x, p)
    PROVE  Locks'
<1>1. ASSUME NEW a \in Assignments, ReassignRead(x, p, a)
      PROVE  Locks'
  <2> DEFINE o == [NoOp EXCEPT !.kind = "reassign", !.plan = p, !.holder = a,
                               !.version = plan[p].version,
                               !.status = plan[p].status, !.at = "plan"]
  <2>1. o.kind = "reassign" /\ o.at = "plan"
    BY DEF NoOp
  <2>2. Begin(x, o) /\ held' = held
    BY <1>1 DEF ReassignRead
  <2> HIDE DEF o
  <2> QED BY <2>1, <2>2, ReadsKeepLocks
<1>2. ASSUME NEW s \in Stages, CompleteRead(x, p, s)
      PROVE  Locks'
  <2> DEFINE o == [NoOp EXCEPT !.kind = "complete", !.plan = p, !.stage = s,
                               !.version = plan[p].version, !.at = "write",
                               !.next = s < StageCount
                                        /\ stage[p][s + 1] = "NOT_STARTED"]
  <2>1. o.kind = "complete"
    BY DEF NoOp
  <2>2. Begin(x, o) /\ held' = held
    BY <1>2 DEF CompleteRead
  <2> HIDE DEF o
  <2> QED BY <2>1, <2>2, ReadsKeepLocks
<1>3. ASSUME NEW s \in Stages, NEW day \in Days, RescheduleRead(x, p, s, day)
      PROVE  Locks'
  <2> DEFINE o == [NoOp EXCEPT !.kind = "reschedule", !.plan = p, !.stage = s,
                               !.day = day, !.version = plan[p].version,
                               !.at = "write"]
  <2>1. o.kind = "reschedule"
    BY DEF NoOp
  <2>2. Begin(x, o) /\ held' = held
    BY <1>3 DEF RescheduleRead
  <2> HIDE DEF o
  <2> QED BY <2>1, <2>2, ReadsKeepLocks
<1>4. CASE EditRead(x, p)
  <2> DEFINE o == [NoOp EXCEPT !.kind = "edit", !.plan = p, !.at = "write",
                               !.version = plan[p].version,
                               !.status = plan[p].status]
  <2>1. o.kind = "edit"
    BY DEF NoOp
  <2>2. Begin(x, o) /\ held' = held
    BY <1>4 DEF EditRead
  <2> HIDE DEF o
  <2> QED BY <2>1, <2>2, ReadsKeepLocks
<1> QED BY <1>1, <1>2, <1>3, <1>4

\* The handlers that begin with a lock.
LEMMA LifecycleLockPlanLocks ==
    ASSUME Shape, Locks, NEW x \in Actors, NEW p \in Plans,
           NEW action \in Lifecycle, LifecycleLockPlan(x, p, action)
    PROVE  Locks'
<1>1. PICK o : /\ Begin(x, o) /\ o.kind = action /\ o.plan = p
               /\ o.at \in {"assignment", "write"}
               /\ o.at = "write" => action \in {"pause", "cancel"}
  <2> DEFINE held_o == [NoOp EXCEPT !.kind = action, !.plan = p,
                                    !.holder = plan[p].holder,
                                    !.pilot = plan[p].pilot,
                                    !.status = "ACTIVE", !.at = "assignment"]
             free_o == [NoOp EXCEPT !.kind = action, !.plan = p, !.at = "write"]
  <2>1. CASE action \in {"start", "resume"}
    <3>1. held_o.kind = action /\ held_o.plan = p /\ held_o.at = "assignment"
      BY DEF NoOp
    <3>2. Begin(x, held_o)
      BY <2>1 DEF LifecycleLockPlan
    <3> HIDE DEF held_o
    <3> QED BY <3>1, <3>2
  <2>2. CASE action \in {"pause", "cancel"}
    <3>1. free_o.kind = action /\ free_o.plan = p /\ free_o.at = "write"
      BY DEF NoOp
    <3>2. Begin(x, free_o)
      BY <2>2 DEF LifecycleLockPlan
    <3> HIDE DEF free_o
    <3> QED BY <2>2, <3>1, <3>2
  <2> QED BY <2>1, <2>2 DEF Lifecycle
<1>2. Lock(x, p, "for_update") /\ op' = [op EXCEPT ![x] = o] /\ op[x] = NoOp
  BY <1>1 DEF LifecycleLockPlan, Begin
<1>3. HeldIn(held', x, o)
  BY <1>1, <1>2 DEF HeldIn, Lock, Lifecycle
<1>4. Explains(o, p)
  BY <1>1 DEF Explains, Lifecycle
<1> QED BY <1>2, <1>3, <1>4, IdleHoldsNothing, LocksTaken

LEMMA EndLockLocks ==
    ASSUME Shape, Locks, NEW x \in Actors, NEW a \in Assignments, EndLock(x, a)
    PROVE  Locks'
<1> DEFINE o == [NoOp EXCEPT !.kind = "end", !.holder = a, !.at = "check"]
<1>1. o.kind = "end" /\ o.holder = a /\ o.at = "check"
  BY DEF NoOp
<1>2. Lock(x, a, "for_update") /\ op' = [op EXCEPT ![x] = o] /\ op[x] = NoOp
  BY DEF EndLock, Begin
<1> HIDE DEF o
<1>3. HeldIn(held', x, o)
  BY <1>1, <1>2 DEF HeldIn, Lock, Lifecycle
<1>4. Explains(o, a)
  BY <1>1 DEF Explains
<1> QED BY <1>2, <1>3, <1>4, IdleHoldsNothing, LocksTaken

\* What Go changes.
LEMMA GoMoves ==
    ASSUME Shape, NEW x \in Actors, NEW at, Go(x, at)
    PROVE  \E o : /\ op' = [op EXCEPT ![x] = o]
                  /\ o.at = at /\ o.kind = op[x].kind
                  /\ o.plan = op[x].plan /\ o.holder = op[x].holder
                  /\ o = [op[x] EXCEPT !.at = at]
<1> DEFINE o == [op[x] EXCEPT !.at = at]
<1>1. op[x] \in Op
  BY DEF Shape, TypeOK
<1>2. op' = [op EXCEPT ![x] = o]
  BY DEF Go
<1>3. /\ o.at = at /\ o.kind = op[x].kind
      /\ o.plan = op[x].plan /\ o.holder = op[x].holder
  BY <1>1 DEF Op
<1> HIDE DEF o
<1>4. o = [op[x] EXCEPT !.at = at]
  BY DEF o
<1> QED BY <1>2, <1>3, <1>4

\* The steps in between.
LEMMA WaitsKeepLocks ==
    ASSUME Shape, Locks, NEW x \in Actors,
           \/ ReassignPlan(x) \/ ReassignShare(x) \/ LockAssignment(x)
           \/ Check(x) \/ EndCheck(x)
    PROVE  Locks'
<1>0. WellFormed(op[x]) /\ HeldIn(held, x, op[x])
  BY DEF Shape, Locks, LocksAreHeld
<1>1. CASE ReassignPlan(x)
  <2>1. op[x].kind = "reassign" /\ op[x].at = "plan" /\ Lock(x, op[x].plan, "update")
    BY <1>1 DEF ReassignPlan, At
  <2>2. PICK o : /\ op' = [op EXCEPT ![x] = o]
                 /\ o.at \in {"share", "assignment"} /\ o.kind = "reassign"
                 /\ o.plan = op[x].plan /\ o.holder = op[x].holder
    BY <1>1, <2>1, GoMoves DEF ReassignPlan
  <2>3. HeldIn(held', x, o) /\ Explains(o, op[x].plan)
    BY <2>1, <2>2 DEF HeldIn, Explains, Lock, Lifecycle
  <2>4. \A r : ~ Explains(op[x], r)
    BY <2>1 DEF Explains
  <2> QED BY <2>1, <2>2, <2>3, <2>4, LocksTaken
<1>2. CASE ReassignShare(x)
  <2>1. op[x].kind = "reassign" /\ op[x].at = "share"
        /\ Lock(x, op[x].holder, "key_share")
    BY <1>2 DEF ReassignShare, At
  <2>2. PICK o : /\ op' = [op EXCEPT ![x] = o]
                 /\ o.at = "assignment" /\ o.kind = "reassign"
                 /\ o.plan = op[x].plan /\ o.holder = op[x].holder
    BY <1>2, <2>1, GoMoves DEF ReassignShare
  <2>3. HeldIn(held', x, o) /\ Explains(o, op[x].holder)
    BY <1>0, <2>1, <2>2 DEF HeldIn, Explains, Lock, Lifecycle
  <2>4. \A r : Explains(op[x], r) => Explains(o, r)
    BY <2>1, <2>2 DEF Explains
  <2> QED BY <2>1, <2>2, <2>3, <2>4, LocksTaken
<1>3. CASE LockAssignment(x)
  <2>1. op[x].at = "assignment" /\ Lock(x, op[x].holder, "for_update")
    BY <1>3 DEF LockAssignment
  <2>2. PICK o : /\ op' = [op EXCEPT ![x] = o]
                 /\ o.at = "check" /\ o.kind = op[x].kind
                 /\ o.plan = op[x].plan /\ o.holder = op[x].holder
    BY <1>3, GoMoves DEF LockAssignment
  <2>3. HeldIn(held', x, o) /\ Explains(o, op[x].holder)
    BY <1>0, <2>1, <2>2 DEF HeldIn, Explains, Lock, Lifecycle
  <2>4. \A r : Explains(op[x], r) => Explains(o, r)
    BY <2>1, <2>2 DEF Explains
  <2> QED BY <2>1, <2>2, <2>3, <2>4, LocksTaken
<1>4. CASE Check(x) \/ EndCheck(x)
  <2>1. op[x].at = "check" /\ held' = held /\ Go(x, "write")
    BY <1>4 DEF Check, EndCheck, At
  <2>2. PICK o : /\ op' = [op EXCEPT ![x] = o]
                 /\ o.at = "write" /\ o.kind = op[x].kind
                 /\ o.plan = op[x].plan /\ o.holder = op[x].holder
    BY <2>1, GoMoves
  <2>3. HeldIn(held, x, o)
    BY <1>0, <2>1, <2>2 DEF HeldIn
  <2>4. \A r : Explains(op[x], r) => Explains(o, r)
    BY <2>1, <2>2 DEF Explains
  <2> QED BY <2>1, <2>2, <2>3, <2>4, LocksKept
<1> QED BY <1>1, <1>2, <1>3, <1>4

\* Initially nothing is locked.
LEMMA InitLocks == Init => Locks
<1> SUFFICES ASSUME Init
             PROVE  Locks
  OBVIOUS
<1>1. \A x \in Actors : op[x] = NoOp
  BY DEF Init
<1>2. LocksAreHeld
  BY <1>1 DEF LocksAreHeld, HeldIn, NoOp, Lifecycle
<1>3. LocksAreExplained /\ LocksExclude
  BY DEF Init, LocksAreExplained, LocksExclude
<1> QED BY <1>2, <1>3 DEF Locks

\* Every step keeps the locks in order.
LEMMA NextLocks == Shape /\ Locks /\ [Next]_vars => Locks'
<1> SUFFICES ASSUME Shape, Locks, [Next]_vars
             PROVE  Locks'
  OBVIOUS
<1>1. ASSUME NEW x \in Actors, Step(x)
      PROVE  Locks'
  <2>1. CASE \/ CreateWrite(x) \/ LifecycleWrite(x) \/ ReassignWrite(x)
             \/ CompleteWrite(x) \/ RescheduleWrite(x) \/ EditWrite(x)
             \/ EndWrite(x) \/ Abandon(x)
    <3>1. End(x)
      BY <2>1 DEF CreateWrite, LifecycleWrite, ReassignWrite, CompleteWrite,
                  RescheduleWrite, EditWrite, EndWrite, Abandon
    <3> QED BY <3>1, LocksReleased
  <2> QED
    BY <1>1, <2>1, CreateReadLocks, OtherReadsLocks, LifecycleLockPlanLocks,
       EndLockLocks, WaitsKeepLocks
    DEF Step
<1>2. CASE UNCHANGED vars \/ \E a \in Assignments : AssignPosition(a) \/ DeletePosition(a)
  <2>1. op' = op /\ held' = held
    BY <1>2 DEF vars, AssignPosition, DeletePosition
  <2> QED
    BY <2>1 DEF Locks, LocksAreHeld, LocksAreExplained, LocksExclude, HeldIn,
                Explains, Compatible
<1> QED BY <1>1, <1>2, NextIsSteps

\* What a request waits for is held by the one it waits for: first a plan,
\* then an assignment.
LEMMA WaitingIsFor ==
    ASSUME Shape, Locks, NEW x \in Actors, NEW y \in WaitsFor(x)
    PROVE  /\ y \in Actors /\ y # x
           /\ op[x].at \in {"plan", "share", "assignment"}
           /\ \E l \in held :
                 /\ l.by = y
                 /\ l.row = IF op[x].at = "plan" THEN op[x].plan ELSE op[x].holder
                 /\ op[x].at = "plan" => l.row \in Plans
                 /\ op[x].at # "plan" => l.row \in Assignments
<1>0. WellFormed(op[x]) /\ op[x] \in Op
  BY DEF Shape, TypeOK
<1>1. PICK l \in UNION {Obstacles(x, w.row, w.mode) : w \in Wanted(x)} : l.by = y
  BY DEF WaitsFor
<1>2. PICK w \in Wanted(x) : l \in Obstacles(x, w.row, w.mode)
  BY <1>1
<1>3. l \in held /\ l.by # x /\ l.row = w.row
  BY <1>2 DEF Obstacles
<1>4. l.by \in Actors
  BY <1>3 DEF Shape, TypeOK
<1>5. CASE op[x].at = "plan"
  <2>1. w.row = op[x].plan
    BY <1>2, <1>5 DEF Wanted
  <2>2. op[x].kind = "reassign"
    BY <1>0, <1>5 DEF WellFormed, Placed, Op, Kinds
  <2>3. op[x].plan \in Plans
    BY <1>0, <2>2 DEF WellFormed, Versioned
  <2> QED BY <1>1, <1>3, <1>4, <1>5, <2>1, <2>3
<1>6. CASE op[x].at \in {"share", "assignment"}
  <2>1. w.row = op[x].holder
    BY <1>2, <1>6 DEF Wanted
  <2>2. op[x].holder \in Assignments
    BY <1>0, <1>6 DEF WellFormed
  <2> QED BY <1>1, <1>3, <1>4, <1>6, <2>1, <2>2
<1>7. CASE op[x].at \notin {"plan", "share", "assignment"}
  <2>1. Wanted(x) = {}
    BY <1>7 DEF Wanted
  <2> QED BY <1>2, <2>1
<1> QED BY <1>5, <1>6, <1>7

\* A request that holds a plan does not wait for one.
LEMMA PlansComeFirst ==
    ASSUME Shape, Locks, NEW l \in held, l.row \in Plans
    PROVE  op[l.by].at # "plan"
<1>1. l.by \in Actors
  BY DEF Shape, TypeOK
<1>2. Explains(op[l.by], l.row) /\ WellFormed(op[l.by]) /\ op[l.by] \in Op
  BY <1>1 DEF Locks, LocksAreExplained, Shape, TypeOK
<1>3. op[l.by].holder # l.row
  <2>1. op[l.by].holder \in Assignments \cup {None}
    BY <1>2 DEF Op
  <2> QED BY <2>1, ConstantsAssumption
<1> QED BY <1>2, <1>3 DEF Explains

\* A request that holds an assignment and waits is a move, with the key share
\* of its foreign key.
LEMMA OnlyMovesWait ==
    ASSUME Shape, Locks, NEW l \in held, l.row \in Assignments,
           op[l.by].at \in {"plan", "share", "assignment"}
    PROVE  /\ op[l.by].kind = "reassign" /\ op[l.by].at = "assignment"
           /\ op[l.by].holder = l.row
<1>1. l.by \in Actors
  BY DEF Shape, TypeOK
<1>2. Explains(op[l.by], l.row) /\ WellFormed(op[l.by])
  BY <1>1 DEF Locks, LocksAreExplained, Shape
<1>3. ~ (op[l.by].kind \in Lifecycle \cup {"reassign"} /\ op[l.by].plan = l.row)
  BY <1>2, ConstantsAssumption DEF WellFormed, Versioned
<1> QED BY <1>2, <1>3 DEF Explains

LEMMA NoCycle == Shape /\ Locks => NoWaitCycle
<1> SUFFICES ASSUME Shape, Locks, NEW X \in SUBSET Actors, X # {},
                    \A x \in X : WaitsFor(x) \cap X # {}
             PROVE  \E x, y \in X :
                       /\ x # y
                       /\ op[x].kind = "reassign" /\ op[y].kind = "reassign"
                       /\ op[x].holder = op[y].holder
  BY DEF NoWaitCycle
<1>1. \A x \in X : op[x].at \in {"plan", "share", "assignment"}
  BY WaitingIsFor
\* One of them waits for an assignment.
<1>2. PICK x \in X : op[x].at # "plan"
  <2>1. PICK x \in X : TRUE
    OBVIOUS
  <2>2. CASE op[x].at = "plan"
    <3>1. PICK y \in X : y \in WaitsFor(x)
      OBVIOUS
    <3>2. PICK l \in held : l.by = y /\ l.row \in Plans
      BY <2>2, <3>1, WaitingIsFor
    <3> QED BY <3>2, PlansComeFirst
  <2> QED BY <2>1, <2>2
<1>3. PICK y \in X : y \in WaitsFor(x)
  OBVIOUS
<1>4. op[y].kind = "reassign" /\ op[y].at # "plan"
  <2>1. PICK l \in held : l.by = y /\ l.row \in Assignments
    BY <1>2, <1>3, WaitingIsFor
  <2> QED BY <1>1, <2>1, OnlyMovesWait
\* So does a move that holds it, and what that one waits for is another.
<1>5. PICK z \in X : z \in WaitsFor(y)
  OBVIOUS
<1>6. PICK m \in held : m.by = z /\ m.row = op[y].holder /\ m.row \in Assignments
  BY <1>4, <1>5, WaitingIsFor
<1>7. op[z].kind = "reassign" /\ op[z].holder = op[y].holder
  BY <1>1, <1>6, OnlyMovesWait
<1>8. y # z
  BY <1>5, WaitingIsFor
<1> QED BY <1>4, <1>7, <1>8

\* No circle of requests waits for locks, but for moves to one assignment.
THEOREM NobodyWaitsInCircles == Spec => []NoWaitCycle
<1>1. Spec => [](Shape /\ Locks)
  <2>1. Init => Shape /\ Locks
    BY InitShape, InitLocks
  <2>2. Shape /\ Locks /\ [Next]_vars => (Shape /\ Locks)'
    BY NextShape, NextLocks
  <2> QED BY <2>1, <2>2, PTL DEF Spec
<1> QED BY <1>1, NoCycle, PTL

-----------------------------------------------------------------------------
(* Knowledge.                                                              *)

\* A step that moves one request and changes no row.
LEMMA KnowledgeKept ==
    ASSUME Shape, Knowledge, NEW x \in Actors, NEW o,
           op' = [op EXCEPT ![x] = o], UNCHANGED Rows, Knows(o),
           \A y \in Actors : y # x /\ o.kind = "create" /\ op[y].kind = "create" =>
               op[y].plan # o.plan
    PROVE  Knowledge'
<1>1. \A y \in Actors : op'[y] = IF y = x THEN o ELSE op[y]
  BY DEF Shape, TypeOK
<1>2. /\ plan' = plan /\ stage' = stage /\ planned' = planned
      /\ inspected' = inspected /\ assignment' = assignment
  BY DEF Rows
<1>3. OneCreation'
  BY <1>1 DEF Knowledge, OneCreation
<1>4. \A y \in Actors : Knows(op'[y])
  BY <1>1 DEF Knowledge
<1>5. \A y \in Actors : Knows(op[y])'
  <2> SUFFICES ASSUME NEW y \in Actors
               PROVE  Knows(op[y])'
    OBVIOUS
  <2>1. StillNew(op'[y]) /\ LockedIsCurrent(op'[y])
        /\ VersionIsCurrent(op'[y]) /\ ChecksHold(op'[y])
    BY <1>4 DEF Knows
  <2>2. StillNew(op[y])'
    BY <1>2, <2>1 DEF StillNew
  <2>3. LockedIsCurrent(op[y])'
    BY <1>2, <2>1 DEF LockedIsCurrent, AllowedFrom
  <2>4. VersionIsCurrent(op[y])'
    BY <1>2, <2>1 DEF VersionIsCurrent, Completable, Ordered
  <2>5. ChecksHold(op[y])'
    BY <1>2, <2>1 DEF ChecksHold, InUse
  <2> QED BY <2>2, <2>3, <2>4, <2>5 DEF Knows
<1>6. NoneSeeded' /\ DraftsAreUntouched'
  BY <1>2 DEF Knowledge, NoneSeeded, DraftsAreUntouched
<1> QED BY <1>3, <1>5, <1>6 DEF Knowledge

\* The handlers know what they just read.
LEMMA CreateReadKnows ==
    ASSUME Shape, Knowledge, NEW x \in Actors, NEW p \in Plans, NEW i \in Pilots,
           NEW a \in Assignments \cup {None}, NEW status \in {"DRAFT", "ACTIVE"},
           CreateRead(x, p, i, a, status)
    PROVE  Knowledge'
<1> DEFINE o == [NoOp EXCEPT !.kind = "create", !.plan = p, !.pilot = i,
                             !.holder = a, !.status = status,
                             !.at = IF a = None THEN "check"
                                    ELSE "assignment"]
<1>1. o.kind = "create" /\ o.plan = p /\ o.at # "write"
  BY DEF NoOp
<1>2. op' = [op EXCEPT ![x] = o] /\ UNCHANGED Rows
  BY DEF CreateRead, Begin
<1> HIDE DEF o
<1>3. Knows(o)
  BY <1>1 DEF CreateRead, Knows, StillNew, LockedIsCurrent, VersionIsCurrent,
              ChecksHold, Lifecycle, Versioned
<1>4. \A y \in Actors : op[y].kind = "create" => op[y].plan # p
  BY DEF CreateRead
<1> QED BY <1>1, <1>2, <1>3, <1>4, KnowledgeKept

LEMMA OtherReadsKnow ==
    ASSUME Shape, Knowledge, NEW x \in Actors, NEW p \in Plans,
           \/ \E a \in Assignments : ReassignRead(x, p, a)
           \/ \E s \in Stages : CompleteRead(x, p, s)
           \/ \E s \in Stages, day \in Days : RescheduleRead(x, p, s, day)
           \/ EditRead(x, p)
    PROVE  Knowledge'
<1>0. plan[p].version \in Nat
  BY PlanFields
<1>1. ASSUME NEW a \in Assignments, ReassignRead(x, p, a)
      PROVE  Knowledge'
  <2> DEFINE o == [NoOp EXCEPT !.kind = "reassign", !.plan = p, !.holder = a,
                               !.version = plan[p].version,
                               !.status = plan[p].status, !.at = "plan"]
  <2>1. /\ o.kind = "reassign" /\ o.at = "plan" /\ o.plan = p
        /\ o.status = plan[p].status
    BY DEF NoOp
  <2>2. op' = [op EXCEPT ![x] = o] /\ UNCHANGED Rows
    BY <1>1 DEF ReassignRead, Begin
  <2> HIDE DEF o
  <2>3. Knows(o)
    BY <1>1, <2>1 DEF ReassignRead, Knows, StillNew, LockedIsCurrent,
                      VersionIsCurrent, ChecksHold, Lifecycle, Versioned
  <2> QED BY <2>1, <2>2, <2>3, KnowledgeKept
<1>2. ASSUME NEW s \in Stages, CompleteRead(x, p, s)
      PROVE  Knowledge'
  <2> DEFINE n == s < StageCount /\ stage[p][s + 1] = "NOT_STARTED"
             o == [NoOp EXCEPT !.kind = "complete", !.plan = p, !.stage = s,
                               !.version = plan[p].version, !.at = "write",
                               !.next = n]
  <2>1. /\ o.kind = "complete" /\ o.at = "write" /\ o.plan = p /\ o.stage = s
        /\ o.version = plan[p].version /\ o.next = n
    BY DEF NoOp
  <2>2. op' = [op EXCEPT ![x] = o] /\ UNCHANGED Rows
    BY <1>2 DEF CompleteRead, Begin
  <2>3. Completable(p, s) /\ plan[p].status # "ABSENT"
    BY <1>2 DEF CompleteRead, Completable
  <2>4. o.next <=> s < StageCount /\ stage[p][s + 1] = "NOT_STARTED"
    BY <2>1
  <2> HIDE DEF o, n
  <2>5. StillNew(o) /\ LockedIsCurrent(o) /\ ChecksHold(o)
    BY <2>1, <2>3
    DEF StillNew, LockedIsCurrent, ChecksHold, Lifecycle, Versioned
  <2>6. VersionIsCurrent(o)
    <3>1. o.version = plan[o.plan].version /\ Completable(o.plan, o.stage)
          /\ o.kind # "reschedule"
      BY <2>1, <2>3
    <3>2. o.version <= plan[o.plan].version
      BY <1>0, <2>1
    <3>3. o.next <=> o.stage < StageCount
                     /\ stage[o.plan][o.stage + 1] = "NOT_STARTED"
      BY <2>1, <2>4
    <3> QED BY <3>1, <3>2, <3>3, Zenon DEF VersionIsCurrent
  <2> QED BY <2>1, <2>2, <2>5, <2>6, KnowledgeKept DEF Knows
<1>3. ASSUME NEW s \in Stages, NEW day \in Days, RescheduleRead(x, p, s, day)
      PROVE  Knowledge'
  <2> DEFINE o == [NoOp EXCEPT !.kind = "reschedule", !.plan = p, !.stage = s,
                               !.day = day, !.version = plan[p].version,
                               !.at = "write"]
  <2>1. /\ o.kind = "reschedule" /\ o.at = "write" /\ o.plan = p /\ o.stage = s
        /\ o.day = day /\ o.version = plan[p].version
    BY DEF NoOp
  <2>2. op' = [op EXCEPT ![x] = o] /\ UNCHANGED Rows
    BY <1>3 DEF RescheduleRead, Begin
  <2> HIDE DEF o
  <2>3. plan[p].status # "ABSENT" /\ Ordered([planned[p] EXCEPT ![s] = day])
    BY <1>3 DEF RescheduleRead
  <2>4. StillNew(o) /\ LockedIsCurrent(o) /\ ChecksHold(o)
    BY <2>1, <2>3
    DEF StillNew, LockedIsCurrent, ChecksHold, Lifecycle, Versioned
  <2>5. VersionIsCurrent(o)
    <3>1. o.version <= plan[o.plan].version /\ o.kind # "complete"
      BY <1>0, <2>1
    <3>2. Ordered([planned[o.plan] EXCEPT ![o.stage] = o.day])
      BY <2>1, <2>3
    <3> QED BY <3>1, <3>2, Zenon DEF VersionIsCurrent
  <2> QED BY <2>1, <2>2, <2>4, <2>5, KnowledgeKept DEF Knows
<1>4. CASE EditRead(x, p)
  <2> DEFINE o == [NoOp EXCEPT !.kind = "edit", !.plan = p, !.at = "write",
                               !.version = plan[p].version,
                               !.status = plan[p].status]
  <2>1. o.kind = "edit" /\ o.at = "write" /\ o.plan = p
    BY DEF NoOp
  <2>2. op' = [op EXCEPT ![x] = o] /\ UNCHANGED Rows
    BY <1>4 DEF EditRead, Begin
  <2> HIDE DEF o
  <2>3. plan[p].status # "ABSENT"
    BY <1>4 DEF EditRead, Unfinished, Running
  <2>4. Knows(o)
    BY <2>1, <2>3 DEF Knows, StillNew, LockedIsCurrent,
                      VersionIsCurrent, ChecksHold, Lifecycle, Versioned
  <2> QED BY <2>1, <2>2, <2>4, KnowledgeKept
<1> QED BY <1>1, <1>2, <1>3, <1>4

LEMMA LifecycleLockPlanKnows ==
    ASSUME Shape, Knowledge, NEW x \in Actors, NEW p \in Plans,
           NEW action \in Lifecycle, LifecycleLockPlan(x, p, action)
    PROVE  Knowledge'
<1>1. PICK o : Begin(x, o) /\ o.kind = action /\ o.plan = p
  <2> DEFINE held_o == [NoOp EXCEPT !.kind = action, !.plan = p,
                                    !.holder = plan[p].holder,
                                    !.pilot = plan[p].pilot,
                                    !.status = "ACTIVE", !.at = "assignment"]
             free_o == [NoOp EXCEPT !.kind = action, !.plan = p, !.at = "write"]
  <2>1. CASE action \in {"start", "resume"}
    <3>1. held_o.kind = action /\ held_o.plan = p
      BY DEF NoOp
    <3>2. Begin(x, held_o)
      BY <2>1 DEF LifecycleLockPlan
    <3> HIDE DEF held_o
    <3> QED BY <3>1, <3>2
  <2>2. CASE action \in {"pause", "cancel"}
    <3>1. free_o.kind = action /\ free_o.plan = p
      BY DEF NoOp
    <3>2. Begin(x, free_o)
      BY <2>2 DEF LifecycleLockPlan
    <3> HIDE DEF free_o
    <3> QED BY <3>1, <3>2
  <2> QED BY <2>1, <2>2 DEF Lifecycle
<1>2. op' = [op EXCEPT ![x] = o] /\ UNCHANGED Rows
  BY <1>1 DEF LifecycleLockPlan, Begin
<1>3. plan[p].status \in AllowedFrom(action)
  BY DEF LifecycleLockPlan
<1>4. "ABSENT" \notin AllowedFrom(action)
  BY DEF AllowedFrom, Lifecycle, Unfinished, Running
<1>5. Knows(o)
  BY <1>1, <1>3, <1>4 DEF Knows, StillNew, LockedIsCurrent, VersionIsCurrent,
                          ChecksHold, Lifecycle, Versioned
<1> QED BY <1>1, <1>2, <1>5, KnowledgeKept DEF Lifecycle

LEMMA EndLockKnows ==
    ASSUME Shape, Knowledge, NEW x \in Actors, NEW a \in Assignments,
           EndLock(x, a)
    PROVE  Knowledge'
<1> DEFINE o == [NoOp EXCEPT !.kind = "end", !.holder = a, !.at = "check"]
<1>1. o.kind = "end" /\ o.at = "check"
  BY DEF NoOp
<1>2. op' = [op EXCEPT ![x] = o] /\ UNCHANGED Rows
  BY DEF EndLock, Begin
<1> HIDE DEF o
<1>3. Knows(o)
  BY <1>1 DEF Knows, StillNew, LockedIsCurrent, VersionIsCurrent, ChecksHold,
              Lifecycle, Versioned
<1> QED BY <1>1, <1>2, <1>3, KnowledgeKept

\* And what they read again.
LEMMA WaitsKeepKnowledge ==
    ASSUME Shape, Knowledge, NEW x \in Actors,
           \/ ReassignPlan(x) \/ ReassignShare(x) \/ LockAssignment(x)
           \/ Check(x) \/ EndCheck(x)
    PROVE  Knowledge'
<1>0. WellFormed(op[x]) /\ Knows(op[x]) /\ op[x] \in Op
  BY DEF Shape, TypeOK, Knowledge
<1>1. PICK at : Go(x, at)
  BY DEF ReassignPlan, ReassignShare, LockAssignment, Check, EndCheck
<1>2. PICK o : /\ op' = [op EXCEPT ![x] = o]
               /\ o.at = at /\ o.kind = op[x].kind
               /\ o.plan = op[x].plan /\ o.holder = op[x].holder
               /\ o = [op[x] EXCEPT !.at = at]
  BY <1>1, GoMoves
<1>3. /\ o.status = op[x].status /\ o.version = op[x].version
      /\ o.stage = op[x].stage /\ o.day = op[x].day /\ o.next = op[x].next
  BY <1>0, <1>2 DEF Op
<1>4. UNCHANGED Rows
  BY DEF ReassignPlan, ReassignShare, LockAssignment, Check, EndCheck
<1>5. op'[x] = o
  BY <1>2 DEF Shape, TypeOK
<1>6. StillNew(o) /\ VersionIsCurrent(o)
  BY <1>0, <1>2, <1>3 DEF Knows, StillNew, VersionIsCurrent
<1>7. LockedIsCurrent(o)
  <2>1. CASE ReassignPlan(x)
    BY <1>0, <1>2, <1>3, <2>1
    DEF Knows, LockedIsCurrent, ReassignPlan, At, Lifecycle
  <2>2. CASE ~ ReassignPlan(x)
    <3>1. op[x].kind = "reassign" => op[x].at # "plan"
      BY <2>2 DEF ReassignShare, LockAssignment, Check, EndCheck, At
    <3> QED BY <1>0, <1>2, <1>3, <3>1 DEF Knows, LockedIsCurrent
  <2> QED BY <2>1, <2>2
<1>8. ChecksHold(o)
  <2>1. CASE Check(x) /\ op[x].kind = "create" /\ op[x].holder # None
    <3>1. assignment[op[x].holder] = "ACTIVE"
      BY <2>1 DEF Check, Eligible
    <3> QED BY <1>2, <2>1, <3>1 DEF ChecksHold
  <2>2. CASE EndCheck(x)
    <3>1. ~ InUse(op[x].holder) /\ op[x].kind = "end"
      BY <2>2 DEF EndCheck, At
    <3> QED BY <1>2, <3>1 DEF ChecksHold
  <2>3. CASE ReassignPlan(x) \/ ReassignShare(x) \/ LockAssignment(x)
    <3>1. op'[x].at # "write"
      BY <1>0, <2>3 DEF ReassignPlan, ReassignShare, LockAssignment, Go, Shape,
                        TypeOK, Op
    <3> QED BY <1>5, <3>1 DEF ChecksHold
  <2>4. CASE Check(x) /\ (op[x].kind # "create" \/ op[x].holder = None)
    <3>1. op[x].kind \in {"create", "start", "resume"}
      BY <2>4 DEF Check, At
    <3> QED BY <1>2, <2>4, <3>1 DEF ChecksHold
  <2> QED BY <2>1, <2>2, <2>3, <2>4
<1>9. \A y \in Actors : y # x /\ o.kind = "create" /\ op[y].kind = "create" =>
          op[y].plan # o.plan
  BY <1>2 DEF Knowledge, OneCreation
<1> QED BY <1>2, <1>4, <1>6, <1>7, <1>8, <1>9, KnowledgeKept DEF Knows

\* Initially nothing is known.
LEMMA InitKnowledge == Init => Knowledge
<1> SUFFICES ASSUME Init
             PROVE  Knowledge
  OBVIOUS
<1>1. \A x \in Actors : op[x] = NoOp
  BY DEF Init
<1>2. Knows(NoOp)
  BY DEF NoOp, Knows, StillNew, LockedIsCurrent, VersionIsCurrent, ChecksHold,
         Lifecycle, Versioned
<1>3. \A x \in Actors : Knows(op[x])
  BY <1>1, <1>2
<1>4. OneCreation
  BY <1>1 DEF OneCreation, NoOp
<1>5. NoneSeeded /\ DraftsAreUntouched
  BY DEF Init, NoneSeeded, DraftsAreUntouched, Absent
<1> QED BY <1>3, <1>4, <1>5 DEF Knowledge

\* The request of x has the plan p to itself.
Alone(x, p) ==
    \A y \in Actors :
        /\ y # x
        /\ \/ op[y].kind \in Lifecycle
           \/ op[y].kind = "reassign" /\ op[y].at # "plan"
        => op[y].plan # p

LEMMA WritesAlone ==
    ASSUME Shape, Locks, Knowledge, NEW x \in Actors,
           \/ op[x].kind \in Lifecycle \cup {"create"}
           \/ op[x].kind = "reassign" /\ op[x].at # "plan"
           \/ Obstacles(x, op[x].plan, "update") = {}
    PROVE  Alone(x, op[x].plan)
<1> SUFFICES ASSUME NEW y \in Actors, y # x, op[y].plan = op[x].plan,
                    \/ op[y].kind \in Lifecycle
                    \/ op[y].kind = "reassign" /\ op[y].at # "plan"
             PROVE  FALSE
  BY DEF Alone
<1> DEFINE p == op[x].plan
<1>1. PICK m \in {"for_update", "update"} :
          [by |-> y, row |-> p, mode |-> m] \in held
  BY DEF Locks, LocksAreHeld, HeldIn
<1> HIDE DEF p
<1>2. ~ Compatible(m, "update") /\ ~ Compatible(m, "for_update")
  BY LockModes
<1>3. CASE \/ op[x].kind \in Lifecycle
           \/ op[x].kind = "reassign" /\ op[x].at # "plan"
  <2>1. PICK n \in {"for_update", "update"} :
            [by |-> x, row |-> p, mode |-> n] \in held
    BY <1>3 DEF Locks, LocksAreHeld, HeldIn, p
  <2>2. Compatible(m, n)
    BY <1>1, <2>1 DEF Locks, LocksExclude
  <2> QED BY <1>2, <2>1, <2>2
<1>4. CASE op[x].kind = "create"
  <2>1. plan[op[x].plan].status = "ABSENT" /\ plan[op[y].plan].status # "ABSENT"
    BY <1>4 DEF Knowledge, Knows, StillNew, Versioned
  <2> QED BY <2>1
<1>5. CASE Obstacles(x, op[x].plan, "update") = {}
  BY <1>1, <1>2, <1>5 DEF Obstacles, p
<1> QED BY <1>3, <1>4, <1>5

\* The request of x writes the plan p, alone, and its transaction ends.
Writes(x, p) ==
    /\ p \in Plans /\ op[x].plan = p
    /\ op[x].kind \in Lifecycle \cup Versioned \cup {"create"}
    /\ Alone(x, p) /\ End(x)
    /\ \A q \in Plans : q # p => /\ plan'[q] = plan[q]
                                 /\ stage'[q] = stage[q]
                                 /\ planned'[q] = planned[q]
                                 /\ inspected'[q] = inspected[q]
    /\ assignment' = assignment

\* A request that writes its plan leaves the others what they know: what was
\* read of the plan without a lock has an older version now.
LEMMA OthersKnow ==
    ASSUME Shape, Locks, Knowledge, NEW x \in Actors, NEW p \in Plans,
           Writes(x, p),
           plan'[p].status # "ABSENT",
           op[x].kind = "create" \/ plan'[p].version = plan[p].version + 1,
           plan'[p].status \in Unfinished =>
               \/ plan[p].status \in Unfinished /\ plan'[p].holder = plan[p].holder
               \/ /\ plan'[p].holder = op[x].holder
                  /\ op[x].kind \in {"create", "reassign"}
                  /\ op[x].at \in {"check", "write"}
    PROVE  OneCreation' /\ \A y \in Actors : Knows(op[y])'
<1>1. \A y \in Actors : op'[y] = IF y = x THEN NoOp ELSE op[y]
  BY DEF Shape, TypeOK, End, Writes
<1>2. OneCreation'
  BY <1>1 DEF Knowledge, OneCreation, NoOp
<1>0. /\ op[x].plan = p /\ Alone(x, p) /\ assignment' = assignment
      /\ op[x].kind \in Lifecycle \cup Versioned \cup {"create"}
      /\ \A q \in Plans : q # p =>
             plan'[q] = plan[q] /\ stage'[q] = stage[q] /\ planned'[q] = planned[q]
  BY DEF Writes
<1>3. ASSUME NEW y \in Actors
      PROVE  Knows(op[y])'
  <2>1. CASE y = x
    BY <1>1, <2>1 DEF NoOp, Knows, StillNew, LockedIsCurrent, VersionIsCurrent,
                      ChecksHold, Lifecycle, Versioned
  <2>2. CASE y # x
    <3>1. op'[y] = op[y] /\ Knows(op[y]) /\ WellFormed(op[y]) /\ op[y] \in Op
      BY <1>1, <2>2 DEF Knowledge, Shape, TypeOK
    <3>2. op[y].kind = "create" => op[y].plan # p
      BY <1>0, <2>2, <3>1 DEF Knowledge, OneCreation, Knows, StillNew
    <3>3. op[y].kind \in Lifecycle \cup Versioned =>
              op[x].kind # "create" \/ op[y].plan # p
      BY <1>0, <3>1 DEF Knowledge, Knows, StillNew
    <3>4. StillNew(op[y])'
      BY <1>0, <3>1, <3>2 DEF Knows, StillNew, WellFormed
    <3>5. LockedIsCurrent(op[y])'
      <4>1. LockedIsCurrent(op[y])
        BY <3>1 DEF Knows
      <4>2. (op[y].kind \in Lifecycle)
            \/ (op[y].kind = "reassign" /\ op[y].at # "plan") =>
                plan'[op[y].plan] = plan[op[y].plan]
        BY <1>0, <2>2, <3>1 DEF Alone, WellFormed, Versioned
      <4>3. op[y].kind \in Lifecycle =>
                plan'[op[y].plan].status \in AllowedFrom(op[y].kind)
        BY <4>1, <4>2 DEF LockedIsCurrent
      <4>4. op[y].kind = "reassign" => op[y].status \in {"DRAFT", "NOT_STARTED"}
        BY <4>1 DEF LockedIsCurrent
      <4>5. op[y].kind = "reassign" /\ op[y].at # "plan" =>
                plan'[op[y].plan].status = op[y].status
        BY <4>1, <4>2 DEF LockedIsCurrent
      <4> QED BY <3>1, <4>3, <4>4, <4>5 DEF LockedIsCurrent, AllowedFrom
    <3>6. VersionIsCurrent(op[y])'
      <4> SUFFICES ASSUME op[y].kind \in {"complete", "reschedule"}
                   PROVE  VersionIsCurrent(op[y])'
        BY <3>1 DEF VersionIsCurrent
      <4>1. VersionIsCurrent(op[y]) /\ op[y].plan \in Plans
        BY <3>1 DEF Knows, WellFormed, Versioned
      <4>2. CASE op[y].plan = p
        <5>1. plan'[p].version = plan[p].version + 1
          BY <3>3, <4>2 DEF Versioned
        <5>2. op[y].version <= plan[p].version
          BY <4>1, <4>2 DEF VersionIsCurrent
        <5>3. op[y].version < plan'[p].version /\ op[y].version \in Nat
          BY <3>1, <5>1, <5>2, PlanFields DEF Op
        <5>4. plan'[p].version \in Nat
          BY <5>1, PlanFields
        <5>5. op[y].version # plan'[p].version /\ op[y].version <= plan'[p].version
          BY <5>3, <5>4
        <5> QED BY <3>1, <4>2, <5>5 DEF VersionIsCurrent
      <4>3. CASE op[y].plan # p
        <5>1. /\ plan'[op[y].plan] = plan[op[y].plan]
              /\ stage'[op[y].plan] = stage[op[y].plan]
              /\ planned'[op[y].plan] = planned[op[y].plan]
          BY <1>0, <4>1, <4>3
        <5> QED BY <3>1, <4>1, <5>1 DEF VersionIsCurrent, Completable, Ordered
      <4> QED BY <4>2, <4>3
    <3>7. ChecksHold(op[y])'
      <4>1. CASE op[y].kind # "end"
        BY <1>0, <3>1, <4>1 DEF Knows, ChecksHold
      <4>2. CASE op[y].kind = "end" /\ op[y].at = "write"
        <5> DEFINE h == op[y].holder
        <5>1. h \in Assignments /\ ~ InUse(h)
          BY <1>0, <3>1, <4>2 DEF Knows, ChecksHold, WellFormed
        <5>2. [by |-> y, row |-> h, mode |-> "for_update"] \in held
          BY <4>2, <5>1, Constants DEF Locks, LocksAreHeld, HeldIn
        <5>3. ASSUME op[x].kind \in {"create", "reassign"},
                     op[x].at \in {"check", "write"}, op[x].holder = h
              PROVE  FALSE
          <6>1. [by |-> x, row |-> h, mode |-> "for_update"] \in held
            BY <5>1, <5>3, Constants DEF Locks, LocksAreHeld, HeldIn
          <6>2. Compatible("for_update", "for_update")
            BY <2>2, <5>2, <6>1 DEF Locks, LocksExclude
          <6> QED BY <6>2, LockModes
        <5>4. ASSUME NEW q \in Plans, plan'[q].holder = h,
                     plan'[q].status \in Unfinished
              PROVE  FALSE
          <6>1. CASE q # p
            BY <1>0, <5>1, <5>4, <6>1 DEF InUse
          <6>2. CASE q = p
            BY <1>0, <5>1, <5>3, <5>4, <6>2 DEF InUse
          <6> QED BY <6>1, <6>2
        <5> QED BY <3>1, <4>2, <5>4 DEF ChecksHold, InUse
      <4>3. CASE op[y].at # "write"
        BY <3>1, <4>3 DEF ChecksHold
      <4> QED BY <4>1, <4>2, <4>3
    <3> QED BY <3>4, <3>5, <3>6, <3>7 DEF Knows
  <2> QED BY <2>1, <2>2
<1> QED BY <1>2, <1>3

-----------------------------------------------------------------------------
(* The plans.                                                              *)

Safe == PlansHoldAssignments /\ OneRunningPlan /\ StagesInOrder /\ DatesInOrder

\* StagesInOrder, of one plan.
PlanInOrder(p) ==
    /\ \A s, t \in Stages :
           s < t /\ stage[p][t] # "NOT_STARTED" => stage[p][s] = "COMPLETED"
    /\ plan[p].status \in {"ACTIVE", "PAUSED"} =>
           \E s \in Stages : stage[p][s] = "SCHEDULED"
    /\ plan[p].status = "COMPLETED" <=> stage[p][StageCount] = "COMPLETED"
    /\ \A s \in inspected[p] : stage[p][s] = "COMPLETED"

\* A write that keeps its own plan safe keeps all of them safe.
LEMMA OthersAreSafe ==
    ASSUME Safe, NEW x \in Actors, NEW p \in Plans, Writes(x, p),
           plan'[p].status \in Unfinished /\ plan'[p].holder # None =>
               assignment[plan'[p].holder] \in {"ACTIVE", "DELETED"},
           plan'[p].status \in Running =>
               \/ plan[p].status \in Running /\ plan'[p].pilot = plan[p].pilot
               \/ ~ Conflict(p, plan'[p].pilot),
           PlanInOrder(p)', Ordered(planned'[p])
    PROVE  Safe'
<1>1. \A q \in Plans : q # p => /\ plan'[q] = plan[q] /\ stage'[q] = stage[q]
                                /\ planned'[q] = planned[q]
                                /\ inspected'[q] = inspected[q]
  BY DEF Writes
<1>2. assignment' = assignment
  BY DEF Writes
<1>3. PlansHoldAssignments'
  BY <1>1, <1>2 DEF Safe, PlansHoldAssignments
<1>4. OneRunningPlan'
  <2>1. ASSUME NEW q \in Plans, q # p, plan[q].status \in Running,
               plan'[p].status \in Running
        PROVE  plan[q].pilot # plan'[p].pilot
    BY <2>1 DEF Safe, OneRunningPlan, Conflict
  <2> QED BY <1>1, <2>1 DEF Safe, OneRunningPlan
<1>5. StagesInOrder'
  <2>1. \A q \in Plans : q # p => PlanInOrder(q)'
    BY <1>1 DEF Safe, StagesInOrder, PlanInOrder
  <2>2. \A q \in Plans : PlanInOrder(q)'
    BY <2>1
  <2> QED BY <2>2 DEF StagesInOrder, PlanInOrder
<1>6. DatesInOrder'
  <2>1. \A q \in Plans : Ordered(planned'[q])
    BY <1>1 DEF Safe, DatesInOrder
  <2> QED BY <2>1 DEF DatesInOrder, Ordered
<1> QED BY <1>3, <1>4, <1>5, <1>6 DEF Safe

\* A plan that keeps its status and its stages keeps their order.
LEMMA KeepsOrder ==
    ASSUME Safe, NEW p \in Plans, plan'[p].status = plan[p].status,
           stage'[p] = stage[p], inspected'[p] \subseteq inspected[p]
    PROVE  PlanInOrder(p)'
BY DEF Safe, StagesInOrder, PlanInOrder

Rest == Knowledge /\ Safe

LEMMA CreateWriteSafe ==
    ASSUME Shape, Locks, Rest, NEW x \in Actors, CreateWrite(x)
    PROVE  Rest'
<1>0. op[x].kind = "create" /\ op[x].at = "write"
  BY DEF CreateWrite, At
<1>p. PICK p \in Plans : p = op[x].plan
  BY <1>0 DEF Shape, WellFormed
<1>1. op[x].status \in {"DRAFT", "ACTIVE"}
  BY <1>0 DEF Shape, WellFormed
<1>2. plan[p].status = "ABSENT"
      /\ (op[x].holder # None => assignment[op[x].holder] \in {"ACTIVE", "DELETED"})
  BY <1>0, <1>p DEF Rest, Knowledge, Knows, StillNew, ChecksHold
<1>3. plan'[p] = [status |-> op[x].status, pilot |-> op[x].pilot,
                  holder |-> op[x].holder, version |-> 1]
  BY <1>p DEF CreateWrite, Shape, TypeOK
<1>4. Alone(x, p)
  BY <1>0, <1>p, WritesAlone DEF Rest
<1>5. Writes(x, p)
  <2>1. \A q \in Plans : q # p =>
            plan'[q] = plan[q] /\ stage'[q] = stage[q] /\ planned'[q] = planned[q]
    BY <1>p DEF CreateWrite, Shape, TypeOK
  <2> QED BY <1>0, <1>p, <1>4, <2>1 DEF Writes, CreateWrite
<1>6. /\ inspected'[p] = {}
      /\ IF op[x].status = "ACTIVE"
         THEN /\ stage'[p][1] = "SCHEDULED"
              /\ \A s \in Stages \ {1} : stage'[p][s] = "NOT_STARTED"
         ELSE \A s \in Stages : stage'[p][s] = "NOT_STARTED"
  <2>1. inspected[p] = {} /\ \A s \in Stages : stage[p][s] = "NOT_STARTED"
    BY <1>2 DEF Rest, Knowledge, DraftsAreUntouched
  <2> QED BY <1>p, <2>1, Constants DEF CreateWrite, Shape, TypeOK
<1>7. Ordered(planned'[p])
  BY <1>p, Constants DEF CreateWrite, Shape, TypeOK
<1>8. PlanInOrder(p)'
  <2>1. \A s, t \in Stages :
            s < t /\ stage'[p][t] # "NOT_STARTED" => stage'[p][s] = "COMPLETED"
    BY <1>6 DEF Stages
  <2>2. plan'[p].status \in {"ACTIVE", "PAUSED"} =>
            \E s \in Stages : stage'[p][s] = "SCHEDULED"
    BY <1>1, <1>3, <1>6, Constants
  <2>3. plan'[p].status # "COMPLETED" /\ stage'[p][StageCount] # "COMPLETED"
    BY <1>1, <1>3, <1>6, Constants
  <2> QED BY <1>6, <2>1, <2>2, <2>3 DEF PlanInOrder
<1>9. Safe'
  <2>1. plan'[p].status \in Running => ~ Conflict(p, plan'[p].pilot)
    BY <1>3, <1>p DEF CreateWrite, IndexAdmits
  <2> QED BY <1>2, <1>3, <1>5, <1>7, <1>8, <2>1, OthersAreSafe DEF Rest
<1>10. OneCreation' /\ \A y \in Actors : Knows(op[y])'
  BY <1>0, <1>1, <1>3, <1>5, OthersKnow DEF Rest
<1>11. NoneSeeded'
  BY <1>1, <1>3, <1>5 DEF Rest, Knowledge, NoneSeeded, Writes
<1>12. DraftsAreUntouched'
  BY <1>1, <1>3, <1>5, <1>6 DEF Rest, Knowledge, DraftsAreUntouched, Writes
<1> QED BY <1>9, <1>10, <1>11, <1>12 DEF Rest, Knowledge

\* What the writes of a plan that exists have in common.
LEMMA WritesExisting ==
    ASSUME Shape, Locks, Knowledge, NEW x \in Actors, NEW p \in Plans,
           \/ LifecycleWrite(x) \/ ReassignWrite(x) \/ CompleteWrite(x)
           \/ RescheduleWrite(x) \/ EditWrite(x),
           p = op[x].plan
    PROVE  /\ Writes(x, p) /\ plan[p].status # "ABSENT"
           /\ plan'[p].version = plan[p].version + 1
<1>1. op[x].kind \in Lifecycle \cup Versioned
  BY DEF LifecycleWrite, ReassignWrite, CompleteWrite, RescheduleWrite,
         EditWrite, At, Lifecycle, Versioned
<1>2. plan[p].status # "ABSENT"
  BY <1>1 DEF Knowledge, Knows, StillNew
<1>3. Alone(x, p)
  <2>1. CASE LifecycleWrite(x) \/ ReassignWrite(x)
    BY <2>1, WritesAlone DEF LifecycleWrite, ReassignWrite, At, Lifecycle
  <2>2. CASE CompleteWrite(x) \/ RescheduleWrite(x) \/ EditWrite(x)
    BY <2>2, WritesAlone DEF CompleteWrite, RescheduleWrite, EditWrite, Guarded
  <2> QED BY <2>1, <2>2
<1>4. \A q \in Plans : q # p => /\ plan'[q] = plan[q] /\ stage'[q] = stage[q]
                                /\ planned'[q] = planned[q]
                                /\ inspected'[q] = inspected[q]
  BY DEF LifecycleWrite, ReassignWrite, CompleteWrite, RescheduleWrite,
         EditWrite, Shape, TypeOK
<1>5. assignment' = assignment /\ End(x)
  BY DEF LifecycleWrite, ReassignWrite, CompleteWrite, RescheduleWrite,
         EditWrite
<1>6. plan'[p].version = plan[p].version + 1
  <2>1. Bumped(p) = [status |-> plan[p].status, pilot |-> plan[p].pilot,
                     holder |-> plan[p].holder, version |-> plan[p].version + 1]
    BY BumpedShape
  <2> DEFINE bumped == Bumped(p)
  <2>2. /\ \A s : [bumped EXCEPT !.status = s].version = plan[p].version + 1
        /\ \A h, i : [bumped EXCEPT !.holder = h, !.pilot = i].version
                      = plan[p].version + 1
    BY <2>1
  <2>3. \E row : plan' = [plan EXCEPT ![p] = row] /\ row.version = plan[p].version + 1
    <3>1. CASE LifecycleWrite(x)
      BY <2>2, <3>1 DEF LifecycleWrite
    <3>2. CASE ReassignWrite(x)
      BY <2>2, <3>2 DEF ReassignWrite
    <3>3. CASE CompleteWrite(x)
      BY <2>2, <3>3 DEF CompleteWrite
    <3>4. CASE RescheduleWrite(x) \/ EditWrite(x)
      BY <2>1, <3>4 DEF RescheduleWrite, EditWrite
    <3> QED BY <3>1, <3>2, <3>3, <3>4
  <2> QED BY <2>3 DEF Shape, TypeOK
<1> QED BY <1>1, <1>2, <1>3, <1>4, <1>5, <1>6 DEF Writes

\* A write that is safe for its own plan, and leaves a draft untouched, keeps
\* the rest of the invariant.
LEMMA WriteIsSafe ==
    ASSUME Shape, Locks, Rest, NEW x \in Actors, NEW p \in Plans,
           op[x].kind \in Lifecycle \cup Versioned,
           Writes(x, p), plan'[p].version = plan[p].version + 1,
           plan'[p].status \notin {"ABSENT", "NOT_STARTED"},
           plan'[p].status = "DRAFT" =>
               inspected'[p] = {} /\ \A s \in Stages : stage'[p][s] = "NOT_STARTED",
           plan'[p].status \in Unfinished =>
               \/ plan[p].status \in Unfinished /\ plan'[p].holder = plan[p].holder
               \/ /\ plan'[p].holder = op[x].holder
                  /\ op[x].kind = "reassign" /\ op[x].at = "check"
                  /\ assignment[plan'[p].holder] = "ACTIVE",
           plan'[p].status \in Running =>
               \/ plan[p].status \in Running /\ plan'[p].pilot = plan[p].pilot
               \/ ~ Conflict(p, plan'[p].pilot),
           PlanInOrder(p)', Ordered(planned'[p])
    PROVE  Rest'
<1>1. OneCreation' /\ \A y \in Actors : Knows(op[y])'
  BY OthersKnow DEF Rest
<1>2. Safe'
  <2>1. plan'[p].status \in Unfinished /\ plan'[p].holder # None =>
            assignment[plan'[p].holder] \in {"ACTIVE", "DELETED"}
    BY DEF Rest, Safe, PlansHoldAssignments
  <2> QED BY <2>1, OthersAreSafe DEF Rest
<1>3. NoneSeeded'
  BY DEF Rest, Knowledge, NoneSeeded, Writes
<1>4. DraftsAreUntouched'
  BY DEF Rest, Knowledge, DraftsAreUntouched, Writes
<1> QED BY <1>1, <1>2, <1>3, <1>4 DEF Rest, Knowledge

LEMMA LifecycleWriteSafe ==
    ASSUME Shape, Locks, Rest, NEW x \in Actors, LifecycleWrite(x)
    PROVE  Rest'
<1>1. op[x].kind \in Lifecycle
  BY DEF LifecycleWrite, At, Lifecycle
<1>2. PICK p \in Plans : p = op[x].plan
  BY <1>1 DEF Shape, WellFormed
<1> DEFINE new == Becomes(op[x].kind)
<1>3. Writes(x, p) /\ plan'[p].version = plan[p].version + 1
  BY <1>2, WritesExisting DEF Rest
<1>4. plan'[p] = [status |-> new, pilot |-> plan[p].pilot,
                  holder |-> plan[p].holder, version |-> plan[p].version + 1]
  <2>1. plan'[p] = [Bumped(p) EXCEPT !.status = new]
    BY <1>2 DEF LifecycleWrite, Shape, TypeOK
  <2> HIDE DEF new
  <2> QED BY <2>1, BumpedShape
<1>5. plan[p].status \in AllowedFrom(op[x].kind)
  BY <1>1, <1>2 DEF Rest, Knowledge, Knows, LockedIsCurrent
<1>6. plan[p].status \in Unfinished /\ plan[p].status # "NOT_STARTED"
  BY <1>1, <1>5 DEF AllowedFrom, Lifecycle, Unfinished, Running, Rest,
                    Knowledge, NoneSeeded
<1>7. new \in {"ACTIVE", "PAUSED", "CANCELLED"}
  BY <1>1 DEF Becomes, Lifecycle
<1>8. plan'[p].status \in Running => ~ Conflict(p, plan'[p].pilot)
  BY <1>2, <1>4 DEF LifecycleWrite, IndexAdmits
<1>9. planned'[p] = planned[p] /\ inspected'[p] = inspected[p]
  BY DEF LifecycleWrite
<1>10. PlanInOrder(p)'
  <2>0. PlanInOrder(p) /\ plan[p].status # "COMPLETED"
    BY <1>6 DEF Rest, Safe, StagesInOrder, PlanInOrder, Unfinished, Running
  <2>1. CASE op[x].kind = "start"
    <3>1. plan[p].status = "DRAFT"
      BY <1>5, <1>6, <2>1 DEF AllowedFrom
    <3>2. inspected[p] = {} /\ \A s \in Stages : stage[p][s] = "NOT_STARTED"
      BY <3>1 DEF Rest, Knowledge, DraftsAreUntouched
    <3>3. /\ stage'[p][1] = "SCHEDULED"
          /\ \A s \in Stages \ {1} : stage'[p][s] = "NOT_STARTED"
      BY <1>2, <2>1, <3>2, Constants DEF LifecycleWrite, Shape, TypeOK
    <3>4. \A s, t \in Stages :
              s < t /\ stage'[p][t] # "NOT_STARTED" => stage'[p][s] = "COMPLETED"
      BY <3>3 DEF Stages
    <3>5. stage'[p][StageCount] # "COMPLETED" /\ plan'[p].status # "COMPLETED"
      BY <1>4, <1>7, <3>3, Constants
    <3> QED BY <1>9, <3>2, <3>3, <3>4, <3>5, Constants DEF PlanInOrder
  <2>2. CASE op[x].kind # "start"
    <3>1. stage'[p] = stage[p]
      BY <2>2 DEF LifecycleWrite
    <3>2. plan'[p].status \in {"ACTIVE", "PAUSED"} =>
              plan[p].status \in {"ACTIVE", "PAUSED"}
      BY <1>1, <1>4, <1>5, <2>2 DEF AllowedFrom, Becomes, Lifecycle
    <3>3. plan'[p].status # "COMPLETED"
      BY <1>4, <1>7
    <3> QED BY <1>9, <2>0, <3>1, <3>2, <3>3 DEF PlanInOrder
  <2> QED BY <2>1, <2>2
<1>11. Ordered(planned'[p])
  BY <1>9 DEF Rest, Safe, DatesInOrder
<1>12. plan'[p].status \notin {"ABSENT", "NOT_STARTED", "DRAFT"}
       /\ plan'[p].holder = plan[p].holder
  BY <1>4, <1>7
<1> QED BY <1>1, <1>3, <1>6, <1>8, <1>10, <1>11, <1>12, WriteIsSafe

LEMMA ReassignWriteSafe ==
    ASSUME Shape, Locks, Rest, NEW x \in Actors, ReassignWrite(x)
    PROVE  Rest'
<1>1. op[x].kind = "reassign" /\ op[x].at = "check" /\ op[x].kind \in Versioned
  BY DEF ReassignWrite, At, Versioned
<1>2. PICK p \in Plans : p = op[x].plan
  BY <1>1 DEF Shape, WellFormed
<1>3. Writes(x, p) /\ plan'[p].version = plan[p].version + 1
  BY <1>2, WritesExisting DEF Rest
<1>4. plan'[p].status = plan[p].status /\ plan'[p].holder = op[x].holder
  <2>1. plan'[p] = [Bumped(p) EXCEPT !.holder = op[x].holder,
                                     !.pilot = PilotOf[op[x].holder]]
    BY <1>2 DEF ReassignWrite, Shape, TypeOK
  <2> QED BY <2>1, BumpedShape
<1>5. plan[p].status = "DRAFT"
  BY <1>1, <1>2 DEF Rest, Knowledge, Knows, LockedIsCurrent, NoneSeeded
<1>6. assignment[op[x].holder] = "ACTIVE"
  BY <1>1, Constants DEF ReassignWrite, Eligible, Shape, WellFormed
<1>7. stage'[p] = stage[p] /\ planned'[p] = planned[p] /\ inspected'[p] = inspected[p]
  BY DEF ReassignWrite
<1>8. inspected'[p] = {} /\ \A s \in Stages : stage'[p][s] = "NOT_STARTED"
  BY <1>5, <1>7 DEF Rest, Knowledge, DraftsAreUntouched
<1>9. PlanInOrder(p)' /\ Ordered(planned'[p])
  BY <1>4, <1>7, KeepsOrder DEF Rest, Safe, DatesInOrder
<1>10. plan'[p].status = "DRAFT" /\ "DRAFT" \notin Running
       /\ plan'[p].holder = op[x].holder
  BY <1>4, <1>5 DEF Running
<1> QED BY <1>1, <1>3, <1>6, <1>8, <1>9, <1>10, WriteIsSafe

LEMMA RescheduleWriteSafe ==
    ASSUME Shape, Locks, Rest, NEW x \in Actors, RescheduleWrite(x)
    PROVE  Rest'
<1>1. op[x].kind = "reschedule" /\ op[x].kind \in Versioned
  BY DEF RescheduleWrite, At, Versioned
<1>2. PICK p \in Plans : p = op[x].plan
  BY <1>1 DEF Shape, WellFormed
<1>3. Writes(x, p) /\ plan[p].status # "ABSENT"
      /\ plan'[p].version = plan[p].version + 1
  BY <1>2, WritesExisting DEF Rest
<1>4. plan'[p] = [status |-> plan[p].status, pilot |-> plan[p].pilot,
                  holder |-> plan[p].holder, version |-> plan[p].version + 1]
  BY <1>2, BumpedShape DEF RescheduleWrite, Shape, TypeOK
<1>5. Ordered(planned'[p])
  <2>1. op[x].version = plan[p].version
    BY <1>2 DEF RescheduleWrite, Guarded, Current
  <2>2. Ordered([planned[p] EXCEPT ![op[x].stage] = op[x].day])
    BY <1>1, <1>2, <2>1 DEF Rest, Knowledge, Knows, VersionIsCurrent
  <2>3. planned'[p] = [planned[p] EXCEPT ![op[x].stage] = op[x].day]
    BY <1>2 DEF RescheduleWrite, Shape, TypeOK
  <2> QED BY <2>2, <2>3
<1>6. stage'[p] = stage[p] /\ inspected'[p] = inspected[p]
  BY DEF RescheduleWrite
<1>7. plan[p].status = "DRAFT" =>
          inspected'[p] = {} /\ \A s \in Stages : stage'[p][s] = "NOT_STARTED"
  BY <1>6 DEF Rest, Knowledge, DraftsAreUntouched
<1>8. PlanInOrder(p)'
  BY <1>4, <1>6, KeepsOrder DEF Rest
<1>9. /\ plan'[p].status = plan[p].status /\ plan'[p].holder = plan[p].holder
      /\ plan'[p].pilot = plan[p].pilot /\ plan[p].status # "NOT_STARTED"
  BY <1>4 DEF Rest, Knowledge, NoneSeeded
<1> QED BY <1>1, <1>3, <1>5, <1>7, <1>8, <1>9, WriteIsSafe

LEMMA EditWriteSafe ==
    ASSUME Shape, Locks, Rest, NEW x \in Actors, EditWrite(x)
    PROVE  Rest'
<1>1. op[x].kind = "edit" /\ op[x].kind \in Versioned
  BY DEF EditWrite, At, Versioned
<1>2. PICK p \in Plans : p = op[x].plan
  BY <1>1 DEF Shape, WellFormed
<1>3. Writes(x, p) /\ plan[p].status # "ABSENT"
      /\ plan'[p].version = plan[p].version + 1
  BY <1>2, WritesExisting DEF Rest
<1>4. plan'[p] = [status |-> plan[p].status, pilot |-> plan[p].pilot,
                  holder |-> plan[p].holder, version |-> plan[p].version + 1]
  BY <1>2, BumpedShape DEF EditWrite, Shape, TypeOK
<1>5. Ordered(planned'[p])
  BY <1>2, Constants DEF EditWrite, Rest, Safe, DatesInOrder, Shape, TypeOK
<1>6. stage'[p] = stage[p] /\ inspected'[p] \subseteq inspected[p]
  BY <1>2 DEF EditWrite, Shape, TypeOK
<1>7. plan[p].status = "DRAFT" =>
          inspected'[p] = {} /\ \A s \in Stages : stage'[p][s] = "NOT_STARTED"
  BY <1>6 DEF Rest, Knowledge, DraftsAreUntouched
<1>8. PlanInOrder(p)'
  BY <1>4, <1>6, KeepsOrder DEF Rest
<1>9. /\ plan'[p].status = plan[p].status /\ plan'[p].holder = plan[p].holder
      /\ plan'[p].pilot = plan[p].pilot /\ plan[p].status # "NOT_STARTED"
  BY <1>4 DEF Rest, Knowledge, NoneSeeded
<1> QED BY <1>1, <1>3, <1>5, <1>7, <1>8, <1>9, WriteIsSafe

\* The stage that is completed is the one the plan is at, as long as nobody
\* wrote the plan since it was read.
LEMMA CompleteWriteSafe ==
    ASSUME Shape, Locks, Rest, NEW x \in Actors, CompleteWrite(x)
    PROVE  Rest'
<1>1. op[x].kind = "complete" /\ op[x].kind \in Versioned
  BY DEF CompleteWrite, At, Versioned
<1>2. PICK p \in Plans, n \in Stages : p = op[x].plan /\ n = op[x].stage
  BY <1>1 DEF Shape, WellFormed, Versioned
<1>3. Writes(x, p) /\ plan'[p].version = plan[p].version + 1
  BY <1>2, WritesExisting DEF Rest
<1>4. op[x].version = plan[p].version
  BY <1>2 DEF CompleteWrite, Guarded, Current
<1>5. VersionIsCurrent(op[x])
  BY DEF Rest, Knowledge, Knows
<1>6. Completable(p, n)
  BY <1>1, <1>2, <1>4, <1>5 DEF VersionIsCurrent
<1>7. op[x].next <=> n < StageCount /\ stage[p][n + 1] = "NOT_STARTED"
  BY <1>1, <1>2, <1>4, <1>5 DEF VersionIsCurrent
<1>8. /\ plan[p].status = "ACTIVE" /\ stage[p][n] = "SCHEDULED"
      /\ \A s \in Stages : s < n => stage[p][s] = "COMPLETED"
  BY <1>6 DEF Completable
<1>9. PlanInOrder(p) /\ inspected[p] \subseteq Stages
  BY DEF Rest, Safe, StagesInOrder, PlanInOrder, Shape, TypeOK
<1>10. \A s \in Stages : s > n => stage[p][s] = "NOT_STARTED"
  BY <1>8, <1>9 DEF PlanInOrder
<1>11. n < StageCount => n + 1 \in Stages /\ op[x].next
  <2>1. n < StageCount => n + 1 \in Stages /\ n + 1 > n
    BY Constants DEF Stages
  <2> QED BY <1>7, <1>10, <2>1
<1>12. /\ plan'[p].pilot = plan[p].pilot /\ plan'[p].holder = plan[p].holder
       /\ plan'[p].status = IF n = StageCount THEN "COMPLETED" ELSE "ACTIVE"
  <2>1. plan'[p] = [Bumped(p) EXCEPT !.status =
                       IF n = StageCount THEN "COMPLETED" ELSE @]
    BY <1>2 DEF CompleteWrite, Shape, TypeOK
  <2> QED BY <1>8, <2>1, BumpedShape
<1>13. \A s \in Stages :
           stage'[p][s] = IF s = n THEN "COMPLETED"
                          ELSE IF s = n + 1 /\ op[x].next THEN "SCHEDULED"
                          ELSE stage[p][s]
  BY <1>2 DEF CompleteWrite, Shape, TypeOK
<1>14. /\ stage'[p][n] = "COMPLETED"
       /\ \A s \in Stages : s < n => stage'[p][s] = "COMPLETED"
       /\ \A s \in Stages : s > n =>
              stage'[p][s] = IF s = n + 1 THEN "SCHEDULED" ELSE "NOT_STARTED"
  <2>1. stage'[p][n] = "COMPLETED"
    BY <1>13
  <2>2. \A s \in Stages : s < n => s # n /\ s # n + 1
    BY Constants DEF Stages
  <2>3. \A s \in Stages : s > n => s # n /\ n < StageCount
    BY Constants DEF Stages
  <2> QED BY <1>8, <1>10, <1>11, <1>13, <2>1, <2>2, <2>3
<1>15. planned'[p] = planned[p] /\ inspected'[p] = inspected[p] \cup {n}
  BY <1>2 DEF CompleteWrite, Shape, TypeOK
<1>16. PlanInOrder(p)'
  <2>1. \A s, t \in Stages :
            s < t /\ stage'[p][t] # "NOT_STARTED" => stage'[p][s] = "COMPLETED"
    <3> SUFFICES ASSUME NEW s \in Stages, NEW t \in Stages, s < t,
                        stage'[p][t] # "NOT_STARTED"
                 PROVE  stage'[p][s] = "COMPLETED"
      OBVIOUS
    <3>1. t <= n + 1
      BY <1>14, Constants DEF Stages
    <3>2. s <= n
      BY <3>1, Constants DEF Stages
    <3>3. s < n \/ s = n
      BY <3>2, Constants DEF Stages
    <3> QED BY <1>14, <3>3
  <2>2. plan'[p].status \in {"ACTIVE", "PAUSED"} =>
            \E s \in Stages : stage'[p][s] = "SCHEDULED"
    <3> SUFFICES ASSUME n # StageCount
                 PROVE  \E s \in Stages : stage'[p][s] = "SCHEDULED"
      BY <1>12
    <3>1. n < StageCount
      BY Constants DEF Stages
    <3>2. n + 1 > n
      BY DEF Stages
    <3> QED BY <1>11, <1>14, <3>1, <3>2
  <2>3. plan'[p].status = "COMPLETED" <=> stage'[p][StageCount] = "COMPLETED"
    <3>1. CASE n = StageCount
      BY <1>12, <1>14, <3>1
    <3>2. CASE n # StageCount
      <4>1. StageCount > n
        BY <3>2, Constants DEF Stages
      <4> QED BY <1>12, <1>14, <3>2, <4>1, Constants
    <3> QED BY <3>1, <3>2
  <2>4. \A s \in inspected'[p] : stage'[p][s] = "COMPLETED"
    <3>1. \A s \in inspected[p] : stage[p][s] = "COMPLETED" /\ s \in Stages
      BY <1>9 DEF PlanInOrder
    <3>2. \A s \in inspected[p] : s < n
      <4> SUFFICES ASSUME NEW s \in inspected[p]
                   PROVE  s < n
        OBVIOUS
      <4>1. s # n /\ ~ (s > n) /\ s \in Stages
        BY <1>8, <1>10, <3>1
      <4> QED BY <4>1 DEF Stages
    <3> QED BY <1>14, <1>15, <3>1, <3>2
  <2> QED BY <2>1, <2>2, <2>3, <2>4 DEF PlanInOrder
<1>17. Ordered(planned'[p])
  BY <1>15 DEF Rest, Safe, DatesInOrder
<1>18. /\ plan'[p].status \notin {"ABSENT", "NOT_STARTED", "DRAFT"}
       /\ "ACTIVE" \in Unfinished /\ "ACTIVE" \in Running
       /\ "COMPLETED" \notin Unfinished /\ "COMPLETED" \notin Running
  BY <1>12 DEF Unfinished, Running
<1> QED BY <1>1, <1>3, <1>8, <1>12, <1>16, <1>17, <1>18, WriteIsSafe

\* The end of an assignment: no plan relies on it, and nobody is about to
\* make one that does.
LEMMA EndWriteSafe ==
    ASSUME Shape, Locks, Rest, NEW x \in Actors, EndWrite(x)
    PROVE  Rest'
<1>1. PICK h \in Assignments : h = op[x].holder
  BY DEF EndWrite, At, Shape, WellFormed
<1>2. \A y \in Actors : op'[y] = IF y = x THEN NoOp ELSE op[y]
  BY DEF EndWrite, End, Shape, TypeOK
<1>3. \A a \in Assignments : a # h => assignment'[a] = assignment[a]
  BY <1>1 DEF EndWrite, Shape, TypeOK
<1>4. plan' = plan /\ stage' = stage /\ planned' = planned /\ inspected' = inspected
  BY DEF EndWrite
<1>5. ~ InUse(h)
  BY <1>1 DEF EndWrite, At, Rest, Knowledge, Knows, ChecksHold
<1>6. ASSUME NEW y \in Actors
      PROVE  Knows(op[y])'
  <2>1. CASE y = x
    BY <1>2, <2>1 DEF NoOp, Knows, StillNew, LockedIsCurrent, VersionIsCurrent,
                      ChecksHold, Lifecycle, Versioned
  <2>2. CASE y # x
    <3>1. op'[y] = op[y] /\ Knows(op[y]) /\ op[y] \in Op
      BY <1>2, <2>2 DEF Rest, Knowledge, Shape, TypeOK
    <3>2. StillNew(op[y])'
      BY <1>4, <3>1 DEF Knows, StillNew
    <3>3. LockedIsCurrent(op[y])'
      BY <1>4, <3>1 DEF Knows, LockedIsCurrent, AllowedFrom
    <3>4. VersionIsCurrent(op[y])'
      BY <1>4, <3>1 DEF Knows, VersionIsCurrent, Completable, Ordered
    <3>5. ChecksHold(op[y])'
      <4>1. CASE op[y].kind = "create" /\ op[y].at = "write" /\ op[y].holder # None
        <5>1. [by |-> y, row |-> op[y].holder, mode |-> "for_update"] \in held
          BY <4>1 DEF Locks, LocksAreHeld, HeldIn
        <5>2. [by |-> x, row |-> h, mode |-> "for_update"] \in held
          BY <1>1, Constants DEF EndWrite, At, Locks, LocksAreHeld, HeldIn
        <5>3. op[y].holder # h
          BY <2>2, <5>1, <5>2, LockModes DEF Locks, LocksExclude
        <5>4. assignment'[op[y].holder] = assignment[op[y].holder]
          BY <1>3, <3>1, <4>1, <5>3 DEF Op
        <5> QED BY <3>1, <4>1, <5>4 DEF Knows, ChecksHold
      <4>2. CASE ~ (op[y].kind = "create" /\ op[y].at = "write"
                    /\ op[y].holder # None)
        BY <1>4, <3>1, <4>2 DEF Knows, ChecksHold, InUse
      <4> QED BY <4>1, <4>2
    <3> QED BY <3>2, <3>3, <3>4, <3>5 DEF Knows
  <2> QED BY <2>1, <2>2
<1>7. OneCreation'
  BY <1>2 DEF Rest, Knowledge, OneCreation, NoOp
<1>8. NoneSeeded' /\ DraftsAreUntouched'
  BY <1>4 DEF Rest, Knowledge, NoneSeeded, DraftsAreUntouched
<1>9. Safe'
  <2>1. PlansHoldAssignments'
    BY <1>3, <1>4, <1>5, PlanFields DEF Rest, Safe, PlansHoldAssignments, InUse
  <2>2. OneRunningPlan' /\ StagesInOrder' /\ DatesInOrder'
    BY <1>4 DEF Rest, Safe, OneRunningPlan, StagesInOrder, DatesInOrder, Ordered
  <2> QED BY <2>1, <2>2 DEF Safe
<1> QED BY <1>6, <1>7, <1>8, <1>9 DEF Rest, Knowledge

\* An assignment that begins, or whose position is deleted.
LEMMA AssignmentSafe ==
    ASSUME Shape, Rest, NEW a \in Assignments,
           AssignPosition(a) \/ DeletePosition(a)
    PROVE  Rest'
<1>1. /\ plan' = plan /\ stage' = stage /\ planned' = planned
      /\ inspected' = inspected /\ op' = op
  BY DEF AssignPosition, DeletePosition
<1>2. \A b \in Assignments :
          assignment[b] \in {"ACTIVE", "DELETED"} =>
              assignment'[b] \in {"ACTIVE", "DELETED"}
  BY DEF AssignPosition, DeletePosition, Shape, TypeOK
<1>3. ASSUME NEW y \in Actors
      PROVE  Knows(op[y])'
  <2>1. op'[y] = op[y] /\ Knows(op[y]) /\ op[y] \in Op
    BY <1>1 DEF Rest, Knowledge, Shape, TypeOK
  <2>2. StillNew(op[y])'
    BY <1>1, <2>1 DEF Knows, StillNew
  <2>3. LockedIsCurrent(op[y])'
    BY <1>1, <2>1 DEF Knows, LockedIsCurrent, AllowedFrom
  <2>4. VersionIsCurrent(op[y])'
    BY <1>1, <2>1 DEF Knows, VersionIsCurrent, Completable, Ordered
  <2>5. ChecksHold(op[y])'
    BY <1>1, <1>2, <2>1 DEF Knows, ChecksHold, InUse, Op
  <2> QED BY <2>2, <2>3, <2>4, <2>5 DEF Knows
<1>4. OneCreation' /\ NoneSeeded' /\ DraftsAreUntouched'
  BY <1>1 DEF Rest, Knowledge, OneCreation, NoneSeeded, DraftsAreUntouched
<1>5. PlansHoldAssignments'
  BY <1>1, <1>2, PlanFields DEF Rest, Safe, PlansHoldAssignments
<1>6. OneRunningPlan' /\ StagesInOrder' /\ DatesInOrder'
  BY <1>1 DEF Rest, Safe, OneRunningPlan, StagesInOrder, DatesInOrder, Ordered
<1> QED BY <1>3, <1>4, <1>5, <1>6 DEF Rest, Knowledge, Safe

\* A request that is abandoned.
LEMMA AbandonSafe ==
    ASSUME Shape, Rest, NEW x \in Actors, Abandon(x)
    PROVE  Knowledge'
<1>1. op' = [op EXCEPT ![x] = NoOp] /\ UNCHANGED Rows
  BY DEF Abandon, End
<1>2. Knows(NoOp) /\ NoOp.kind # "create"
  BY DEF NoOp, Knows, StillNew, LockedIsCurrent, VersionIsCurrent, ChecksHold,
         Lifecycle, Versioned
<1> QED BY <1>1, <1>2, KnowledgeKept DEF Rest

\* The steps that write nothing.
LEMMA SafeKept ==
    ASSUME Safe, UNCHANGED Rows
    PROVE  Safe'
BY DEF Rows, Safe, PlansHoldAssignments, OneRunningPlan, StagesInOrder,
       DatesInOrder, Ordered

LEMMA InitSafe == Init => Safe
<1> SUFFICES ASSUME Init
             PROVE  Safe
  OBVIOUS
<1>1. \A p \in Plans : plan[p] = Absent
  BY DEF Init
<1>2. PlansHoldAssignments /\ OneRunningPlan
  BY <1>1 DEF PlansHoldAssignments, OneRunningPlan, Absent, Unfinished, Running
<1>3. StagesInOrder
  BY <1>1, Constants DEF Init, StagesInOrder, Absent
<1>4. DatesInOrder
  BY DEF Init, DatesInOrder, Ordered, Stages
<1> QED BY <1>2, <1>3, <1>4 DEF Safe

LEMMA NextRest == Shape /\ Locks /\ Rest /\ [Next]_vars => Rest'
<1> SUFFICES ASSUME Shape, Locks, Rest, [Next]_vars
             PROVE  Rest'
  OBVIOUS
<1>1. ASSUME NEW x \in Actors, Step(x)
      PROVE  Rest'
  <2>1. CASE CreateWrite(x) \/ LifecycleWrite(x) \/ ReassignWrite(x)
             \/ CompleteWrite(x) \/ RescheduleWrite(x) \/ EditWrite(x)
             \/ EndWrite(x)
    BY <2>1, CreateWriteSafe, LifecycleWriteSafe, ReassignWriteSafe,
       CompleteWriteSafe, RescheduleWriteSafe, EditWriteSafe, EndWriteSafe
  <2>2. CASE Abandon(x)
    BY <2>2, AbandonSafe, SafeKept DEF Abandon, Rest
  <2>3. CASE ~ \/ CreateWrite(x) \/ LifecycleWrite(x) \/ ReassignWrite(x)
               \/ CompleteWrite(x) \/ RescheduleWrite(x) \/ EditWrite(x)
               \/ EndWrite(x) \/ Abandon(x)
    <3>1. UNCHANGED Rows
      BY <1>1, <2>3
      DEF Step, CreateRead, LifecycleLockPlan, ReassignRead, ReassignPlan,
          ReassignShare, LockAssignment, Check, CompleteRead, RescheduleRead,
          EditRead, EndLock, EndCheck
    <3>2. Knowledge'
      BY <1>1, <2>3, CreateReadKnows, OtherReadsKnow, LifecycleLockPlanKnows,
         EndLockKnows, WaitsKeepKnowledge
      DEF Step, Rest
    <3> QED BY <3>1, <3>2, SafeKept DEF Rest
  <2> QED BY <2>1, <2>2, <2>3
<1>2. CASE UNCHANGED vars
  <2>1. UNCHANGED Rows /\ op' = op
    BY <1>2 DEF vars, Rows
  <2>2. Knowledge'
    <3>1. ASSUME NEW y \in Actors
          PROVE  Knows(op[y])'
      <4>1. Knows(op[y])
        BY DEF Rest, Knowledge
      <4>2. /\ plan' = plan /\ stage' = stage /\ planned' = planned
            /\ inspected' = inspected /\ assignment' = assignment /\ op' = op
        BY <2>1 DEF Rows
      <4> QED BY <4>1, <4>2 DEF Knows, StillNew, LockedIsCurrent,
              VersionIsCurrent, ChecksHold, AllowedFrom, Completable, Ordered,
              InUse
    <3>2. OneCreation' /\ NoneSeeded' /\ DraftsAreUntouched'
      BY <2>1 DEF Rows, Rest, Knowledge, OneCreation, NoneSeeded,
                  DraftsAreUntouched
    <3> QED BY <3>1, <3>2 DEF Knowledge
  <2> QED BY <2>1, <2>2, SafeKept DEF Rest
<1> QED BY <1>1, <1>2, AssignmentSafe, NextIsSteps

LEMMA Invariance == Spec => []IInv
<1>1. Init => IInv
  BY InitShape, InitLocks, InitKnowledge, InitSafe DEF IInv, Safe
<1>2. IInv /\ [Next]_vars => IInv'
  BY NextShape, NextLocks, NextRest DEF IInv, Rest, Safe
<1> QED BY <1>1, <1>2, PTL DEF Spec

\* No plan that is not finished is left on an assignment that ended: the end
\* of an assignment and what puts a plan on it exclude each other.
THEOREM PlansKeepAssignments == Spec => []PlansHoldAssignments
<1>1. IInv => PlansHoldAssignments
  BY DEF IInv
<1> QED BY <1>1, Invariance, PTL

\* A pilot has one running plan at most.
THEOREM PlansExclude == Spec => []OneRunningPlan
<1>1. IInv => OneRunningPlan
  BY DEF IInv
<1> QED BY <1>1, Invariance, PTL

\* Stages are completed in their order, and their inspections with them.
THEOREM StagesFollow == Spec => []StagesInOrder
<1>1. IInv => StagesInOrder
  BY DEF IInv
<1> QED BY <1>1, Invariance, PTL

\* The dates of the stages stay in the order each request checked.
THEOREM DatesFollow == Spec => []DatesInOrder
<1>1. IInv => DatesInOrder
  BY DEF IInv
<1> QED BY <1>1, Invariance, PTL

-----------------------------------------------------------------------------
(* What a request knows of the assignment it locked.                       *)

\* The assignment that was checked is active until the transaction ends, a
\* new plan is for its pilot, and a start or a resumption is about the
\* assignment of its plan.
HolderIsCurrent(o) ==
    /\ o.kind \in {"create", "start", "resume", "end"} /\ o.at = "write"
         /\ o.holder # None => assignment[o.holder] = "ACTIVE"
    /\ o.kind = "create" /\ o.holder # None => PilotOf[o.holder] = o.pilot
    /\ o.kind \in {"start", "resume"} =>
           o.holder = plan[o.plan].holder /\ o.holder # None

HoldersAreCurrent == \A x \in Actors : HolderIsCurrent(op[x])

\* A step that moves one request and changes no row.
LEMMA HoldersKept ==
    ASSUME Shape, HoldersAreCurrent, NEW x \in Actors, NEW o,
           op' = [op EXCEPT ![x] = o], plan' = plan, assignment' = assignment,
           HolderIsCurrent(o)
    PROVE  HoldersAreCurrent'
<1>1. \A y \in Actors : op'[y] = IF y = x THEN o ELSE op[y]
  BY DEF Shape, TypeOK
<1>2. \A y \in Actors : HolderIsCurrent(op'[y])
  BY <1>1 DEF HoldersAreCurrent
<1> QED BY <1>2 DEF HoldersAreCurrent, HolderIsCurrent

\* A request that is not about an assignment yet, or ends.
LEMMA NothingHeld == HolderIsCurrent(NoOp)
BY DEF HolderIsCurrent, NoOp

LEMMA ReadsKnowHolders ==
    ASSUME Shape, HoldersAreCurrent, NEW x \in Actors, NEW p \in Plans,
           \/ \E i \in Pilots, a \in Assignments \cup {None},
                 status \in {"DRAFT", "ACTIVE"} : CreateRead(x, p, i, a, status)
           \/ \E a \in Assignments : ReassignRead(x, p, a)
           \/ \E s \in Stages : CompleteRead(x, p, s)
           \/ \E s \in Stages, day \in Days : RescheduleRead(x, p, s, day)
           \/ EditRead(x, p)
    PROVE  HoldersAreCurrent'
<1>1. plan' = plan /\ assignment' = assignment
  BY DEF CreateRead, ReassignRead, CompleteRead, RescheduleRead, EditRead, Rows
<1>2. ASSUME NEW i \in Pilots, NEW a \in Assignments \cup {None},
             NEW status \in {"DRAFT", "ACTIVE"}, CreateRead(x, p, i, a, status)
      PROVE  HoldersAreCurrent'
  <2> DEFINE o == [NoOp EXCEPT !.kind = "create", !.plan = p, !.pilot = i,
                               !.holder = a, !.status = status,
                               !.at = IF a = None THEN "check"
                                      ELSE "assignment"]
  <2>1. o.kind = "create" /\ o.at # "write" /\ o.holder = a /\ o.pilot = i
    BY DEF NoOp
  <2>2. op' = [op EXCEPT ![x] = o]
    BY <1>2 DEF CreateRead, Begin
  <2> HIDE DEF o
  <2>3. a # None => PilotOf[a] = i
    BY <1>2 DEF CreateRead, AssignmentsFor
  <2>4. HolderIsCurrent(o)
    BY <2>1, <2>3 DEF HolderIsCurrent
  <2> QED BY <1>1, <2>2, <2>4, HoldersKept
<1>3. CASE ~ \E i \in Pilots, a \in Assignments \cup {None},
                status \in {"DRAFT", "ACTIVE"} : CreateRead(x, p, i, a, status)
  <2>1. \E o : op' = [op EXCEPT ![x] = o] /\ o.kind \in Versioned
    <3>1. ASSUME NEW a \in Assignments, ReassignRead(x, p, a)
          PROVE  \E o : op' = [op EXCEPT ![x] = o] /\ o.kind = "reassign"
      <4> DEFINE o == [NoOp EXCEPT !.kind = "reassign", !.plan = p,
                                   !.holder = a, !.version = plan[p].version,
                                   !.status = plan[p].status, !.at = "plan"]
      <4>1. o.kind = "reassign"
        BY DEF NoOp
      <4>2. Begin(x, o)
        BY <3>1 DEF ReassignRead
      <4> HIDE DEF o
      <4> QED BY <4>1, <4>2 DEF Begin
    <3>2. ASSUME NEW s \in Stages, CompleteRead(x, p, s)
          PROVE  \E o : op' = [op EXCEPT ![x] = o] /\ o.kind = "complete"
      <4> DEFINE n == s < StageCount /\ stage[p][s + 1] = "NOT_STARTED"
                 o == [NoOp EXCEPT !.kind = "complete", !.plan = p, !.stage = s,
                                   !.version = plan[p].version, !.at = "write",
                                   !.next = n]
      <4>1. o.kind = "complete"
        BY DEF NoOp
      <4>2. op' = [op EXCEPT ![x] = o]
        BY <3>2 DEF CompleteRead, Begin
      <4> HIDE DEF o
      <4> QED BY <4>1, <4>2
    <3>3. ASSUME NEW s \in Stages, NEW day \in Days, RescheduleRead(x, p, s, day)
          PROVE  \E o : op' = [op EXCEPT ![x] = o] /\ o.kind = "reschedule"
      <4> DEFINE o == [NoOp EXCEPT !.kind = "reschedule", !.plan = p,
                                   !.stage = s, !.day = day,
                                   !.version = plan[p].version, !.at = "write"]
      <4>1. o.kind = "reschedule"
        BY DEF NoOp
      <4>2. Begin(x, o)
        BY <3>3 DEF RescheduleRead
      <4> HIDE DEF o
      <4> QED BY <4>1, <4>2 DEF Begin
    <3>4. ASSUME EditRead(x, p)
          PROVE  \E o : op' = [op EXCEPT ![x] = o] /\ o.kind = "edit"
      <4> DEFINE o == [NoOp EXCEPT !.kind = "edit", !.plan = p, !.at = "write",
                                   !.version = plan[p].version,
                                   !.status = plan[p].status]
      <4>1. o.kind = "edit"
        BY DEF NoOp
      <4>2. Begin(x, o)
        BY <3>4 DEF EditRead
      <4> HIDE DEF o
      <4> QED BY <4>1, <4>2 DEF Begin
    <3> QED BY <1>3, <3>1, <3>2, <3>3, <3>4 DEF Versioned
  <2>2. PICK o : op' = [op EXCEPT ![x] = o] /\ o.kind \in Versioned
    BY <2>1
  <2>3. HolderIsCurrent(o)
    BY <2>2 DEF HolderIsCurrent, Versioned
  <2> QED BY <1>1, <2>2, <2>3, HoldersKept
<1> QED BY <1>2, <1>3

LEMMA LocksKnowHolders ==
    ASSUME Shape, HoldersAreCurrent, NEW x \in Actors,
           \/ \E p \in Plans, action \in Lifecycle : LifecycleLockPlan(x, p, action)
           \/ \E a \in Assignments : EndLock(x, a)
    PROVE  HoldersAreCurrent'
<1>1. plan' = plan /\ assignment' = assignment
  BY DEF LifecycleLockPlan, EndLock, Rows
<1>2. ASSUME NEW p \in Plans, NEW action \in Lifecycle,
             LifecycleLockPlan(x, p, action)
      PROVE  HoldersAreCurrent'
  <2> DEFINE held_o == [NoOp EXCEPT !.kind = action, !.plan = p,
                                    !.holder = plan[p].holder,
                                    !.pilot = plan[p].pilot,
                                    !.status = "ACTIVE", !.at = "assignment"]
             free_o == [NoOp EXCEPT !.kind = action, !.plan = p, !.at = "write"]
  <2>1. CASE action \in {"start", "resume"}
    <3>1. /\ held_o.kind = action /\ held_o.plan = p /\ held_o.at # "write"
          /\ held_o.holder = plan[p].holder
      BY DEF NoOp
    <3>2. Begin(x, held_o) /\ plan[p].holder # None
      BY <1>2, <2>1 DEF LifecycleLockPlan
    <3> HIDE DEF held_o
    <3>3. HolderIsCurrent(held_o)
      BY <2>1, <3>1, <3>2 DEF HolderIsCurrent
    <3> QED BY <1>1, <3>2, <3>3, HoldersKept DEF Begin
  <2>2. CASE action \in {"pause", "cancel"}
    <3>1. free_o.kind = action
      BY DEF NoOp
    <3>2. Begin(x, free_o)
      BY <1>2, <2>2 DEF LifecycleLockPlan
    <3> HIDE DEF free_o
    <3>3. HolderIsCurrent(free_o)
      BY <2>2, <3>1 DEF HolderIsCurrent
    <3> QED BY <1>1, <3>2, <3>3, HoldersKept DEF Begin
  <2> QED BY <2>1, <2>2 DEF Lifecycle
<1>3. ASSUME NEW a \in Assignments, EndLock(x, a)
      PROVE  HoldersAreCurrent'
  <2> DEFINE o == [NoOp EXCEPT !.kind = "end", !.holder = a, !.at = "check"]
  <2>1. o.kind = "end" /\ o.at = "check"
    BY DEF NoOp
  <2>2. op' = [op EXCEPT ![x] = o]
    BY <1>3 DEF EndLock, Begin
  <2> HIDE DEF o
  <2>3. HolderIsCurrent(o)
    BY <2>1 DEF HolderIsCurrent
  <2> QED BY <1>1, <2>2, <2>3, HoldersKept
<1> QED BY <1>2, <1>3

\* The checks under the lock.
LEMMA WaitsKnowHolders ==
    ASSUME Shape, HoldersAreCurrent, NEW x \in Actors,
           \/ ReassignPlan(x) \/ ReassignShare(x) \/ LockAssignment(x)
           \/ Check(x) \/ EndCheck(x)
    PROVE  HoldersAreCurrent'
<1>1. PICK at : Go(x, at)
  BY DEF ReassignPlan, ReassignShare, LockAssignment, Check, EndCheck
<1>2. PICK o : /\ op' = [op EXCEPT ![x] = o]
               /\ o.at = at /\ o.kind = op[x].kind
               /\ o.plan = op[x].plan /\ o.holder = op[x].holder
               /\ o = [op[x] EXCEPT !.at = at]
  BY <1>1, GoMoves
<1>3. op[x] \in Op /\ HolderIsCurrent(op[x]) /\ o.pilot = op[x].pilot
  BY <1>2 DEF Shape, TypeOK, Op, HoldersAreCurrent
<1>4. plan' = plan /\ assignment' = assignment
  BY DEF ReassignPlan, ReassignShare, LockAssignment, Check, EndCheck, Rows
<1>5. op'[x] = o
  BY <1>2 DEF Shape, TypeOK
<1>6. o.at = "write" => Check(x) \/ EndCheck(x)
  BY <1>3, <1>5 DEF ReassignPlan, ReassignShare, LockAssignment, Go, Shape,
                    TypeOK, Op
<1>7. o.at = "write" /\ o.holder # None => assignment[o.holder] = "ACTIVE"
  BY <1>2, <1>6 DEF Check, EndCheck, Eligible
<1>8. HolderIsCurrent(o)
  BY <1>2, <1>3, <1>7 DEF HolderIsCurrent
<1> QED BY <1>2, <1>4, <1>8, HoldersKept

\* The writes of plans: a plan that another request has locked is not theirs.
LEMMA WritesKeepHolders ==
    ASSUME Shape, HoldersAreCurrent, NEW x \in Actors, NEW p \in Plans,
           Writes(x, p)
    PROVE  HoldersAreCurrent'
<1>1. \A y \in Actors : op'[y] = IF y = x THEN NoOp ELSE op[y]
  BY DEF Writes, End, Shape, TypeOK
<1>2. ASSUME NEW y \in Actors, y # x
      PROVE  HolderIsCurrent(op[y])'
  <2>1. op'[y] = op[y] /\ HolderIsCurrent(op[y]) /\ WellFormed(op[y])
    BY <1>1, <1>2 DEF HoldersAreCurrent, Shape
  <2>2. op[y].kind \in {"start", "resume"} => plan'[op[y].plan] = plan[op[y].plan]
    BY <1>2, <2>1 DEF Writes, Alone, Lifecycle, WellFormed
  <2>3. assignment' = assignment
    BY DEF Writes
  <2> QED BY <2>1, <2>2, <2>3 DEF HolderIsCurrent
<1>3. HolderIsCurrent(op[x])'
  BY <1>1 DEF HolderIsCurrent, NoOp
<1> QED BY <1>2, <1>3 DEF HoldersAreCurrent

\* The end of an assignment, and the deletion of its position: nobody else
\* has locked it.
LEMMA AssignmentsKeepHolders ==
    ASSUME Shape, Locks, HoldersAreCurrent,
           \/ \E x \in Actors : EndWrite(x)
           \/ \E a \in Assignments : AssignPosition(a) \/ DeletePosition(a)
    PROVE  HoldersAreCurrent'
<1>1. plan' = plan
  BY DEF EndWrite, AssignPosition, DeletePosition
<1>2. \A y \in Actors : op'[y] = op[y] \/ op'[y] = NoOp
  BY DEF EndWrite, AssignPosition, DeletePosition, End, Shape, TypeOK
<1>3. ASSUME NEW y \in Actors, op'[y] = op[y], op[y].at = "write",
             op[y].kind \in {"create", "start", "resume", "end"},
             op[y].holder # None
      PROVE  assignment'[op[y].holder] = "ACTIVE"
  <2> DEFINE h == op[y].holder
  <2>1. assignment[h] = "ACTIVE" /\ h \in Assignments
    BY <1>3 DEF HoldersAreCurrent, HolderIsCurrent, Shape, TypeOK, Op
  <2>2. [by |-> y, row |-> h, mode |-> "for_update"] \in held
    BY <1>3 DEF Locks, LocksAreHeld, HeldIn
  <2>3. ASSUME NEW x \in Actors, EndWrite(x)
        PROVE  assignment'[h] = "ACTIVE"
    <3>1. x # y
      BY <1>3, <2>3 DEF EndWrite, End, NoOp, Shape, TypeOK
    <3>2. op[x].holder \in Assignments
          /\ [by |-> x, row |-> op[x].holder, mode |-> "for_update"] \in held
      BY <2>3, Constants
      DEF EndWrite, At, Locks, LocksAreHeld, HeldIn, Shape, WellFormed
    <3>3. op[x].holder # h
      BY <2>2, <3>1, <3>2, LockModes DEF Locks, LocksExclude
    <3> QED BY <2>1, <2>3, <3>3 DEF EndWrite, Shape, TypeOK
  <2>4. ASSUME NEW a \in Assignments, AssignPosition(a)
        PROVE  assignment'[h] = "ACTIVE"
    BY <2>1, <2>4 DEF AssignPosition, Shape, TypeOK
  <2>5. ASSUME NEW a \in Assignments, DeletePosition(a)
        PROVE  assignment'[h] = "ACTIVE"
    <3>1. y # None
      BY ConstantsAssumption
    <3>2. a # h
      BY <2>2, <2>5, <3>1, LockModes DEF DeletePosition, Obstacles
    <3> QED BY <2>1, <2>5, <3>2 DEF DeletePosition, Shape, TypeOK
  <2> QED BY <2>3, <2>4, <2>5
<1>4. ASSUME NEW y \in Actors
      PROVE  HolderIsCurrent(op[y])'
  <2>1. CASE op'[y] = NoOp
    BY <2>1 DEF HolderIsCurrent, NoOp
  <2>2. CASE op'[y] = op[y]
    <3>1. HolderIsCurrent(op[y])
      BY DEF HoldersAreCurrent
    <3> QED BY <1>1, <1>3, <2>2, <3>1 DEF HolderIsCurrent
  <2> QED BY <1>2, <2>1, <2>2
<1> QED BY <1>4 DEF HoldersAreCurrent

\* Every write of a plan is a write of one plan, by a request that has it to
\* itself.
LEMMA PlanWrites ==
    ASSUME Shape, Locks, Knowledge, NEW x \in Actors,
           \/ CreateWrite(x) \/ LifecycleWrite(x) \/ ReassignWrite(x)
           \/ CompleteWrite(x) \/ RescheduleWrite(x) \/ EditWrite(x)
    PROVE  op[x].plan \in Plans /\ Writes(x, op[x].plan)
<1>1. op[x].kind \in Lifecycle \cup Versioned \cup {"create"}
  BY DEF CreateWrite, LifecycleWrite, ReassignWrite, CompleteWrite,
         RescheduleWrite, EditWrite, At, Lifecycle, Versioned
<1>2. op[x].plan \in Plans
  BY <1>1 DEF Shape, WellFormed
<1>3. CASE CreateWrite(x)
  <2>1. Alone(x, op[x].plan)
    BY <1>3, WritesAlone DEF CreateWrite, At
  <2>2. \A q \in Plans : q # op[x].plan =>
            plan'[q] = plan[q] /\ stage'[q] = stage[q] /\ planned'[q] = planned[q]
    BY <1>3 DEF CreateWrite, Shape, TypeOK
  <2> QED BY <1>1, <1>2, <1>3, <2>1, <2>2 DEF Writes, CreateWrite
<1>4. CASE ~ CreateWrite(x)
  BY <1>2, <1>4, WritesExisting
<1> QED BY <1>2, <1>3, <1>4

LEMMA NextHolders ==
    Shape /\ Locks /\ Knowledge /\ HoldersAreCurrent /\ [Next]_vars
        => HoldersAreCurrent'
<1> SUFFICES ASSUME Shape, Locks, Knowledge, HoldersAreCurrent, [Next]_vars
             PROVE  HoldersAreCurrent'
  OBVIOUS
<1>1. ASSUME NEW x \in Actors, Step(x)
      PROVE  HoldersAreCurrent'
  <2>1. CASE \/ CreateWrite(x) \/ LifecycleWrite(x) \/ ReassignWrite(x)
             \/ CompleteWrite(x) \/ RescheduleWrite(x) \/ EditWrite(x)
    BY <2>1, PlanWrites, WritesKeepHolders
  <2>2. CASE Abandon(x)
    <3>1. op' = [op EXCEPT ![x] = NoOp] /\ plan' = plan /\ assignment' = assignment
      BY <2>2 DEF Abandon, End, Rows
    <3> QED BY <3>1, NothingHeld, HoldersKept
  <2>3. CASE EndWrite(x)
    BY <2>3, AssignmentsKeepHolders
  <2> QED BY <1>1, <2>1, <2>2, <2>3, ReadsKnowHolders, LocksKnowHolders,
             WaitsKnowHolders
      DEF Step
<1>2. CASE UNCHANGED vars
  BY <1>2 DEF vars, HoldersAreCurrent, HolderIsCurrent
<1> QED BY <1>1, <1>2, AssignmentsKeepHolders, NextIsSteps

LEMMA InitHolders == Init => HoldersAreCurrent
BY NothingHeld DEF Init, HoldersAreCurrent

-----------------------------------------------------------------------------
(* The refinement.                                                         *)

Known == Shape /\ Locks /\ Rest /\ HoldersAreCurrent

LEMMA KnownHolds == Spec => []Known
<1>1. Init => Known
  BY InitShape, InitLocks, InitKnowledge, InitSafe, InitHolders DEF Known, Rest
<1>2. Known /\ [Next]_vars => Known'
  BY NextShape, NextLocks, NextRest, NextHolders DEF Known, Rest
<1> QED BY <1>1, <1>2, PTL DEF Spec

Status == [p \in Plans |-> plan[p].status]

PilotOfPlan == [p \in Plans |-> plan[p].pilot]

Holder == [p \in Plans |-> plan[p].holder]

Done == [p \in Plans |-> Completed(p)]

\* A write shows in the status, the pilot and the assignment of its plan, and
\* in the stages that are completed.
LEMMA WriteShows ==
    ASSUME NEW x \in Actors, NEW p \in Plans, Writes(x, p)
    PROVE  /\ Status' = [Status EXCEPT ![p] = plan'[p].status]
           /\ PilotOfPlan' = [PilotOfPlan EXCEPT ![p] = plan'[p].pilot]
           /\ Holder' = [Holder EXCEPT ![p] = plan'[p].holder]
           /\ Done' = [Done EXCEPT ![p] =
                           {s \in Stages : stage'[p][s] = "COMPLETED"}]
<1>1. \A q \in Plans : q # p => plan'[q] = plan[q] /\ stage'[q] = stage[q]
  BY DEF Writes
<1>2. Status' = [Status EXCEPT ![p] = plan'[p].status]
  BY <1>1 DEF Status
<1>3. PilotOfPlan' = [PilotOfPlan EXCEPT ![p] = plan'[p].pilot]
  BY <1>1 DEF PilotOfPlan
<1>4. Holder' = [Holder EXCEPT ![p] = plan'[p].holder]
  BY <1>1 DEF Holder
<1>5. Done' = [Done EXCEPT ![p] = {s \in Stages : stage'[p][s] = "COMPLETED"}]
  BY <1>1 DEF Done, Completed
<1> QED BY <1>2, <1>3, <1>4, <1>5

\* The stages that are completed stay what they are.
LEMMA DoneStays ==
    ASSUME NEW p \in Plans,
           \A s \in Stages : stage'[p][s] = "COMPLETED" <=> stage[p][s] = "COMPLETED"
    PROVE  [Done EXCEPT ![p] = {s \in Stages : stage'[p][s] = "COMPLETED"}] = Done
<1>1. {s \in Stages : stage'[p][s] = "COMPLETED"} = Done[p]
  BY DEF Done, Completed
<1> QED BY <1>1 DEF Done

\* No conflict with another plan is what the promise calls free.
LEMMA NoConflictIsFree ==
    ASSUME NEW p \in Plans, NEW i, ~ Conflict(p, i)
    PROVE  Atomic!Free(p, i)
BY DEF Conflict, Atomic!Free, Atomic!Running, Running

LEMMA CreateRefines ==
    ASSUME Known, NEW x \in Actors, CreateWrite(x)
    PROVE  Atomic!Next
<1>1. op[x].kind = "create" /\ op[x].at = "write"
  BY DEF CreateWrite, At
<1>2. PICK p \in Plans : p = op[x].plan
  BY <1>1 DEF Known, Shape, WellFormed
<1>3. PICK i \in Pilots, a \in Assignments \cup {None}, s \in {"DRAFT", "ACTIVE"} :
          i = op[x].pilot /\ a = op[x].holder /\ s = op[x].status
  BY <1>1 DEF Known, Shape, TypeOK, Op, WellFormed
<1>4. Writes(x, p) /\ plan[p].status = "ABSENT"
  BY <1>1, <1>2, PlanWrites
  DEF Known, Rest, Knowledge, Knows, StillNew
<1>5. plan'[p] = [status |-> s, pilot |-> i, holder |-> a, version |-> 1]
  BY <1>2, <1>3 DEF CreateWrite, Known, Shape, TypeOK
<1>6. \A t \in Stages : stage[p][t] = "NOT_STARTED"
  BY <1>4 DEF Known, Rest, Knowledge, DraftsAreUntouched
<1>7. \A t \in Stages : stage'[p][t] # "COMPLETED"
  BY <1>2, <1>6, Constants DEF CreateWrite, Known, Shape, TypeOK
<1>8. Done' = Done
  BY <1>4, <1>6, <1>7, WriteShows, DoneStays
<1>9. a # None => assignment[a] = "ACTIVE" /\ PilotOf[a] = i
  BY <1>1, <1>3 DEF Known, HoldersAreCurrent, HolderIsCurrent
<1>10. s = "ACTIVE" => Atomic!Free(p, i)
  BY <1>2, <1>3, NoConflictIsFree DEF CreateWrite, IndexAdmits, Running
<1>11. Atomic!Open(p, i, a, s)
  <2>1. Status' = [Status EXCEPT ![p] = s]
    BY <1>4, <1>5, WriteShows
  <2>2. PilotOfPlan' = [PilotOfPlan EXCEPT ![p] = i]
    BY <1>4, <1>5, WriteShows
  <2>3. Holder' = [Holder EXCEPT ![p] = a]
    BY <1>4, <1>5, WriteShows
  <2>4. Status[p] = "ABSENT" /\ assignment' = assignment
    BY <1>4 DEF Status, Writes
  <2> QED BY <1>8, <1>9, <1>10, <2>1, <2>2, <2>3, <2>4
          DEF Atomic!Open, Atomic!Usable, Status, PilotOfPlan, Holder, Done
<1> QED BY <1>11 DEF Atomic!Next

LEMMA LifecycleRefines ==
    ASSUME Known, NEW x \in Actors, LifecycleWrite(x)
    PROVE  Atomic!Next
<1>1. op[x].kind \in Lifecycle /\ op[x].at = "write"
  BY DEF LifecycleWrite, At, Lifecycle
<1>2. PICK p \in Plans : p = op[x].plan
  BY <1>1 DEF Known, Shape, WellFormed
<1>3. Writes(x, p)
  BY <1>2, PlanWrites DEF Known, Rest
<1> DEFINE new == Becomes(op[x].kind)
<1>4. /\ plan'[p].status = new
      /\ plan'[p].pilot = plan[p].pilot /\ plan'[p].holder = plan[p].holder
  <2>1. plan'[p] = [Bumped(p) EXCEPT !.status = new]
    BY <1>2 DEF LifecycleWrite, Known, Shape, TypeOK
  <2> HIDE DEF new
  <2> QED BY <2>1, BumpedShape DEF Known
<1>5. plan[p].status \in AllowedFrom(op[x].kind)
  BY <1>1, <1>2 DEF Known, Rest, Knowledge, Knows, LockedIsCurrent
<1>6. \A s \in Stages : stage'[p][s] = "COMPLETED" <=> stage[p][s] = "COMPLETED"
  BY <1>2, Constants DEF LifecycleWrite, Known, Shape, TypeOK
<1>7. Done' = Done /\ PilotOfPlan' = PilotOfPlan /\ Holder' = Holder
      /\ Status' = [Status EXCEPT ![p] = new]
  <2>1. [PilotOfPlan EXCEPT ![p] = plan[p].pilot] = PilotOfPlan
    BY DEF PilotOfPlan
  <2>2. [Holder EXCEPT ![p] = plan[p].holder] = Holder
    BY DEF Holder
  <2> QED BY <1>3, <1>4, <1>6, <2>1, <2>2, WriteShows, DoneStays
<1>8. ASSUME NEW s, s = new
      PROVE  Atomic!Become(p, s)
  BY <1>3, <1>7, <1>8 DEF Atomic!Become, Status, PilotOfPlan, Holder, Done, Writes
<1>9. CASE op[x].kind \in {"start", "resume"}
  <2>1. new = "ACTIVE" /\ plan[p].status \in {"DRAFT", "NOT_STARTED", "PAUSED"}
    BY <1>5, <1>9 DEF Becomes, AllowedFrom
  <2>2. plan[p].holder # None /\ assignment[plan[p].holder] = "ACTIVE"
    BY <1>1, <1>2, <1>9 DEF Known, HoldersAreCurrent, HolderIsCurrent
  <2>3. Atomic!Free(p, plan[p].pilot)
    BY <1>2, <2>1, NoConflictIsFree DEF LifecycleWrite, IndexAdmits, Running
  <2>4. Atomic!Become(p, "ACTIVE")
    BY <1>8, <2>1
  <2>5. /\ Status[p] \in {"DRAFT", "NOT_STARTED", "PAUSED"}
        /\ Holder[p] # None /\ assignment[Holder[p]] = "ACTIVE"
    BY <2>1, <2>2 DEF Status, Holder
  <2>6. Atomic!Free(p, PilotOfPlan[p])
    BY <2>3 DEF PilotOfPlan
  <2>7. Atomic!Run(p)
    BY <2>4, <2>5, <2>6
    DEF Atomic!Run, Atomic!Usable, Status, Holder, PilotOfPlan
  <2> QED BY <2>7 DEF Atomic!Next
<1>10. CASE op[x].kind = "pause"
  <2>1. new = "PAUSED" /\ Status[p] = "ACTIVE"
    BY <1>5, <1>10 DEF Becomes, AllowedFrom, Status
  <2>2. Atomic!Become(p, "PAUSED")
    BY <1>8, <2>1
  <2>3. Atomic!Pause(p)
    BY <2>1, <2>2 DEF Atomic!Pause, Status
  <2> QED BY <2>3 DEF Atomic!Next
<1>11. CASE op[x].kind = "cancel"
  <2>1. new = "CANCELLED" /\ Status[p] \in Atomic!Unfinished
    BY <1>5, <1>11
    DEF Becomes, AllowedFrom, Status, Atomic!Unfinished, Atomic!Running,
        Unfinished, Running
  <2>2. Atomic!Become(p, "CANCELLED")
    BY <1>8, <2>1
  <2>3. Atomic!Cancel(p)
    BY <2>1, <2>2 DEF Atomic!Cancel, Status
  <2> QED BY <2>3 DEF Atomic!Next
<1> QED BY <1>1, <1>9, <1>10, <1>11 DEF Lifecycle

LEMMA ReassignRefines ==
    ASSUME Known, NEW x \in Actors, ReassignWrite(x)
    PROVE  Atomic!Next
<1>1. op[x].kind = "reassign" /\ op[x].at = "check"
  BY DEF ReassignWrite, At
<1>2. PICK p \in Plans, a \in Assignments : p = op[x].plan /\ a = op[x].holder
  BY <1>1 DEF Known, Shape, WellFormed, Versioned
<1>3. Writes(x, p)
  BY <1>2, PlanWrites DEF Known, Rest
<1>4. /\ plan'[p].status = plan[p].status
      /\ plan'[p].holder = a /\ plan'[p].pilot = PilotOf[a]
  <2>1. plan'[p] = [Bumped(p) EXCEPT !.holder = a, !.pilot = PilotOf[a]]
    BY <1>2 DEF ReassignWrite, Known, Shape, TypeOK
  <2> QED BY <2>1, BumpedShape DEF Known
<1>5. plan[p].status = "DRAFT"
  BY <1>1, <1>2
  DEF Known, Rest, Knowledge, Knows, LockedIsCurrent, NoneSeeded
<1>6. assignment[a] = "ACTIVE"
  BY <1>2, Constants DEF ReassignWrite, Eligible
<1>7. Done' = Done /\ Status' = Status
  <2>1. stage' = stage
    BY DEF ReassignWrite
  <2>2. [Status EXCEPT ![p] = plan[p].status] = Status
    BY DEF Status
  <2> QED BY <1>3, <1>4, <2>1, <2>2, WriteShows, DoneStays
<1>8. Atomic!Move(p, a)
  <2>1. Holder' = [Holder EXCEPT ![p] = a]
    BY <1>3, <1>4, WriteShows
  <2>2. PilotOfPlan' = [PilotOfPlan EXCEPT ![p] = PilotOf[a]]
    BY <1>3, <1>4, WriteShows
  <2>3. Status[p] = "DRAFT" /\ assignment' = assignment
    BY <1>3, <1>5 DEF Status, Writes
  <2> QED BY <1>6, <1>7, <2>1, <2>2, <2>3
          DEF Atomic!Move, Atomic!Usable, Status, PilotOfPlan, Holder, Done
<1> QED BY <1>8 DEF Atomic!Next

LEMMA CompleteRefines ==
    ASSUME Known, NEW x \in Actors, CompleteWrite(x)
    PROVE  Atomic!Next
<1>1. op[x].kind = "complete"
  BY DEF CompleteWrite, At
<1>2. PICK p \in Plans, n \in Stages : p = op[x].plan /\ n = op[x].stage
  BY <1>1 DEF Known, Shape, WellFormed, Versioned
<1>3. Writes(x, p)
  BY <1>2, PlanWrites DEF Known, Rest
<1>4. Completable(p, n)
  BY <1>1, <1>2
  DEF CompleteWrite, Guarded, Current, Known, Rest, Knowledge, Knows,
      VersionIsCurrent
<1>5. /\ plan[p].status = "ACTIVE" /\ stage[p][n] = "SCHEDULED"
      /\ \A s \in Stages : s < n => stage[p][s] = "COMPLETED"
  BY <1>4 DEF Completable
<1>6. \A s \in Stages : s > n => stage[p][s] # "COMPLETED"
  BY <1>5 DEF Known, Rest, Safe, StagesInOrder
<1>7. /\ plan'[p].pilot = plan[p].pilot /\ plan'[p].holder = plan[p].holder
      /\ plan'[p].status = IF n = StageCount THEN "COMPLETED" ELSE plan[p].status
  <2>1. plan'[p] = [Bumped(p) EXCEPT !.status =
                       IF n = StageCount THEN "COMPLETED" ELSE @]
    BY <1>2 DEF CompleteWrite, Known, Shape, TypeOK
  <2> QED BY <2>1, BumpedShape DEF Known
<1>8. \A s \in Stages :
          stage'[p][s] = "COMPLETED" <=> s = n \/ stage[p][s] = "COMPLETED"
  <2>1. stage'[p] = [s \in Stages |->
                        IF s = n THEN "COMPLETED"
                        ELSE IF s = n + 1 /\ op[x].next THEN "SCHEDULED"
                        ELSE stage[p][s]]
    BY <1>2 DEF CompleteWrite, Known, Shape, TypeOK
  <2>2. \A s \in Stages : s = n + 1 => s > n /\ s # n
    BY DEF Stages
  <2> QED BY <1>6, <2>1, <2>2
<1>9. Completed(p) = 1 .. n - 1
      /\ {s \in Stages : stage'[p][s] = "COMPLETED"} = 1 .. n
  <2>1. \A s \in Stages : s < n \/ s = n \/ s > n
    BY DEF Stages
  <2>2. \A s \in Stages : stage[p][s] = "COMPLETED" <=> s < n
    <3>1. \A s \in Stages : s < n => s # n /\ ~ (s > n)
      BY DEF Stages
    <3> QED BY <1>5, <1>6, <2>1, <3>1
  <2>3. Completed(p) = {s \in Stages : s < n}
    BY <2>2 DEF Completed
  <2>4. {s \in Stages : stage'[p][s] = "COMPLETED"} = {s \in Stages : s = n \/ s < n}
    BY <1>8, <2>2
  <2>5. {s \in Stages : s < n} = 1 .. n - 1
        /\ {s \in Stages : s = n \/ s < n} = 1 .. n
    BY Constants DEF Stages
  <2> QED BY <2>3, <2>4, <2>5
<1>10. PilotOfPlan' = PilotOfPlan /\ Holder' = Holder
  <2>1. [PilotOfPlan EXCEPT ![p] = plan[p].pilot] = PilotOfPlan
    BY DEF PilotOfPlan
  <2>2. [Holder EXCEPT ![p] = plan[p].holder] = Holder
    BY DEF Holder
  <2> QED BY <1>3, <1>7, <2>1, <2>2, WriteShows
<1>11. Status' = IF n = StageCount THEN [Status EXCEPT ![p] = "COMPLETED"] ELSE Status
  <2>1. [Status EXCEPT ![p] = plan[p].status] = Status
    BY DEF Status
  <2> QED BY <1>3, <1>7, <2>1, WriteShows
<1>12. Done[p] = 1 .. n - 1 /\ Done' = [Done EXCEPT ![p] = 1 .. n]
  BY <1>3, <1>9, WriteShows DEF Done
<1>13. Atomic!Advance(p)
  BY <1>3, <1>5, <1>10, <1>11, <1>12
  DEF Atomic!Advance, Status, PilotOfPlan, Holder, Done, Writes, Stages
<1> QED BY <1>13 DEF Atomic!Next

\* Nothing shows of the other steps.
LEMMA Stutters ==
    ASSUME plan' = plan, stage' = stage, assignment' = assignment
    PROVE  UNCHANGED Atomic!vars
BY DEF Atomic!vars, Completed

LEMMA EditRefines ==
    ASSUME Known, NEW x \in Actors, RescheduleWrite(x) \/ EditWrite(x)
    PROVE  UNCHANGED Atomic!vars
<1>1. PICK p \in Plans : p = op[x].plan
  BY DEF RescheduleWrite, EditWrite, At, Known, Shape, WellFormed, Versioned
<1>2. Writes(x, p)
  BY <1>1, PlanWrites DEF Known, Rest
<1>3. plan'[p] = Bumped(p) /\ stage' = stage /\ assignment' = assignment
  BY <1>1 DEF RescheduleWrite, EditWrite, Known, Shape, TypeOK
<1>4. /\ plan'[p].status = plan[p].status /\ plan'[p].pilot = plan[p].pilot
      /\ plan'[p].holder = plan[p].holder
  BY <1>3, BumpedShape DEF Known
<1>5. \A q \in Plans : /\ plan'[q].status = plan[q].status
                       /\ plan'[q].pilot = plan[q].pilot
                       /\ plan'[q].holder = plan[q].holder
  BY <1>2, <1>4 DEF Writes
<1> QED BY <1>3, <1>5 DEF Atomic!vars, Completed

LEMMA AssignmentRefines ==
    ASSUME Known,
           \/ \E x \in Actors : EndWrite(x)
           \/ \E a \in Assignments : AssignPosition(a) \/ DeletePosition(a)
    PROVE  Atomic!Next
<1>1. plan' = plan /\ stage' = stage
  BY DEF EndWrite, AssignPosition, DeletePosition
<1>2. Status' = Status /\ PilotOfPlan' = PilotOfPlan /\ Holder' = Holder /\ Done' = Done
  BY <1>1 DEF Status, PilotOfPlan, Holder, Done, Completed
<1>3. ASSUME NEW x \in Actors, EndWrite(x)
      PROVE  Atomic!Next
  <2>1. PICK a \in Assignments : a = op[x].holder
    BY <1>3 DEF EndWrite, At, Known, Shape, WellFormed
  <2>2. assignment[a] = "ACTIVE" /\ ~ InUse(a)
    BY <1>3, <2>1, Constants
    DEF EndWrite, At, Known, HoldersAreCurrent, HolderIsCurrent, Rest,
        Knowledge, Knows, ChecksHold
  <2>3. \A p \in Plans : Holder[p] = a => Status[p] \notin Atomic!Unfinished
    BY <2>2 DEF InUse, Holder, Status, Atomic!Unfinished, Atomic!Running,
                Unfinished, Running
  <2>4. Atomic!EndAssignment(a)
    BY <1>2, <1>3, <2>1, <2>2, <2>3
    DEF EndWrite, Atomic!EndAssignment, Atomic!Usable, Status, PilotOfPlan,
        Holder, Done
  <2> QED BY <2>4 DEF Atomic!Next
<1>4. ASSUME NEW a \in Assignments, AssignPosition(a)
      PROVE  Atomic!Next
  <2>1. Atomic!Assign(a)
    BY <1>2, <1>4
    DEF AssignPosition, Atomic!Assign, Status, PilotOfPlan, Holder, Done
  <2> QED BY <2>1 DEF Atomic!Next
<1>5. ASSUME NEW a \in Assignments, DeletePosition(a)
      PROVE  Atomic!Next
  <2>1. Atomic!DeleteAssignment(a)
    BY <1>2, <1>5
    DEF DeletePosition, Atomic!DeleteAssignment, Status, PilotOfPlan, Holder, Done
  <2> QED BY <2>1 DEF Atomic!Next
<1> QED BY <1>3, <1>4, <1>5

LEMMA NextRefines == Known /\ [Next]_vars => [Atomic!Next]_(Atomic!vars)
<1> SUFFICES ASSUME Known, [Next]_vars
             PROVE  Atomic!Next \/ UNCHANGED Atomic!vars
  OBVIOUS
<1>1. ASSUME NEW x \in Actors, Step(x)
      PROVE  Atomic!Next \/ UNCHANGED Atomic!vars
  <2>1. CASE CreateWrite(x) \/ LifecycleWrite(x) \/ ReassignWrite(x)
             \/ CompleteWrite(x) \/ EndWrite(x)
    BY <2>1, CreateRefines, LifecycleRefines, ReassignRefines,
       CompleteRefines, AssignmentRefines
  <2>2. CASE RescheduleWrite(x) \/ EditWrite(x)
    BY <2>2, EditRefines
  <2>3. CASE ~ \/ CreateWrite(x) \/ LifecycleWrite(x) \/ ReassignWrite(x)
               \/ CompleteWrite(x) \/ RescheduleWrite(x) \/ EditWrite(x)
               \/ EndWrite(x)
    BY <1>1, <2>3, Stutters
    DEF Step, CreateRead, LifecycleLockPlan, ReassignRead, ReassignPlan,
        ReassignShare, LockAssignment, Check, CompleteRead, RescheduleRead,
        EditRead, EndLock, EndCheck, Abandon, Rows
  <2> QED BY <2>1, <2>2, <2>3
<1>2. CASE UNCHANGED vars
  BY <1>2, Stutters DEF vars
<1> QED BY <1>1, <1>2, AssignmentRefines, NextIsSteps

LEMMA InitRefines == Init => Atomic!Init
<1> SUFFICES ASSUME Init
             PROVE  Atomic!Init
  OBVIOUS
<1>1. \A p \in Plans : plan[p] = Absent /\ \A s \in Stages : stage[p][s] = "NOT_STARTED"
  BY DEF Init
<1>2. \A p \in Plans : Completed(p) = {}
  BY <1>1 DEF Completed
<1> QED BY <1>1, <1>2 DEF Init, Absent, Atomic!Init

\* The handlers implement the life cycle: each request takes effect in one
\* step, on the plan and the assignment as they are at that moment.
THEOREM Refinement == Spec => RequestsAreAtomic
BY InitRefines, NextRefines, KnownHolds, PTL
   DEF Spec, RequestsAreAtomic, Atomic!Spec
=============================================================================
