----------------------------- MODULE UpgradePlan -----------------------------
(***************************************************************************)
(* Progression plans: a plan of a pilot, its stages in their fixed order,  *)
(* and the position assignment the plan is about.                          *)
(*                                                                         *)
(* Administrators create, start, pause, resume, cancel, move and edit      *)
(* plans, complete and reschedule stages, end assignments and delete       *)
(* positions.  The handlers meet on two kinds of rows, plans and           *)
(* assignments; a lock is kept until the transaction ends.  A handler's    *)
(* steps are the statements that wait for a lock or read what it relies    *)
(* on later; its last step writes and commits.                             *)
(***************************************************************************)
EXTENDS Integers, FiniteSets, FiniteSetsExt

CONSTANTS
    Actors,         \* administrators' requests being served
    Plans,
    Assignments,    \* position assignments, each of a position of its own
    Pilots,
    PilotOf,        \* whose assignment it is
    StageCount,
    LastDay,        \* a stage is planned for a day of 1 .. LastDay
    Schedules,      \* the days that forms give for all stages
    MaxWrites,      \* bound on the writes of plans
    None

Stages == 1 .. StageCount

Days == 1 .. LastDay

Ordered(days) == \A s, t \in Stages : s < t => days[s] <= days[t]

ASSUME ConstantsAssumption ==
    /\ StageCount \in Nat \ {0}
    /\ MaxWrites \in Nat
    /\ LastDay \in Nat \ {0}
    /\ Schedules \subseteq {days \in [Stages -> Days] : Ordered(days)}
    /\ PilotOf \in [Assignments -> Pilots]
    /\ None \notin Actors \cup Plans \cup Assignments \cup Pilots
    /\ Plans \cap Assignments = {}

VARIABLES
    plan,           \* the rows of UpgradePlan
    stage,          \* the status of each stage
    planned,        \* the day each stage is planned for
    inspected,      \* the stages whose inspection items are completed
    assignment,     \* the status of each PersonPositionAssignment
    op,             \* the handlers
    held            \* the row locks of their transactions

vars == <<plan, stage, planned, inspected, assignment, op, held>>

\* One running plan per pilot; an unfinished one keeps its assignment in use.
Running == {"NOT_STARTED", "ACTIVE", "PAUSED"}

Unfinished == Running \cup {"DRAFT"}

Statuses == Unfinished \cup {"ABSENT", "COMPLETED", "CANCELLED"}

Plan == [status: Statuses, pilot: Pilots \cup {None},
         holder: Assignments \cup {None}, version: Nat]

StageStatuses == {"NOT_STARTED", "SCHEDULED", "COMPLETED"}

\* A deleted position leaves its assignments ended.
AssignmentStatuses == {"ABSENT", "ACTIVE", "ENDED", "DELETED"}

Kinds == {"none", "create", "start", "pause", "resume", "cancel", "reassign",
          "complete", "reschedule", "edit", "end"}

\* SELECT FOR UPDATE, an UPDATE, and the check of a foreign key to the row.
Modes == {"for_update", "update", "key_share"}

Op == [kind: Kinds,
       at: {"idle", "plan", "share", "assignment", "check", "write"},
       plan: Plans \cup {None}, holder: Assignments \cup {None},
       pilot: Pilots \cup {None},
       version: Nat,   \* of the plan, as read
       status: Statuses,            \* as read, or to be given to a new plan
       stage: 0 .. StageCount, day: 0 .. LastDay,
       next: BOOLEAN]               \* the next stage was not started

TypeOK ==
    /\ plan \in [Plans -> Plan]
    /\ stage \in [Plans -> [Stages -> StageStatuses]]
    /\ planned \in [Plans -> [Stages -> Days]]
    /\ inspected \in [Plans -> SUBSET Stages]
    /\ assignment \in [Assignments -> AssignmentStatuses]
    /\ op \in [Actors -> Op]
    /\ held \subseteq [by: Actors, row: Plans \cup Assignments, mode: Modes]

-----------------------------------------------------------------------------
(* Row locks.                                                              *)

Compatible(m, n) == {m, n} \in {{"key_share"}, {"key_share", "update"}}

\* The locks of others that keep x from locking the row.
Obstacles(x, row, mode) ==
    {l \in held : l.by # x /\ l.row = row /\ ~ Compatible(l.mode, mode)}

Lock(x, row, mode) ==
    /\ Obstacles(x, row, mode) = {}
    /\ held' = held \cup {[by |-> x, row |-> row, mode |-> mode]}

NoOp == [kind |-> "none", at |-> "idle", plan |-> None, holder |-> None,
         pilot |-> None, version |-> 0, status |-> "ABSENT", stage |-> 0,
         day |-> 0, next |-> FALSE]

\* The transaction ends, and with it its locks.
End(x) ==
    /\ op' = [op EXCEPT ![x] = NoOp]
    /\ held' = {l \in held : l.by # x}

Go(x, at) == op' = [op EXCEPT ![x].at = at]

Begin(x, o) == op[x] = NoOp /\ op' = [op EXCEPT ![x] = o]

At(x, kinds, at) == op[x].kind \in kinds /\ op[x].at = at

Rows == <<plan, stage, planned, inspected, assignment>>

\* A refusal, an error, a deadlock that the database breaks, a crash.
Abandon(x) == op[x] # NoOp /\ End(x) /\ UNCHANGED Rows

-----------------------------------------------------------------------------
(* Helpers of upgrade-plan-rules.ts.                                       *)

\* Another running plan of the pilot: looked for by every start, and rejected
\* by the partial unique index.
Conflict(p, pilot) ==
    \E q \in Plans \ {p} : plan[q].pilot = pilot /\ plan[q].status \in Running

\* The index admits a row with this status.
IndexAdmits(p, pilot, status) == status \in Running => ~ Conflict(p, pilot)

AllowedFrom(action) ==
    CASE action = "start" -> {"DRAFT", "NOT_STARTED"}
      [] action = "pause" -> {"ACTIVE"}
      [] action = "resume" -> {"PAUSED"}
      [] action = "cancel" -> Unfinished

\* Mutant: the action is written for the status it leads to.
BecomesItself(action) == action

Becomes(action) ==
    CASE action \in {"start", "resume"} -> "ACTIVE"
      [] action = "pause" -> "PAUSED"
      [] action = "cancel" -> "CANCELLED"

\* The versions count the writes.
Room == MapThenSumSet(LAMBDA p : plan[p].version, Plans) < MaxWrites

Bumped(p) == [plan[p] EXCEPT !.version = @ + 1]

\* The guard of an update: the version the handler read is still the plan's.
Current(x) == plan[op[x].plan].version = op[x].version

\* Where every step that needs the assignment's row waits for it.
LockAssignment(x) ==
    /\ op[x].at = "assignment"
    /\ Lock(x, op[x].holder, "for_update")
    /\ Go(x, "check")
    /\ UNCHANGED Rows

\* Mutant: the eligibility found before the transaction is relied on.
EligibleBefore(x) == TRUE

\* Read again under the lock; dates and qualifications may refuse as well.
Eligible(x) == op[x].holder # None => assignment[op[x].holder] = "ACTIVE"

\* The last reads of a creation, a start or a resumption.
Check(x) ==
    /\ At(x, {"create", "start", "resume"}, "check")
    /\ Eligible(x)
    /\ op[x].status = "ACTIVE" => ~ Conflict(op[x].plan, op[x].pilot)
    /\ Go(x, "write")
    /\ UNCHANGED <<Rows, held>>

-----------------------------------------------------------------------------
(* POST upgrade-plans.                                                     *)

\* A pilot without an active assignment gets a plan without one.
AssignmentsFor(i) ==
    LET active == {a \in Assignments : PilotOf[a] = i
                                       /\ assignment[a] = "ACTIVE"}
    IN  IF active = {} THEN {None} ELSE active

CreateRead(x, p, i, a, status) ==
    /\ plan[p].status = "ABSENT" /\ Room
    /\ \A y \in Actors : op[y].kind = "create" => op[y].plan # p
    /\ a \in AssignmentsFor(i)
    /\ status = "ACTIVE" => ~ Conflict(p, i)
    /\ Begin(x, [NoOp EXCEPT !.kind = "create", !.plan = p, !.pilot = i,
                             !.holder = a, !.status = status,
                             !.at = IF a = None THEN "check"
                                    ELSE "assignment"])
    /\ UNCHANGED <<Rows, held>>

CreateWrite(x) ==
    LET o == op[x]
    IN  /\ At(x, {"create"}, "write")
        /\ IndexAdmits(o.plan, o.pilot, o.status)
        /\ plan' = [plan EXCEPT ![o.plan] = [status |-> o.status,
                                             pilot |-> o.pilot,
                                             holder |-> o.holder,
                                             version |-> 1]]
        /\ stage' = IF o.status = "ACTIVE"
                    THEN [stage EXCEPT ![o.plan][1] = "SCHEDULED"]
                    ELSE stage
        /\ \E days \in Schedules :
               planned' = [planned EXCEPT ![o.plan] = days]
        /\ End(x)
        /\ UNCHANGED <<inspected, assignment>>

-----------------------------------------------------------------------------
(* POST upgrade-plans/[id]/[action].                                       *)

\* A handler that waits for the plan holds nothing yet, so the wait is no
\* step.  A plan made without an assignment is neither started nor resumed.
LifecycleLockPlan(x, p, action) ==
    LET row == plan[p]
    IN  /\ row.status \in AllowedFrom(action) /\ Room
        /\ action \in {"start", "resume"} => row.holder # None
        /\ Lock(x, p, "for_update")
        /\ Begin(x, IF action \in {"start", "resume"}
                    THEN [NoOp EXCEPT !.kind = action, !.plan = p,
                                      !.holder = row.holder,
                                      !.pilot = row.pilot,
                                      !.status = "ACTIVE",
                                      !.at = "assignment"]
                    ELSE [NoOp EXCEPT !.kind = action, !.plan = p,
                                      !.at = "write"])
        /\ UNCHANGED Rows

LifecycleWrite(x) ==
    LET o == op[x]
    IN  /\ At(x, {"start", "pause", "resume", "cancel"}, "write")
        /\ IndexAdmits(o.plan, plan[o.plan].pilot, Becomes(o.kind))
        /\ plan' = [plan EXCEPT ![o.plan] = [Bumped(o.plan) EXCEPT
                                                !.status = Becomes(o.kind)]]
        /\ stage' = IF o.kind = "start" /\ stage[o.plan][1] = "NOT_STARTED"
                    THEN [stage EXCEPT ![o.plan][1] = "SCHEDULED"]
                    ELSE stage
        /\ End(x)
        /\ UNCHANGED <<planned, inspected, assignment>>

-----------------------------------------------------------------------------
(* POST upgrade-plans/[id]/reassign.                                       *)

ReassignRead(x, p, a) ==
    /\ plan[p].status \in {"DRAFT", "NOT_STARTED"}
    /\ Room
    /\ assignment[a] = "ACTIVE"
    /\ Begin(x, [NoOp EXCEPT !.kind = "reassign", !.plan = p, !.holder = a,
                             !.version = plan[p].version,
                             !.status = plan[p].status, !.at = "plan"])
    /\ UNCHANGED <<Rows, held>>

\* The update comes first.  Its row is seen by others when it commits, but
\* the check of a new foreign key takes a lock at once.
ReassignPlan(x) ==
    LET o == op[x]
    IN  /\ At(x, {"reassign"}, "plan")
        /\ Lock(x, o.plan, "update")
        /\ Current(x) /\ plan[o.plan].status = o.status
        /\ IndexAdmits(o.plan, PilotOf[o.holder], o.status)
        /\ Go(x, IF o.holder = plan[o.plan].holder THEN "assignment"
                 ELSE "share")
        /\ UNCHANGED Rows

ReassignShare(x) ==
    /\ At(x, {"reassign"}, "share")
    /\ Lock(x, op[x].holder, "key_share")
    /\ Go(x, "assignment")
    /\ UNCHANGED Rows

ReassignWrite(x) ==
    LET o == op[x]
    IN  /\ At(x, {"reassign"}, "check")
        /\ Eligible(x)
        /\ plan' = [plan EXCEPT ![o.plan] = [Bumped(o.plan) EXCEPT
                                                !.holder = o.holder,
                                                !.pilot = PilotOf[o.holder]]]
        /\ End(x)
        /\ UNCHANGED <<stage, planned, inspected, assignment>>

-----------------------------------------------------------------------------
(* POST upgrade-plans/[id]/stages/[stageId]/[action].  The plan is read,   *)
(* and the action checked, before the transaction.                         *)

\* Mutant: any stage that is scheduled or not can be completed.
CompletableAny(p, s) ==
    plan[p].status = "ACTIVE" /\ stage[p][s] # "COMPLETED"

\* assertStageCanComplete
Completable(p, s) ==
    /\ plan[p].status = "ACTIVE"
    /\ stage[p][s] = "SCHEDULED"
    /\ \A t \in Stages : t < s => stage[p][t] = "COMPLETED"

CompleteRead(x, p, s) ==
    /\ Completable(p, s) /\ Room
    /\ Begin(x, [NoOp EXCEPT !.kind = "complete", !.plan = p, !.stage = s,
                             !.version = plan[p].version, !.at = "write",
                             !.next = s < StageCount
                                      /\ stage[p][s + 1] = "NOT_STARTED"])
    /\ UNCHANGED <<Rows, held>>

\* assertStageDates; nothing is asked of the status of plan or stage.
RescheduleRead(x, p, s, day) ==
    /\ plan[p].status # "ABSENT" /\ Room
    /\ planned[p][s] # day /\ Ordered([planned[p] EXCEPT ![s] = day])
    /\ Begin(x, [NoOp EXCEPT !.kind = "reschedule", !.plan = p, !.stage = s,
                             !.day = day, !.version = plan[p].version,
                             !.at = "write"])
    /\ UNCHANGED <<Rows, held>>

\* The guarded update of the plan, once its row is free.
Guarded(x) == Obstacles(x, op[x].plan, "update") = {} /\ Current(x)

CompleteWrite(x) ==
    LET o == op[x]
    IN  /\ At(x, {"complete"}, "write") /\ Guarded(x)
        /\ stage' = [stage EXCEPT ![o.plan] =
               [s \in Stages |->
                   IF s = o.stage THEN "COMPLETED"
                   ELSE IF s = o.stage + 1 /\ o.next THEN "SCHEDULED" ELSE @[s]]]
        /\ plan' = [plan EXCEPT ![o.plan] = [Bumped(o.plan) EXCEPT
               !.status = IF o.stage = StageCount THEN "COMPLETED" ELSE @]]
        /\ End(x)
        /\ inspected' = [inspected EXCEPT ![o.plan] = @ \cup {o.stage}]
        /\ UNCHANGED <<planned, assignment>>

\* Mutant: a new date leaves the version of the plan as it is.
RescheduleInPlace(x) ==
    LET o == op[x]
    IN  /\ At(x, {"reschedule"}, "write") /\ Guarded(x)
        /\ planned' = [planned EXCEPT ![o.plan][o.stage] = o.day]
        /\ End(x)
        /\ UNCHANGED <<plan, stage, inspected, assignment>>

RescheduleWrite(x) ==
    LET o == op[x]
    IN  /\ At(x, {"reschedule"}, "write") /\ Guarded(x)
        /\ planned' = [planned EXCEPT ![o.plan][o.stage] = o.day]
        /\ plan' = [plan EXCEPT ![o.plan] = Bumped(o.plan)]
        /\ End(x)
        /\ UNCHANGED <<stage, inspected, assignment>>

-----------------------------------------------------------------------------
(* PATCH upgrade-plans/[id].  An active plan keeps its dates; any other    *)
(* gets its inspection items anew, none of them completed.                 *)

EditRead(x, p) ==
    /\ plan[p].status \in Unfinished /\ Room
    /\ Begin(x, [NoOp EXCEPT !.kind = "edit", !.plan = p, !.at = "write",
                             !.version = plan[p].version,
                             !.status = plan[p].status])
    /\ UNCHANGED <<Rows, held>>

EditWrite(x) ==
    LET o == op[x]
    IN  /\ At(x, {"edit"}, "write") /\ Guarded(x)
        /\ plan[o.plan].status = o.status
        /\ plan' = [plan EXCEPT ![o.plan] = Bumped(o.plan)]
        /\ \/ o.status = "ACTIVE" /\ UNCHANGED <<planned, inspected>>
           \/ /\ o.status # "ACTIVE"
              /\ \E days \in Schedules :
                     planned' = [planned EXCEPT ![o.plan] = days]
              /\ inspected' = [inspected EXCEPT ![o.plan] = {}]
        /\ End(x)
        /\ UNCHANGED <<stage, assignment>>

-----------------------------------------------------------------------------
(* position-assignments.ts, and the forced deletion of a position.         *)

\* The former primary assignment stays active.
AssignPosition(a) ==
    /\ assignment[a] = "ABSENT"
    /\ assignment' = [assignment EXCEPT ![a] = "ACTIVE"]
    /\ UNCHANGED <<plan, stage, planned, inspected, op, held>>

InUse(a) ==
    \E p \in Plans : plan[p].holder = a /\ plan[p].status \in Unfinished

\* Mutant: the plans are looked at before the transaction, without the lock.
EndUnlocked(x, a) ==
    /\ assignment[a] = "ACTIVE" /\ ~ InUse(a)
    /\ Begin(x, [NoOp EXCEPT !.kind = "end", !.holder = a, !.at = "write"])
    /\ UNCHANGED <<Rows, held>>

EndLock(x, a) ==
    /\ assignment[a] = "ACTIVE"
    /\ Lock(x, a, "for_update")
    /\ Begin(x, [NoOp EXCEPT !.kind = "end", !.holder = a, !.at = "check"])
    /\ UNCHANGED Rows

\* Mutant: the end of an assignment locks the plans it looks at.
EndCheckLocking(x) ==
    /\ At(x, {"end"}, "check")
    /\ \E p \in Plans :
           /\ plan[p].holder = op[x].holder
           /\ op' = [op EXCEPT ![x].at = "plan", ![x].plan = p]
    /\ UNCHANGED <<Rows, held>>

EndCheck(x) ==
    /\ At(x, {"end"}, "check")
    /\ Eligible(x) /\ ~ InUse(op[x].holder)
    /\ Go(x, "write")
    /\ UNCHANGED <<Rows, held>>

EndWrite(x) ==
    /\ At(x, {"end"}, "write")
    /\ assignment' = [assignment EXCEPT ![op[x].holder] = "ENDED"]
    /\ End(x)
    /\ UNCHANGED <<plan, stage, planned, inspected>>

\* position.delete with force, by a super administrator: plans are counted,
\* and do not stop it.
DeletePosition(a) ==
    /\ assignment[a] \in {"ACTIVE", "ENDED"}
    /\ Obstacles(None, a, "update") = {}
    /\ assignment' = [assignment EXCEPT ![a] = "DELETED"]
    /\ UNCHANGED <<plan, stage, planned, inspected, op, held>>

-----------------------------------------------------------------------------
Absent == [status |-> "ABSENT", pilot |-> None, holder |-> None, version |-> 0]

Init ==
    /\ plan = [p \in Plans |-> Absent]
    /\ stage = [p \in Plans |-> [s \in Stages |-> "NOT_STARTED"]]
    /\ planned = [p \in Plans |-> [s \in Stages |-> 1]]
    /\ inspected = [p \in Plans |-> {}]
    /\ assignment \in [Assignments -> {"ABSENT", "ACTIVE"}]
    /\ op = [x \in Actors |-> NoOp]
    /\ held = {}

Next ==
    \/ \E x \in Actors :
        \/ \E p \in Plans, i \in Pilots, a \in Assignments \cup {None},
             status \in {"DRAFT", "ACTIVE"} : CreateRead(x, p, i, a, status)
        \/ CreateWrite(x)
        \/ \E p \in Plans, action \in {"start", "pause", "resume", "cancel"} :
               LifecycleLockPlan(x, p, action)
        \/ LifecycleWrite(x)
        \/ \E p \in Plans, a \in Assignments : ReassignRead(x, p, a)
        \/ ReassignPlan(x) \/ ReassignShare(x) \/ ReassignWrite(x)
        \/ LockAssignment(x) \/ Check(x)
        \/ \E p \in Plans, s \in Stages : CompleteRead(x, p, s)
        \/ CompleteWrite(x)
        \/ \E p \in Plans, s \in Stages, day \in Days :
               RescheduleRead(x, p, s, day)
        \/ RescheduleWrite(x)
        \/ \E p \in Plans : EditRead(x, p)
        \/ EditWrite(x)
        \/ \E a \in Assignments : EndLock(x, a)
        \/ EndCheck(x) \/ EndWrite(x)
        \/ Abandon(x)
    \/ \E a \in Assignments : AssignPosition(a) \/ DeletePosition(a)

Spec == Init /\ [][Next]_vars

-----------------------------------------------------------------------------
(* Properties.                                                             *)

\* An unfinished plan keeps its assignment in use: whatever is created,
\* started or moved while an assignment ends, no plan is left on one that
\* ended, unless its position was deleted by force.
PlansHoldAssignments ==
    \A p \in Plans :
        plan[p].status \in Unfinished /\ plan[p].holder # None
            => assignment[plan[p].holder] \in {"ACTIVE", "DELETED"}

\* A pilot has one running plan at most, though a start, a creation and a
\* move to the pilot may look for conflicts at the same time.
OneRunningPlan ==
    \A p, q \in Plans :
        /\ p # q
        /\ plan[p].status \in Running /\ plan[q].status \in Running
        => plan[p].pilot # plan[q].pilot

\* Stages are completed in their order, one is current while the plan is
\* active or paused, and the plan is completed with the last.  The inspection
\* items of a stage are completed with it, never before.
StagesInOrder ==
    \A p \in Plans :
        /\ \A s, t \in Stages :
               s < t /\ stage[p][t] # "NOT_STARTED" => stage[p][s] = "COMPLETED"
        /\ plan[p].status \in {"ACTIVE", "PAUSED"} =>
               \E s \in Stages : stage[p][s] = "SCHEDULED"
        /\ plan[p].status = "COMPLETED" <=> stage[p][StageCount] = "COMPLETED"
        /\ \A s \in inspected[p] : stage[p][s] = "COMPLETED"

\* Two reschedules, or a reschedule and an edit, do not together put the
\* stages out of the order that each of them checked.
DatesInOrder == \A p \in Plans : Ordered(planned[p])

Wanted(x) ==
    CASE op[x].at = "plan" ->
            {[row |-> op[x].plan,
              mode |-> IF op[x].kind = "reassign" THEN "update"
                       ELSE "for_update"]}
      [] op[x].at = "share" ->
            {[row |-> op[x].holder, mode |-> "key_share"]}
      [] op[x].at = "assignment" ->
            {[row |-> op[x].holder, mode |-> "for_update"]}
      [] OTHER -> {}

WaitsFor(x) ==
    {l.by : l \in UNION {Obstacles(x, w.row, w.mode) : w \in Wanted(x)}}

\* The handlers lock plans before assignments, so that they never wait for
\* each other in a circle.  The exception: two moves to one assignment both
\* hold the key share of their foreign key and want the row for themselves.
NoWaitCycle ==
    \A X \in SUBSET Actors :
        X # {} /\ (\A x \in X : WaitsFor(x) \cap X # {})
            => \E x, y \in X :
                   /\ x # y
                   /\ op[x].kind = "reassign" /\ op[y].kind = "reassign"
                   /\ op[x].holder = op[y].holder
=============================================================================
