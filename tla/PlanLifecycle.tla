---------------------------- MODULE PlanLifecycle ----------------------------
(***************************************************************************)
(* What progression plans promise: each request takes effect at once, on   *)
(* the plan and the assignment as they are at that moment.                 *)
(***************************************************************************)
EXTENDS Integers

CONSTANTS Plans, Assignments, Pilots, PilotOf, StageCount, None

VARIABLES
    status,         \* of each plan
    pilot,
    holder,         \* the assignment a plan is about, if any
    done,           \* the stages that are completed
    assignment      \* the status of each assignment

vars == <<status, pilot, holder, done, assignment>>

Running == {"NOT_STARTED", "ACTIVE", "PAUSED"}

Unfinished == Running \cup {"DRAFT"}

\* No other plan of the pilot runs.
Free(p, i) ==
    \A q \in Plans \ {p} : pilot[q] = i => status[q] \notin Running

Usable(a) == assignment[a] = "ACTIVE"

Open(p, i, a, s) ==
    /\ status[p] = "ABSENT"
    /\ a # None => Usable(a) /\ PilotOf[a] = i
    /\ s = "ACTIVE" => Free(p, i)
    /\ status' = [status EXCEPT ![p] = s]
    /\ pilot' = [pilot EXCEPT ![p] = i]
    /\ holder' = [holder EXCEPT ![p] = a]
    /\ UNCHANGED <<done, assignment>>

Become(p, s) ==
    /\ status' = [status EXCEPT ![p] = s]
    /\ UNCHANGED <<pilot, holder, done, assignment>>

\* A start from DRAFT and a resumption ask for the assignment; the names of
\* pause and cancel say what they need.
Run(p) ==
    /\ status[p] \in {"DRAFT", "NOT_STARTED", "PAUSED"}
    /\ holder[p] # None /\ Usable(holder[p])
    /\ Free(p, pilot[p])
    /\ Become(p, "ACTIVE")

Pause(p) == status[p] = "ACTIVE" /\ Become(p, "PAUSED")

Cancel(p) == status[p] \in Unfinished /\ Become(p, "CANCELLED")

Move(p, a) ==
    /\ status[p] \in {"DRAFT", "NOT_STARTED"}
    /\ Usable(a)
    /\ status[p] = "NOT_STARTED" => Free(p, PilotOf[a])
    /\ holder' = [holder EXCEPT ![p] = a]
    /\ pilot' = [pilot EXCEPT ![p] = PilotOf[a]]
    /\ UNCHANGED <<status, done, assignment>>

\* The first stage that is not done; the plan is completed with the last.
Advance(p) ==
    /\ status[p] = "ACTIVE"
    /\ \E s \in 1 .. StageCount :
           /\ done[p] = 1 .. s - 1
           /\ done' = [done EXCEPT ![p] = 1 .. s]
           /\ status' = IF s = StageCount
                        THEN [status EXCEPT ![p] = "COMPLETED"] ELSE status
    /\ UNCHANGED <<pilot, holder, assignment>>

Assign(a) ==
    /\ assignment[a] = "ABSENT"
    /\ assignment' = [assignment EXCEPT ![a] = "ACTIVE"]
    /\ UNCHANGED <<status, pilot, holder, done>>

EndAssignment(a) ==
    /\ Usable(a)
    /\ \A p \in Plans : holder[p] = a => status[p] \notin Unfinished
    /\ assignment' = [assignment EXCEPT ![a] = "ENDED"]
    /\ UNCHANGED <<status, pilot, holder, done>>

DeleteAssignment(a) ==
    /\ assignment[a] \in {"ACTIVE", "ENDED"}
    /\ assignment' = [assignment EXCEPT ![a] = "DELETED"]
    /\ UNCHANGED <<status, pilot, holder, done>>

Init ==
    /\ status = [p \in Plans |-> "ABSENT"]
    /\ pilot = [p \in Plans |-> None]
    /\ holder = [p \in Plans |-> None]
    /\ done = [p \in Plans |-> {}]
    /\ assignment \in [Assignments -> {"ABSENT", "ACTIVE"}]

Next ==
    \/ \E p \in Plans :
        \/ \E i \in Pilots, a \in Assignments \cup {None},
             s \in {"DRAFT", "ACTIVE"} : Open(p, i, a, s)
        \/ Run(p) \/ Pause(p) \/ Cancel(p) \/ Advance(p)
        \/ \E a \in Assignments : Move(p, a)
    \/ \E a \in Assignments :
        Assign(a) \/ EndAssignment(a) \/ DeleteAssignment(a)

Spec == Init /\ [][Next]_vars
=============================================================================
