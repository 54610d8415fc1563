----------------------------- MODULE StageReminder -----------------------------
(***************************************************************************)
(* The reminders of a stage of a progression plan, on one channel: the     *)
(* daily scan, the deliveries it leaves in the outbox, and new dates.      *)
(*                                                                         *)
(* A delivery is one per planned date, by its key; how it is sent is the   *)
(* matter of NotificationDelivery.                                         *)
(***************************************************************************)
EXTENDS Integers, Sequences

CONSTANTS LastDay,      \* bound on the days, a natural number
          Ahead         \* how many days ahead the scan looks, another

Days == 0 .. LastDay

VARIABLES
    today,
    planned,        \* plannedStart of the stage
    former,         \* the days it was planned for before
    running,        \* the plan is ACTIVE or PAUSED, the stage not COMPLETED
    delivery,       \* NotificationDelivery, by the date in its key
    scan            \* where the reminder job is, and the date it read

vars == <<today, planned, former, running, delivery, scan>>

\* DATE_CHANGED: FAILED, for the reason that the planned date changed.
Statuses == {"none", "QUEUED", "SENT", "FAILED", "DATE_CHANGED"}

NoScan == [at |-> "idle", date |-> 0]

TypeOK ==
    /\ today \in Days /\ planned \in Days /\ former \subseteq Days
    /\ running \in BOOLEAN
    /\ delivery \in [Days -> Statuses]
    /\ scan \in [at: {"idle", "cancel", "emit"}, date: Days]

-----------------------------------------------------------------------------
\* The job runs every morning, and again when it failed.
Scan ==
    /\ scan = NoScan
    /\ running /\ planned - today \in 0 .. Ahead
    /\ scan' = [at |-> "cancel", date |-> planned]
    /\ UNCHANGED <<today, planned, former, running, delivery>>

\* The key that the scan gives the outbox, and the key of the delivery that
\* the outbox makes of it.
EventKey(date) == <<"stage", date>>

DedupeKey(date) == EventKey(date) \o <<"recipient", "channel">>

\* All queued deliveries of the stage but the one with the key of the event.
CancelFormer ==
    /\ scan.at = "cancel"
    /\ delivery' = [d \in Days |->
           IF delivery[d] = "QUEUED" /\ DedupeKey(d) # EventKey(scan.date)
           THEN "DATE_CHANGED" ELSE delivery[d]]
    /\ scan' = [scan EXCEPT !.at = "emit"]
    /\ UNCHANGED <<today, planned, former, running>>

\* A delivery whose key exists is not created again.
Emit ==
    /\ scan.at = "emit"
    /\ delivery' = IF delivery[scan.date] = "none"
                   THEN [delivery EXCEPT ![scan.date] = "QUEUED"]
                   ELSE delivery
    /\ scan' = NoScan
    /\ UNCHANGED <<today, planned, former, running>>

\* The job fails, here or at another stage, and the queue retries it.
Fail ==
    /\ scan # NoScan /\ scan' = NoScan
    /\ UNCHANGED <<today, planned, former, running, delivery>>

End(d, status) ==
    /\ delivery[d] = "QUEUED"
    /\ delivery' = [delivery EXCEPT ![d] = status]
    /\ UNCHANGED <<today, planned, former, running, scan>>

Reschedule(date) ==
    /\ date # planned
    /\ planned' = date /\ former' = former \cup {planned}
    /\ UNCHANGED <<today, running, delivery, scan>>

\* The stage is completed, or the plan ends.
Finish ==
    /\ running /\ running' = FALSE
    /\ UNCHANGED <<today, planned, former, delivery, scan>>

NextDay ==
    /\ today < LastDay /\ today' = today + 1
    /\ UNCHANGED <<planned, former, running, delivery, scan>>

Init ==
    /\ today = 0 /\ planned \in Days /\ former = {} /\ running = TRUE
    /\ delivery = [d \in Days |-> "none"]
    /\ scan = NoScan

Next ==
    \/ Scan \/ CancelFormer \/ Emit \/ Fail
    \/ \E d \in Days : End(d, "SENT") \/ End(d, "FAILED") \/ Reschedule(d)
    \/ Finish \/ NextDay

Spec == Init /\ [][Next]_vars

-----------------------------------------------------------------------------
(* Properties.                                                             *)

\* A reminder that was given up because the planned date changed is of a
\* date the stage was planned for before: what its recorded reason says.
ReasonIsTrue ==
    \A d \in Days : delivery[d] = "DATE_CHANGED" => d \in former
=============================================================================
