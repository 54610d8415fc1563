-------------------------------- MODULE Outbox --------------------------------
(***************************************************************************)
(* What the outbox promises of one notification.  It is open until it      *)
(* ends; only while it is open may the provider get a message for it.      *)
(* That may happen more than once, for an acceptance may be lost with the  *)
(* worker; the one that is recorded is the last of its cycle.              *)
(***************************************************************************)
EXTENDS Integers, Sequences

VARIABLES
    status,
    cycle,      \* how often an administrator reopened it
    accepted    \* the cycle of each message that the provider accepted

vars == <<status, cycle, accepted>>

Undelivered == {"FAILED", "UNKNOWN"}

Accept ==
    /\ status = "OPEN"
    /\ accepted' = Append(accepted, cycle)
    /\ UNCHANGED <<status, cycle>>

\* Every attempt was refused, or one was left without an answer.
GiveUp ==
    /\ status = "OPEN"
    /\ status' \in Undelivered
    /\ UNCHANGED <<cycle, accepted>>

\* The last message is of this cycle.
RecordAcceptance ==
    /\ status = "OPEN"
    /\ Len(accepted) > 0 /\ accepted[Len(accepted)] = cycle
    /\ status' = "PROVIDER_ACCEPTED"
    /\ UNCHANGED <<cycle, accepted>>

Confirm ==
    /\ status = "PROVIDER_ACCEPTED"
    /\ status' \in {"DELIVERED"} \cup Undelivered
    /\ UNCHANGED <<cycle, accepted>>

Reopen ==
    /\ status \in Undelivered
    /\ status' = "OPEN"
    /\ cycle' = cycle + 1
    /\ UNCHANGED accepted

Init == status = "OPEN" /\ cycle = 0 /\ accepted = <<>>

Next == Accept \/ GiveUp \/ RecordAcceptance \/ Confirm \/ Reopen

Spec == Init /\ [][Next]_vars
=============================================================================
