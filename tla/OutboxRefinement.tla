--------------------------- MODULE OutboxRefinement ---------------------------
(***************************************************************************)
(* NotificationDelivery implements Outbox: jobs, handlers, attempts and    *)
(* times are hidden.                                                       *)
(***************************************************************************)
EXTENDS NotificationDelivery

Status ==
    IF delivery.status \in {"QUEUED", "SENDING"} THEN "OPEN"
    ELSE delivery.status

Accepted == [m \in DOMAIN message |-> message[m].cycle]

Promise ==
    INSTANCE Outbox
        WITH status <- Status,
             cycle <- delivery.cycle,
             accepted <- Accepted

\* Whatever jobs are repeated, given up or outlive their delivery, the
\* provider gets messages of an open delivery only, a recorded acceptance is
\* the last of its cycle, receipts confirm nothing but an acceptance, and what
\* ended is reopened by an administrator after a failure only.
OutboxIsKept == Promise!Spec
=============================================================================
