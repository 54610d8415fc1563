---------------------- MODULE QualificationRefinement ----------------------
(***************************************************************************)
(* QualificationRevision implements QualificationRegister: the effective   *)
(* record is the register, and what the handlers remember is hidden.       *)
(***************************************************************************)
EXTENDS QualificationRevision

HeadOf(s) ==
    IF ActiveIn(s) = {} THEN [version |-> 0, content |-> None]
    ELSE LET r == CHOOSE x \in ActiveIn(s) : TRUE
         IN  [version |-> records[r].version, content |-> records[r].content]

EntryOf(q) ==
    [slot |-> requests[q].slot,
     base |-> IF requests[q].captured THEN requests[q].base.version ELSE None,
     content |-> requests[q].content,
     status |-> requests[q].status]

Register ==
    INSTANCE QualificationRegister
        WITH head <- [s \in Slots |-> HeadOf(s)],
             register <- [q \in DOMAIN requests |-> EntryOf(q)]

\* Seen from outside, every handler takes effect in one step: approvals are
\* compare-and-set on the captured version, and nothing a handler had read
\* before it was overtaken ever reaches a slot.
HandlersAreAtomic == Register!Spec
=============================================================================
