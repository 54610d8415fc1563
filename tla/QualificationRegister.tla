----------------------- MODULE QualificationRegister -----------------------
(***************************************************************************)
(* What the handlers of QualificationRevision promise together: a slot is  *)
(* a register with a version number, written one step at a time, and the   *)
(* approval of a request is a compare-and-set on the version the request   *)
(* was submitted on.  No handler is ever seen half way.                    *)
(***************************************************************************)
EXTENDS Integers

CONSTANTS Slots, RequestIds, Contents, None

VARIABLES
    head,       \* the effective record of each slot: its version and fields
    register    \* submitted requests and what became of them

vars == <<head, register>>

Empty == [version |-> 0, content |-> None]

\* The base of a request is the version it was submitted on, or None if that
\* was never captured.
Entry(s, v, c, status) ==
    [slot |-> s, base |-> v, content |-> c, status |-> status]

Write(s, c) ==
    head' = [head EXCEPT ![s] = [version |-> @.version + 1, content |-> c]]

\* The base may already be out of date when the request is stored.
Submit(q, s, v, c) ==
    /\ q \notin DOMAIN register
    /\ v \in 0 .. head[s].version
    /\ \A p \in DOMAIN register :
          ~(register[p].slot = s /\ register[p].status = "PENDING")
    /\ register' = [x \in DOMAIN register \cup {q} |->
                      IF x = q THEN Entry(s, v, c, "PENDING") ELSE register[x]]
    /\ UNCHANGED head

Pending(q) == q \in DOMAIN register /\ register[q].status = "PENDING"

Correct(q, c) ==
    /\ Pending(q)
    /\ register' = [register EXCEPT ![q].content = c]
    /\ UNCHANGED head

Return(q) ==
    /\ Pending(q)
    /\ register' = [register EXCEPT ![q].status = "RETURNED"]
    /\ UNCHANGED head

\* The decision and the new version are one step, taken on the base only.
Approve(q) ==
    /\ Pending(q)
    /\ register[q].base = head[register[q].slot].version
    /\ register' = [register EXCEPT ![q].status = "APPROVED"]
    /\ Write(register[q].slot, register[q].content)

\* An administrator writes a slot without a request.
Direct(s, c) == Write(s, c) /\ UNCHANGED register

Init ==
    /\ head \in [Slots -> {Empty} \cup [version: Nat, content: Contents]]
    /\ \A q \in DOMAIN register : register[q].status = "PENDING"

Next ==
    \/ \E q \in RequestIds, s \in Slots, c \in Contents :
           \E v \in 0 .. head[s].version : Submit(q, s, v, c)
    \/ \E q \in RequestIds, c \in Contents : Correct(q, c)
    \/ \E q \in RequestIds : Return(q) \/ Approve(q)
    \/ \E s \in Slots, c \in Contents : Direct(s, c)

Spec == Init /\ [][Next]_vars
=============================================================================
