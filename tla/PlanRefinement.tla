---------------------------- MODULE PlanRefinement ----------------------------
(***************************************************************************)
(* UpgradePlan implements PlanLifecycle: versions, locks and what the      *)
(* handlers remember are hidden.                                           *)
(***************************************************************************)
EXTENDS UpgradePlan

Completed(p) == {s \in Stages : stage[p][s] = "COMPLETED"}

Atomic ==
    INSTANCE PlanLifecycle
        WITH status <- [p \in Plans |-> plan[p].status],
             pilot <- [p \in Plans |-> plan[p].pilot],
             holder <- [p \in Plans |-> plan[p].holder],
             done <- [p \in Plans |-> Completed(p)]

\* Seen from outside, every request takes effect in one step: nothing starts,
\* resumes, moves or is completed on what its handler read and another one
\* has changed since.
RequestsAreAtomic == Atomic!Spec
=============================================================================
