---------------------------- MODULE MCUpgradePlan ----------------------------
(* Instances of UpgradePlan for TLC.                                       *)
EXTENDS PlanRefinement, TLC

\* All assignments are of one pilot.
OnePilot == [a \in Assignments |-> CHOOSE i \in Pilots : TRUE]

OneSchedule == {[s \in Stages |-> s]}

Symmetry ==
    Permutations(Actors) \cup Permutations(Plans) \cup Permutations(Assignments)
=============================================================================
