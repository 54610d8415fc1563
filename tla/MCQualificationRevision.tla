---------------------- MODULE MCQualificationRevision ----------------------
(***************************************************************************)
(* Instance of QualificationRevision for TLC: one slot, four HTTP requests *)
(* in any order and overlap.  Identifiers are interchangeable, so their    *)
(* permutations are symmetries.                                            *)
(***************************************************************************)
EXTENDS QualificationRefinement, TLC

Identifiers ==
    Permutations(Handlers) \cup Permutations(RecordIds)
    \cup Permutations(RequestIds) \cup Permutations(Images)
    \cup Permutations(Contents)
=============================================================================
