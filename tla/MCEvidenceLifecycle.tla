------------------------ MODULE MCEvidenceLifecycle ------------------------
(***************************************************************************)
(* Instance of EvidenceLifecycle for TLC: the processes of a kind are      *)
(* interchangeable.                                                        *)
(***************************************************************************)
EXTENDS EvidenceLifecycle, TLC

EvidenceSymmetry ==
    Permutations(Images) \cup Permutations(Cleaners)
      \cup Permutations(Optimisers) \cup Permutations(Reconcilers)
=============================================================================
