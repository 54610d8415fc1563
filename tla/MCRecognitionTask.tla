-------------------------- MODULE MCRecognitionTask --------------------------
(* Instances of RecognitionTask for TLC.                                   *)
EXTENDS RecognitionTask, TLC

HandlerSymmetry == Permutations(Handlers)
=============================================================================
