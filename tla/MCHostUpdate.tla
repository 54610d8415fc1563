----------------------------- MODULE MCHostUpdate -----------------------------
(* Instances of HostUpdate for TLC.                                        *)
EXTENDS HostUpdate, TLC

\* Two, so that one may wait for the lock while the other removes its marker.
ASSUME MaxUpdates >= 2
=============================================================================
