--------------------------- MODULE MCUploadQuota ---------------------------
(***************************************************************************)
(* Instance of UploadQuota for TLC: small limits, so that each of them can *)
(* be the one that refuses, and interchangeable uploads.                   *)
(***************************************************************************)
EXTENDS UploadQuota, TLC

UploadSymmetry == Permutations(Uploads)
=============================================================================
