--------------------------- MODULE MCGalleryBackup ---------------------------
(* Instances of GalleryBackup for TLC.                                     *)
EXTENDS GalleryBackup, TLC

Symmetry == Permutations(Keys) \cup Permutations(Workers)
=============================================================================
