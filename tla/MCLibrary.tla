----------------------------- MODULE MCLibrary ------------------------------
(***************************************************************************)
(* The library on a small instance; uploads and requests are alike.        *)
(***************************************************************************)
EXTENDS MediaLibrary, TLC

Alike == Permutations(Uploads) \cup Permutations(Approvers)

=============================================================================
