----------------------------- MODULE MCPipeline -----------------------------
(***************************************************************************)
(* Model-checking instances of TaskPipeline: the .cfg files give the       *)
(* constants their values.                                                 *)
(***************************************************************************)
EXTENDS PipelineProperties, DocumentedClaims, TLC

(* Tasks are told apart by their dispatch alone.  Used only in runs that   *)
(* check invariants and action properties.                                 *)
TaskSymmetry == Permutations(Tasks)

=============================================================================
