-------------------------- MODULE DocumentedClaims --------------------------
(***************************************************************************)
(* What a comment of the repository says of the task pipeline and the code *)
(* does not do; the README tells the counterexample.                       *)
(***************************************************************************)
EXTENDS TaskPipeline

(* reconcile_stale_dispatches.py:27-31: the reconciler fails a run only    *)
(* when "it hasn't progressed past the point where the stale task was      *)
(* supposed to execute".  The stages it accepts are those of every kind,   *)
(* so the row a failed publish left pending fails a run that has moved on. *)
ReconcilerSparesProgress ==
  [][\A r \in Reconcilers :
       rec'[r] # rec[r] /\ run' # run
         => LET kind == task[rec[r].task].kind
            IN  run.stage \in TriggerStages[kind] \cup {TargetStage[kind]}]_vars
=============================================================================
