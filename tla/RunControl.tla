----------------------------- MODULE RunControl -----------------------------
(***************************************************************************)
(* What a user does to a run beside triggering generation: stop, resume,   *)
(* restart, go back and approve (creator_service/run_service.py and the    *)
(* routes of creator_runs_lifecycle.py and creator_runs_core.py).  Each    *)
(* run update compares the row's version, or its stage, in the statement   *)
(* that writes it, so a service call is one step or no step at all.        *)
(*                                                                         *)
(* Stop is one more actor: after stop_run commits, the route collects the  *)
(* active tasks, broadcasts their revocation, marks them revoked and       *)
(* finalizes their reservations.  stop is that request.                    *)
(***************************************************************************)
EXTENDS PipelineStore

VARIABLE stop

StopPhases == {"idle", "collect", "revoke", "mark", "finalize"}

IdleStop == [phase |-> "idle", ids |-> {}, left |-> {}]

StopTypeOK == stop \in [phase : StopPhases, ids : SUBSET Tasks,
                        left : SUBSET Tasks]

StopInit == stop = IdleStop

StopRun ==
  /\ stop.phase = "idle"
  /\ run.status # "cancelled"
  /\ run.stage \in GeneratingStages
  /\ run' = [stage |-> StageBeforeGenerating[run.stage],
             status |-> "cancelled"]
  /\ stop' = [stop EXCEPT !.phase = "collect"]
  /\ UNCHANGED <<task, quota, broker, revoked>>

CollectActive ==
  /\ stop.phase = "collect"
  /\ stop' = [phase |-> "revoke", ids |-> ActiveTasks, left |-> ActiveTasks]
  /\ UNCHANGED storeVars

(* A task whose revocation could not be broadcast is left out of the rest. *)
BroadcastFails(t) ==
  /\ "broker" \in Faults
  /\ stop.phase = "revoke" /\ t \in stop.left
  /\ stop' = [stop EXCEPT !.left = @ \ {t}, !.ids = @ \ {t}]
  /\ UNCHANGED storeVars

(* When one pass over the ids is done, the next begins with all of them. *)
NextPass(phase) ==
  stop' = IF phase = "idle" THEN IdleStop
          ELSE [stop EXCEPT !.phase = phase, !.left = stop.ids]

Handled(t) == stop' = [stop EXCEPT !.left = @ \ {t}]

BroadcastRevoke(t) ==
  /\ stop.phase = "revoke" /\ t \in stop.left
  /\ revoked' = revoked \cup {t}
  /\ Handled(t)
  /\ UNCHANGED <<run, task, quota, broker>>

MarkRevoked(t) ==
  /\ stop.phase = "mark" /\ t \in stop.left
  /\ task' = [task EXCEPT ![t] = MarkedRevoked(@)]
  /\ Handled(t)
  /\ UNCHANGED <<run, quota, broker, revoked>>

FinalizeRevoked(t) ==
  /\ stop.phase = "finalize" /\ t \in stop.left
  /\ quota' = [quota EXCEPT ![t] = QuotaFinalized(@)]
  /\ Handled(t)
  /\ UNCHANGED <<run, task, broker, revoked>>

NextStopPass ==
  /\ stop.phase \in {"revoke", "mark", "finalize"}
  /\ stop.left = {}
  /\ NextPass(CASE stop.phase = "revoke" -> "mark"
                [] stop.phase = "mark"   -> "finalize"
                [] OTHER                 -> "idle")
  /\ UNCHANGED storeVars

(* The API dies, or a statement raises and ends the revocation. *)
StopAborts ==
  /\ {"stop", "db"} \cap Faults # {}
  /\ stop.phase # "idle"
  /\ stop' = IdleStop
  /\ UNCHANGED storeVars

StopStep ==
  \/ CollectActive \/ NextStopPass
  \/ \E t \in Tasks : BroadcastRevoke(t) \/ MarkRevoked(t) \/ FinalizeRevoked(t)

-----------------------------------------------------------------------------

ResumeRun ==
  /\ run.status \in {"cancelled", "failed"}
  /\ run' = [run EXCEPT !.status = "running"]
  /\ UNCHANGED <<task, quota, broker, revoked, stop>>

(* Only the stage changes: the user still has to trigger the generation. *)
RestartRun(stage) ==
  /\ CanTransition(run.stage, stage)
  /\ run' = [run EXCEPT !.stage = stage]
  /\ UNCHANGED <<task, quota, broker, revoked, stop>>

GoBack ==
  /\ run.stage \in DOMAIN StageBack
  /\ run' = [run EXCEPT !.stage = StageBack[run.stage]]
  /\ UNCHANGED <<task, quota, broker, revoked, stop>>

(* approve_and_advance, its review row always written. *)
Approve ==
  /\ run.stage \in DOMAIN ApprovedStage
  /\ run.status # "cancelled"
  /\ run' = [run EXCEPT !.stage = ApprovedStage[run.stage]]
  /\ UNCHANGED <<task, quota, broker, revoked, stop>>

=============================================================================
