------------------------- MODULE DispatchReconciler -------------------------
(***************************************************************************)
(* The beat reconciler: creator_service/dispatch_reconciler.py reconcile,  *)
(* called by tasks/reconcile_stale_dispatches.py with an enqueue that      *)
(* always refuses.  A stale pending row and a stuck running row are first  *)
(* marked failed by a guarded update; the cleanup of a marked row (fail    *)
(* the run, release the quota) is done under a lease, and the row gets its *)
(* final code only when both steps succeeded.                              *)
(*                                                                         *)
(* rec[r] is one pass working on one row of its listing: a pass that holds *)
(* an old listing is one that waits between Find and its next step.  The   *)
(* lease token is fresh in the code; here it is r, since r has at most one *)
(* cleanup in hand.                                                        *)
(***************************************************************************)
EXTENDS PipelineStore, Sequences

VARIABLE rec

Rollback == "rollback"
CancelQuota == "cancel"

(* Mutant: phase 1 leaves the run alone. *)
PendingPlanSparingRun == <<CancelQuota>>

(* Phase 1 rolls the run back first, phase 2 releases the quota first. *)
PendingPlan == <<Rollback, CancelQuota>>
StuckPlan   == <<CancelQuota, Rollback>>

CleanupPlans == {PendingPlan, StuckPlan, <<Rollback>>, <<CancelQuota>>, <<>>}

RecPhases == {"idle", "mark_pending", "mark_stuck", "lease", "cleanup"}

IdleReconciler == [phase |-> "idle", task |-> NoToken, todo |-> <<>>,
                   ok |-> TRUE, final |-> "none"]

RecRecords ==
  [phase : RecPhases, task : Tasks \cup {NoToken}, todo : CleanupPlans,
   ok : BOOLEAN, final : {"none"} \cup FinalCodes]

RecTypeOK ==
  /\ rec \in [Reconcilers -> RecRecords]
  /\ \A r \in Reconcilers : rec[r].phase # "idle" => rec[r].task \in Tasks

RecInit == rec = [r \in Reconcilers |-> IdleReconciler]

StartAt(r, phase, t, plan, final) ==
  rec' = [rec EXCEPT ![r] = [phase |-> phase, task |-> t, todo |-> plan,
                             ok |-> TRUE, final |-> final]]

Forget(r) == rec' = [rec EXCEPT ![r] = IdleReconciler]

FinalCode(marker) ==
  CASE marker = "stuck_cleanup"    -> "stuck_running_timeout"
    [] marker = "recovery_cleanup" -> "message_lost"
    [] OTHER                       -> "reconciler_rollback"

(* list_stale_pending_tasks *)
FindStalePending(r, t) ==
  /\ rec[r].phase = "idle"
  /\ task[t].status = "pending"
  /\ StartAt(r, "mark_pending", t, PendingPlan, "reconciler_rollback")
  /\ UNCHANGED storeVars

(* list_reconciliation_pending_tasks: a marked row, or one whose lease has *)
(* expired.  Its final code is that of the marker the listing showed.      *)
FindUnfinishedCleanup(r, t) ==
  /\ rec[r].phase = "idle"
  /\ CleanupClaimable(task[t])
  /\ StartAt(r, "lease", t, PendingPlan,
             FinalCode(IF task[t].code = "cleanup_claimed"
                       THEN task[t].saved ELSE task[t].code))
  /\ UNCHANGED storeVars

(* Mutant: the wrong status is listed. *)
FindStuckQueued(r, t) ==
  /\ rec[r].phase = "idle"
  /\ task[t].status = "queued"
  /\ StartAt(r, "mark_stuck", t, StuckPlan, "stuck_running_timeout")
  /\ UNCHANGED storeVars

(* list_stuck_tasks *)
FindStuck(r, t) ==
  /\ rec[r].phase = "idle"
  /\ task[t].status = "running"
  /\ StartAt(r, "mark_stuck", t, StuckPlan, "stuck_running_timeout")
  /\ UNCHANGED storeVars

(* mark_failed_if_pending / mark_failed_if_running *)
Mark(r) ==
  /\ rec[r].phase \in {"mark_pending", "mark_stuck"}
  /\ LET t == rec[r].task
         pending == rec[r].phase = "mark_pending"
         matched == task[t].status = (IF pending THEN "pending" ELSE "running")
     IN /\ task' = [task EXCEPT ![t] = IF pending THEN FailedIfPending(@)
                                       ELSE FailedIfRunning(@)]
        /\ IF matched THEN rec' = [rec EXCEPT ![r].phase = "lease"]
           ELSE Forget(r)
  /\ UNCHANGED <<run, quota, broker, revoked>>

(* claim_reconciliation *)
TakeLease(r) ==
  /\ rec[r].phase = "lease"
  /\ LET t == rec[r].task IN
       IF CleanupClaimable(task[t])
       THEN /\ task' = [task EXCEPT ![t] = CleanupClaimed(@, r)]
            /\ rec' = [rec EXCEPT ![r].phase = "cleanup"]
       ELSE Forget(r) /\ UNCHANGED task
  /\ UNCHANGED <<run, quota, broker, revoked>>

(* Mutant: a newer dispatch is not looked for. *)
RunRolledBackAnyway(t) == RunFailed(run, RollbackStages)

(* rollback_run_if_task_owner *)
RunRolledBack(t) ==
  IF HasNewerTask(t) THEN run ELSE RunFailed(run, RollbackStages)

CleanupOne(r) ==
  /\ rec[r].phase = "cleanup"
  /\ rec[r].todo # <<>>
  /\ LET t == rec[r].task
         step == Head(rec[r].todo)
     IN /\ run' = IF step = Rollback THEN RunRolledBack(t) ELSE run
        /\ quota' = IF step = CancelQuota
                    THEN [quota EXCEPT ![t] = QuotaCancelled(@)] ELSE quota
  /\ rec' = [rec EXCEPT ![r].todo = Tail(@)]
  /\ UNCHANGED <<task, broker, revoked>>

(* A step raises: the pass goes on, but will release the row, not end it. *)
CleanupFails(r) ==
  /\ Faults \cap {"db", "cleanup"} # {}
  /\ rec[r].phase = "cleanup"
  /\ rec[r].todo # <<>>
  /\ rec' = [rec EXCEPT ![r].todo = Tail(@), ![r].ok = FALSE]
  /\ UNCHANGED storeVars

(* The final code cannot be written: the row is released instead. *)
FinishFails(r) ==
  /\ Faults \cap {"db", "cleanup"} # {}
  /\ rec[r].phase = "cleanup"
  /\ rec[r].todo = <<>> /\ rec[r].ok
  /\ rec' = [rec EXCEPT ![r].ok = FALSE]
  /\ UNCHANGED storeVars

(* finish_reconciliation, or release_reconciliation after a failed step. *)
EndCleanup(r) ==
  /\ rec[r].phase = "cleanup"
  /\ rec[r].todo = <<>>
  /\ LET t == rec[r].task IN
       task' = [task EXCEPT ![t] =
                  IF rec[r].ok THEN CleanupFinished(@, r, rec[r].final)
                  ELSE CleanupReleased(@, r)]
  /\ Forget(r)
  /\ UNCHANGED <<run, quota, broker, revoked>>

ReconcilerCrash(r) ==
  /\ "reconciler" \in Faults
  /\ rec[r].phase # "idle"
  /\ Forget(r)
  /\ UNCHANGED storeVars

ReconcilerFault(r) == CleanupFails(r) \/ FinishFails(r) \/ ReconcilerCrash(r)

=============================================================================
