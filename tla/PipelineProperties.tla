------------------------- MODULE PipelineProperties -------------------------
(***************************************************************************)
(* The correctness properties of TaskPipeline.  Each says under which      *)
(* faults the code keeps it; a run checks it under those.                  *)
(***************************************************************************)
EXTENDS TaskPipeline

-----------------------------------------------------------------------------
(* Claims and leases. *)

(* A running row names the worker process that claimed it, and a row under *)
(* a cleanup lease is a failed one that remembers which marker it had:     *)
(* what release_reconciliation and the final code are computed from.  Only *)
(* a revocation may interrupt, and then the lease is void.                 *)
ClaimDiscipline ==
  \A t \in Tasks :
    /\ task[t].status = "running" =>
         task[t].token \in Workers /\ task[t].code = "none"
    /\ task[t].code \in BlockedCodes => task[t].status = "failed"
    /\ task[t].code = "cleanup_claimed" =>
         task[t].token \in Reconcilers /\ task[t].saved \in CleanupMarkers

Executing(w, t) ==
  wk[w].task = t /\ wk[w].phase \in {"guard", "context", "execute", "calling",
                                     "finishing"}

(* No two live workers are inside the execution of one task, whatever is   *)
(* redelivered or lost: claim_running lets one in.  Kept as long as live   *)
(* work is neither slow nor timed out, no statement fails and passes do    *)
(* not overlap: otherwise the row is reopened under a worker that is still *)
(* there, by the parent process, by a pass that listed the worker it had   *)
(* before, or by a pass that listed a row whose outcome was not stored and *)
(* that a retry has claimed since.                                         *)
OneExecutor ==
  \A v, w \in Workers : \A t \in Tasks :
    Executing(v, t) /\ Executing(w, t) => v = w

(* The lease of a cleanup is held by one pass at a time.  Kept however     *)
(* many passes overlap, as long as no cleanup is slow.                     *)
PassesExclude ==
  \A q, r \in Reconcilers :
    /\ q # r
    /\ rec[q].phase = "cleanup" /\ rec[r].phase = "cleanup"
    => rec[q].task # rec[r].task

(* A pass that is cleaning a row up is the only one, and nobody executes   *)
(* that task meanwhile (under the conditions of OneExecutor).              *)
CleanupIsExclusive ==
  /\ PassesExclude
  /\ \A r \in Reconcilers :
       rec[r].phase = "cleanup" => \A w \in Workers : ~Executing(w, rec[r].task)

-----------------------------------------------------------------------------
(* Outcomes. *)

(* A success is never taken back: not by a stop, a compensation, a stale   *)
(* listing of the reconciler or a duplicate delivery.                      *)
SuccessIsForever ==
  [][\A t \in Tasks : task[t].status = "success"
                        => task'[t].status = "success"]_vars

(* A cancelled run stays cancelled until a user resumes it: no worker and  *)
(* no reconciler that still has work of the run in hand revives or fails   *)
(* it.                                                                     *)
CancelledUntilResumed ==
  [][run.status = "cancelled" /\ run'.status # "cancelled"
       => /\ run' = [run EXCEPT !.status = "running"]
          /\ wk' = wk /\ rec' = rec]_vars

(* A reconciler pass never fails a run because of a task the user has      *)
(* since dispatched again, or that has succeeded since.                    *)
ReconcilerSparesNewer ==
  [][\A r \in Reconcilers :
       (rec'[r] # rec[r] /\ run' # run) => ~HasNewerTask(rec[r].task)]_vars

(* The claim of a delivery ends: finished, failed, revoked or timed out. *)
ClaimEnds(t) == task[t].status = "running" /\ task'[t].status # "running"

(* A result that comes late is dropped: however many deliveries ran at     *)
(* once, none moves or fails a run that is where the user decides, with    *)
(* one exception.  Narration is allowed to start and to end in the review  *)
(* of the assets, where a stop puts its run: under its claim, a delivery   *)
(* of narration takes a run out of there.  (A script is allowed the same   *)
(* in IDEA_READY, where nothing has been generated yet.)                   *)
LateResultsAreDropped ==
  [][run' # run /\ (wk' # wk \/ \E t \in Tasks : ClaimEnds(t))
       => \/ run.stage \notin ReviewStages
                               \cup {"VISUAL_PLAN_SETUP", "PUBLISHED"}
          \/ /\ run.stage = "VISUAL_ASSET_REVIEW"
             /\ \E t \in Tasks :
                  ClaimEnds(t) /\ task[t].kind = "generate_audio"]_vars

-----------------------------------------------------------------------------
(* Quota. *)

(* A row gets a final reconciler code only when its reservation is no      *)
(* longer held, although release and final code are different statements,  *)
(* each of which may fail, and other passes may take the lease over.       *)
FinalRowReleased ==
  \A t \in Tasks : task[t].code \in FinalCodes => quota[t].status # "reserved"

(* Spend that was accounted is never handed back, at most one attempt of a *)
(* task is accounted, and an owner that is settled has no attempt left     *)
(* whose cost is open, whatever mix of cancel, settle, finalize and record *)
(* the dispatcher, workers, reconcilers and revocations performed.         *)
SpendIsKept ==
  \A t \in Tasks :
    /\ quota[t].status \in {"none", "reserved", "cancelled"}
         => ~HasAttempt(quota[t], "accounted")
    /\ quota[t].status \in {"settled", "billable_unknown"}
         => ~HasAttempt(quota[t], "authorized")
    /\ \A j, k \in Attempts : quota[t].attempt[j] = "accounted"
                                /\ quota[t].attempt[k] = "accounted" => j = k

(* A stop that has not looked at the tasks yet, or has t in hand. *)
Stopping(t) == stop.phase = "collect" \/ t \in stop.ids

OnItsWay(t) ==
  \/ Messages(t) # {}
  \/ \E w \in Workers : wk[w].phase # "down" /\ wk[w].task = t

(* Somebody still has to release a reservation that is held: the request,  *)
(* a delivery, the reconciler that will find the row, or a stop.  Kept as  *)
(* long as no process dies; a process that dies between the statement that *)
(* ends a row and the one that releases its quota leaks the reservation.   *)
ReservationHasOwner ==
  \A t \in Tasks :
    quota[t].status = "reserved" =>
      \/ disp[t].phase \in InProgress
      \/ OnItsWay(t)
      \/ task[t].status \in {"pending", "running"}
      \/ task[t].code \in BlockedCodes
      \/ Stopping(t)

-----------------------------------------------------------------------------
(* Progress. *)

(* A queued row is never left without a message: no listing of the         *)
(* reconciler has queued rows (broker recovery does, when the broker was   *)
(* replaced), so such a task would wait for ever.  Kept without broker and *)
(* database failures, crashes of a stop, dropped deliveries and time       *)
(* limits.                                                                 *)
QueuedIsDeliverable ==
  \A t \in Tasks :
    task[t].status = "queued" =>
      OnItsWay(t) \/ disp[t].phase \in InProgress \/ Stopping(t)

(* A time limit has cut a delivery off outside its execution, and no       *)
(* message of the task is left.  Before the claim, it leaves a queued row; *)
(* before a retry is published or while a failure is stored, a failed one  *)
(* and the run where it is (handle_task_failure does not fail the run; a   *)
(* redelivery then rejects the row, whose quota is settled).  Without time *)
(* limits no queued row is left alone (QueuedIsDeliverable).               *)
CutOff(t) ==
  /\ "timeout" \in Faults
  /\ \/ task[t].status = "queued"
     \/ task[t].status \in {"failed", "rejected"} /\ task[t].code = "error"
  /\ disp[t].phase \notin InProgress
  /\ ~OnItsWay(t)

(* Every dispatched task comes to rest, delivered, reconciled or revoked,  *)
(* unless a time limit cut its delivery off before the claim.              *)
TasksSettle ==
  \A t \in Tasks : task[t].status \in ActiveStatuses
                     ~> task[t].status \notin ActiveStatuses \/ CutOff(t)

(* A run does not hang in a generating stage: the task that was to move it *)
(* on does, fails it, or a reconciler fails it.  It hangs only for a task  *)
(* whose delivery a time limit has cut off.                                *)
GenerationEnds ==
  run.stage \in GeneratingStages
    ~> run.stage \notin GeneratingStages \/ \E t \in Tasks : CutOff(t)

(* A cleanup once begun is ended, if its passes neither die nor fail for   *)
(* ever.                                                                   *)
CleanupEnds ==
  \A t \in Tasks : task[t].code \in BlockedCodes
                     ~> task[t].code \notin BlockedCodes

-----------------------------------------------------------------------------
(* Refinement: the rows implement TaskLife. *)

Life(row) == IF row.code \in BlockedCodes THEN "cleanup" ELSE row.status

TL == INSTANCE TaskLife WITH life <- [t \in Tasks |-> Life(task[t])]

(* The row of a task goes through the life TaskLife promises, whatever     *)
(* interleaving of requests, deliveries, reconcilers and stops wrote it.   *)
ImplementsTaskLife == TL!Spec

=============================================================================
