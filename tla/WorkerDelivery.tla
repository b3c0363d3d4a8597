--------------------------- MODULE WorkerDelivery ---------------------------
(***************************************************************************)
(* A delivery in a Celery worker: tasks/task_execution.py run_task around  *)
(* tasks/task_runner.py _run_task_inner, with the generation itself as in  *)
(* tasks/generate_script.py (authorize an attempt, call the provider,      *)
(* record the spend, save the output), which the visual plan and subtitle  *)
(* tasks share.  The text generated is left out.                           *)
(*                                                                         *)
(* wk[w] is worker process w: where it is in a delivery, the message it    *)
(* has (task and retry), the claim token it read before claiming, and what *)
(* its execution has billed.  The claim token is the delivery owner, which *)
(* names the process: w.  A message stays in the broker until it is acked  *)
(* (acks_late), so a lost worker's message is delivered again.             *)
(***************************************************************************)
EXTENDS PipelineStore

VARIABLE wk

(* Phases in which a live worker relies on a claim it has made. *)
ClaimPhases ==
  {"guard", "context", "execute", "calling", "finishing", "rejecting",
   "unrejected", "retrying", "failing", "context_failed", "inputerr"}

WorkerPhases == ClaimPhases \cup
  {"idle", "observed", "settling", "releasing", "signal", "requeue",
   "acking", "down"}

Outcomes == {"not_started", "unknown", "accounted"}

IdleWorker == [phase |-> "idle", task |-> NoToken, try |-> 0,
               seen |-> NoToken, outcome |-> "not_started"]

DownWorker == [IdleWorker EXCEPT !.phase = "down"]

WorkerRecords ==
  [phase : WorkerPhases, task : Tasks \cup {NoToken}, try : Attempts,
   seen : {NoToken} \cup Workers \cup Reconcilers, outcome : Outcomes]

WorkerTypeOK ==
  /\ wk \in [Workers -> WorkerRecords]
  /\ \A w \in Workers :
       /\ wk[w].phase \notin {"idle", "down"} => wk[w].task \in Tasks
       /\ wk[w].phase \in {"retrying", "requeue"} => wk[w].try < MaxRetries

WorkerInit == wk = [w \in Workers |-> IdleWorker]

Go(w, phase) == wk' = [wk EXCEPT ![w].phase = phase]

Message(w) == <<wk[w].task, wk[w].try>>

(* Some live worker has the message. *)
InFlight(m) == \E w \in Workers :
                 wk[w].phase \notin {"idle", "down"} /\ Message(w) = m

Deliverable(m) == InFlight(m) => "duplicate" \in Faults

(* The idempotency guard and the first half of record_task_start: both     *)
(* read the row; a success is skipped.                                     *)
Deliver(w, m) ==
  /\ wk[w].phase = "idle"
  /\ m \in broker /\ Deliverable(m)
  /\ wk' = [wk EXCEPT ![w] =
       [phase   |-> IF task[m[1]].status = "success"
                    THEN "settling" ELSE "observed",
        task    |-> m[1], try |-> m[2], seen |-> task[m[1]].token,
        outcome |-> "not_started"]]
  /\ UNCHANGED storeVars

(* Ignore raised before anything is read: Celery acks the message. *)
ShutdownDrop(w, m) ==
  /\ "shutdown" \in Faults
  /\ wk[w].phase = "idle"
  /\ m \in broker /\ Deliverable(m)
  /\ broker' = broker \ {m}
  /\ UNCHANGED <<run, task, quota, revoked, wk>>

(* claim_running; a lost claim is an idempotent skip, settled like a       *)
(* finished one.                                                           *)
Claim(w) ==
  /\ wk[w].phase = "observed"
  /\ LET t == wk[w].task IN
       IF Claimable(task[t], wk[w].seen)
       THEN task' = [task EXCEPT ![t] = Claimed(@, w)] /\ Go(w, "guard")
       ELSE Go(w, "settling") /\ UNCHANGED task
  /\ UNCHANGED <<run, quota, broker, revoked>>

StageGuard(w) ==
  /\ wk[w].phase = "guard"
  /\ Go(w, IF /\ run.stage \in AllowedStages[task[wk[w].task].kind]
              /\ run.status # "cancelled"
           THEN "context" ELSE "rejecting")
  /\ UNCHANGED storeVars

(* reservation_owner_id raises on a cancelled owner; readmit_owned refuses *)
(* one that is settled.                                                    *)
ResolveContext(w) ==
  /\ wk[w].phase = "context"
  /\ LET owner == quota[wk[w].task].status IN
       Go(w, CASE owner = "cancelled" -> "context_failed"
               [] owner \in {"settled", "billable_unknown"} -> "rejecting"
               [] OTHER -> "execute")
  /\ UNCHANGED storeVars

InputError(w) ==
  /\ wk[w].phase = "execute"
  /\ task[wk[w].task].kind \in InputErrorKinds
  /\ Go(w, "inputerr")
  /\ UNCHANGED storeVars

AuthorizeAttempt(w) ==
  /\ wk[w].phase = "execute"
  /\ LET t == wk[w].task IN
       IF Authorizable(quota[t], wk[w].try)
       THEN /\ quota' = [quota EXCEPT ![t] = Authorized(@, wk[w].try)]
            /\ wk' = [wk EXCEPT ![w].phase = "calling",
                                ![w].outcome = "unknown"]
       ELSE Go(w, "failing") /\ UNCHANGED quota
  /\ UNCHANGED <<run, task, broker, revoked>>

(* The provider answers and record_provider_call stores the spend.  The    *)
(* output is saved right after, under the task id as idempotency key.      *)
ProviderReturns(w) ==
  /\ wk[w].phase = "calling"
  /\ LET t == wk[w].task IN
       IF Recordable(quota[t], wk[w].try)
       THEN /\ quota' = [quota EXCEPT ![t] = Recorded(@, wk[w].try)]
            /\ wk' = [wk EXCEPT ![w].phase = "finishing",
                                ![w].outcome = "accounted"]
       ELSE Go(w, "failing") /\ UNCHANGED quota
  /\ UNCHANGED <<run, task, broker, revoked>>

ProviderFails(w) ==
  /\ "provider" \in Faults
  /\ wk[w].phase = "calling"
  /\ \/ Go(w, "failing")
     \/ wk[w].try < MaxRetries /\ Go(w, "retrying")
  /\ UNCHANGED storeVars

(* finish_claimed_run: the row and the run in one transaction. *)
Finish(w) ==
  /\ wk[w].phase = "finishing"
  /\ LET t == wk[w].task IN
       /\ run' = IF HoldsClaim(task[t], w)
                 THEN RunAdvanced(run, task[t].kind) ELSE run
       /\ task' = [task EXCEPT ![t] =
                     FinishedIfClaimed(@, w, "success", "none")]
  /\ Go(w, "settling")
  /\ UNCHANGED <<quota, broker, revoked>>

Settle(w) ==
  /\ wk[w].phase = "settling"
  /\ quota' = [quota EXCEPT ![wk[w].task] = QuotaSettled(@, FALSE)]
  /\ Go(w, "acking")
  /\ UNCHANGED <<run, task, broker, revoked>>

(* StageGuardError: mark_rejected_if_claimed, then cancel_owned. *)
Reject(w) ==
  /\ wk[w].phase = "rejecting"
  /\ task' = [task EXCEPT ![wk[w].task] =
                FinishedIfClaimed(@, w, "rejected", "error")]
  /\ Go(w, "releasing")
  /\ UNCHANGED <<run, quota, broker, revoked>>

(* Mutant: a rejected delivery keeps its reservation. *)
ReleaseNothing(w) ==
  /\ wk[w].phase \in {"releasing", "unrejected"}
  /\ Go(w, IF wk[w].phase = "unrejected" THEN "signal" ELSE "acking")
  /\ UNCHANGED storeVars

(* The error is raised on: task_failure ends a row whose rejection or      *)
(* failure could not be stored.                                            *)
Release(w) ==
  /\ wk[w].phase \in {"releasing", "unrejected"}
  /\ quota' = [quota EXCEPT ![wk[w].task] = QuotaCancelled(@)]
  /\ Go(w, IF wk[w].phase = "unrejected" THEN "signal" ELSE "acking")
  /\ UNCHANGED <<run, task, broker, revoked>>

(* fail_claimed_and_cancel_quota: row, run and quota in one transaction,   *)
(* all of it only while the claim holds.  An error in the context comes    *)
(* here like one of the execution.                                         *)
Fail(w) ==
  /\ wk[w].phase \in {"failing", "context_failed"}
  /\ LET t == wk[w].task IN
       IF HoldsClaim(task[t], w)
       THEN /\ run' = RunFailed(run, SafeStages[task[t].kind])
            /\ quota' = [quota EXCEPT ![t] =
                           QuotaAfterFailure(@, wk[w].outcome)]
            /\ task' = [task EXCEPT ![t] =
                          FinishedIfClaimed(@, w, "failed", "error")]
       ELSE UNCHANGED <<run, quota, task>>
  /\ Go(w, "acking")
  /\ UNCHANGED <<broker, revoked>>

(* TaskInputError leaves the run alone; nothing was billed yet. *)
FailInput(w) ==
  /\ wk[w].phase = "inputerr"
  /\ LET t == wk[w].task IN
       /\ task' = [task EXCEPT ![t] =
                     FinishedIfClaimed(@, w, "failed", "error")]
       /\ Go(w, IF HoldsClaim(task[t], w) THEN "releasing" ELSE "acking")
  /\ UNCHANGED <<run, quota, broker, revoked>>

(* A retryable failure: the row is left reclaimable, quota stays reserved. *)
MarkForRetry(w) ==
  /\ wk[w].phase = "retrying"
  /\ task' = [task EXCEPT ![wk[w].task] =
                FinishedIfClaimed(@, w, "failed", "error")]
  /\ Go(w, "requeue")
  /\ UNCHANGED <<run, quota, broker, revoked>>

(* autoretry_for publishes the next try; this one is acked after it. *)
Requeue(w) ==
  /\ wk[w].phase = "requeue"
  /\ broker' = broker \cup {<<wk[w].task, wk[w].try + 1>>}
  /\ Go(w, "acking")
  /\ UNCHANGED <<run, task, quota, revoked>>

Ack(w) ==
  /\ wk[w].phase = "acking"
  /\ broker' = broker \ {Message(w)}
  /\ wk' = [wk EXCEPT ![w] = IdleWorker]
  /\ UNCHANGED <<run, task, quota, revoked>>

-----------------------------------------------------------------------------
(* What Celery and the operating system do to a worker. *)

(* An exception is raised where the delivery is.  Before the claim it fails *)
(* a task that is not claimed, which leaves the row as it is; before the    *)
(* outcome is stored the task fails for it; in the bookkeeping it is logged *)
(* and the statement skipped, except that an unstored failure is stored     *)
(* again by the task_failure signal.                                        *)
Interrupted(w) ==
  /\ wk[w].phase \notin {"idle", "acking", "down"}
  /\ Go(w, CASE wk[w].phase \in {"failing", "context_failed", "unrejected"} -> "signal"
              [] wk[w].phase = "retrying" -> "requeue"
              [] wk[w].phase \in {"guard", "context"} -> "context_failed"
              [] wk[w].phase \in {"rejecting", "inputerr"} -> "unrejected"
              [] wk[w].phase \in {"releasing", "signal", "requeue"} -> "acking"
              [] OTHER -> "failing")
  /\ UNCHANGED storeVars

(* SoftTimeLimitExceeded is raised in the child wherever it is, before the  *)
(* claim (the message is acked, the row keeps waiting) and in the publish   *)
(* of a retry (which then rejects the message) too.                         *)
SoftTimeLimit(w) == "timeout" \in Faults /\ Interrupted(w)

(* A statement raises. *)
StatementFails(w) ==
  "db" \in Faults /\ wk[w].phase # "requeue" /\ Interrupted(w)

(* The parent acks and finalizes under the child's token, if the child has  *)
(* claimed; only then does it kill the child, which may have gone on.       *)
HardTimeLimit(w) ==
  /\ "timeout" \in Faults
  /\ w \in Mortal
  /\ wk[w].phase \notin {"idle", "down"}
  /\ Message(w) \in broker
  /\ LET t == wk[w].task IN
       IF HoldsClaim(task[t], w)
       THEN /\ run' = RunFailed(run, SafeStages[task[t].kind])
            /\ quota' = [quota EXCEPT ![t] = QuotaFinalized(@)]
            /\ task' = [task EXCEPT ![t] =
                          FinishedIfClaimed(@, w, "failed", "error")]
       ELSE UNCHANGED <<run, quota, task>>
  /\ broker' = broker \ {Message(w)}
  /\ UNCHANGED <<revoked, wk>>

WorkerLost(w) ==
  /\ \/ "worker" \in Faults
     \/ "timeout" \in Faults /\ Message(w) \notin broker
  /\ w \in Mortal
  /\ wk[w].phase \notin {"idle", "down"}
  /\ wk' = [wk EXCEPT ![w] = DownWorker]
  /\ UNCHANGED storeVars

(* A worker that knows of the revocation drops the message unexecuted. *)
DiscardRevoked(m) ==
  /\ m \in broker /\ ~InFlight(m)
  /\ m[1] \in revoked
  /\ broker' = broker \ {m}
  /\ quota' = [quota EXCEPT ![m[1]] = QuotaFinalized(@)]
  /\ UNCHANGED <<run, task, revoked, wk>>

(* terminate=True kills the process of a running task. *)
KillRevoked(w) ==
  /\ "terminate" \in Faults
  /\ w \in Mortal
  /\ wk[w].phase \notin {"idle", "down"}
  /\ wk[w].task \in revoked
  /\ broker' = broker \ {Message(w)}
  /\ quota' = [quota EXCEPT ![wk[w].task] = QuotaFinalized(@)]
  /\ wk' = [wk EXCEPT ![w] = DownWorker]
  /\ UNCHANGED <<run, task, revoked>>

(* handle_task_failure: row and quota, without the run. *)
FailBySignal(w) ==
  /\ wk[w].phase = "signal"
  /\ LET t == wk[w].task IN
       IF HoldsClaim(task[t], w)
       THEN /\ quota' = [quota EXCEPT ![t] = QuotaFinalized(@)]
            /\ task' = [task EXCEPT ![t] =
                          FinishedIfClaimed(@, w, "failed", "error")]
       ELSE UNCHANGED <<quota, task>>
  /\ Go(w, "acking")
  /\ UNCHANGED <<run, broker, revoked>>

DeliveryStep(w) ==
  \/ Claim(w) \/ StageGuard(w) \/ ResolveContext(w) \/ InputError(w)
  \/ AuthorizeAttempt(w) \/ ProviderReturns(w) \/ Finish(w)
  \/ Settle(w) \/ Reject(w) \/ Release(w) \/ Fail(w)
  \/ FailInput(w) \/ FailBySignal(w) \/ MarkForRetry(w) \/ Requeue(w)
  \/ Ack(w)

DeliveryFault(w) ==
  \/ ProviderFails(w) \/ SoftTimeLimit(w) \/ HardTimeLimit(w)
  \/ WorkerLost(w) \/ KillRevoked(w) \/ StatementFails(w)

WorkerNext ==
  \/ \E w \in Workers : \/ DeliveryStep(w)
                        \/ DeliveryFault(w)
                        \/ \E m \in broker : Deliver(w, m) \/ ShutdownDrop(w, m)
  \/ \E m \in broker : DiscardRevoked(m)

=============================================================================
