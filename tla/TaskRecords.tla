---------------------------- MODULE TaskRecords ----------------------------
(***************************************************************************)
(* The rows the dispatcher, the workers and the reconcilers share, and the *)
(* SQL statements that change them, each as an operator from the row to    *)
(* the row it leaves.  A statement whose WHERE clause does not match       *)
(* leaves the row as it is.                                                *)
(*                                                                         *)
(*   task row   creator_run_tasks: status, claim_token, error_code and, for*)
(*              a row under cleanup, the marker saved in error_message     *)
(*   run row    creator_runs: current_stage and status                     *)
(*   quota      workspace_quota_reservation_owners and the provider        *)
(*              attempts recorded under the owner                          *)
(*                                                                         *)
(* Text, timestamps, costs and version numbers are left out.  A            *)
(* reservation is for one unit, as the script, plan, subtitle and render   *)
(* dispatches reserve.                                                     *)
(***************************************************************************)
EXTENDS Stages, Integers

CONSTANTS NoToken,     \* claim_token IS NULL
          MaxRetries   \* Celery's max_retries of the modelled tasks

ASSUME MaxRetriesAssumption == MaxRetries \in Nat

Attempts == 0 .. MaxRetries

-----------------------------------------------------------------------------
(* Task rows. *)

TaskStatuses == {"none", "pending", "queued", "running",
                 "success", "failed", "revoked", "rejected"}
ActiveStatuses == {"pending", "queued", "running"}

(* reconciler_pending_cleanup, reconciler_stuck_cleanup and                *)
(* broker_recovery_cleanup                                                 *)
CleanupMarkers == {"pending_cleanup", "stuck_cleanup", "recovery_cleanup"}
(* reconciler_rollback, stuck_running_timeout and broker_message_lost      *)
FinalCodes == {"reconciler_rollback", "stuck_running_timeout", "message_lost"}
(* cleanup_claimed is reconciler_cleanup_claimed; error stands for every   *)
(* code a worker or a rejection writes.                                    *)
ErrorCodes == {"none", "error", "cleanup_claimed"} \cup CleanupMarkers
                                                   \cup FinalCodes
(* A row with one of these is under cleanup. *)
BlockedCodes == CleanupMarkers \cup {"cleanup_claimed"}

NoRow == [kind |-> "none", status |-> "none", token |-> NoToken,
          code |-> "none", saved |-> "none", seq |-> 0]

PendingRow(kind, seq) ==
  [NoRow EXCEPT !.kind = kind, !.status = "pending", !.seq = seq]

(* Mutant: the promotion overtakes the worker. *)
PromotedBlindly(row) ==
  IF row.status = "none" THEN row ELSE [row EXCEPT !.status = "queued"]

PromotedToQueued(row) ==
  IF row.status = "pending" THEN [row EXCEPT !.status = "queued"] ELSE row

(* Mutant: the claim does not look at the status. *)
ClaimableInAnyStatus(row, seenToken) ==
  row.token = seenToken /\ row.code \notin BlockedCodes

(* Mutant: the claim does not look at the reconciler's codes. *)
ClaimableUnderCleanup(row, seenToken) ==
  row.token = seenToken /\ row.status \in {"pending", "queued", "failed"}

Claimable(row, seenToken) ==
  /\ row.token = seenToken
  /\ row.status \in {"pending", "queued", "failed"}
  /\ row.code \notin BlockedCodes
  /\ row.code # "message_lost"

Claimed(row, owner) ==
  [row EXCEPT !.status = "running", !.token = owner,
              !.code = "none", !.saved = "none"]

HoldsClaim(row, owner) == row.status = "running" /\ row.token = owner

FinishedIfClaimed(row, owner, status, code) ==
  IF HoldsClaim(row, owner)
  THEN [row EXCEPT !.status = status, !.token = NoToken, !.code = code]
  ELSE row

(* Mutant: a revocation does not spare a success. *)
MarkedRevokedAlways(row) ==
  IF row.status = "none" THEN row
  ELSE [row EXCEPT !.status = "revoked", !.code = "none", !.saved = "none"]

(* Keeps the token, drops the code, spares only a success. *)
MarkedRevoked(row) ==
  IF row.status \in {"none", "success"} THEN row
  ELSE [row EXCEPT !.status = "revoked", !.code = "none", !.saved = "none"]

(* Mutant: the marking does not look at the row again. *)
FailedAsListed(row) ==
  [row EXCEPT !.status = "failed", !.code = "pending_cleanup"]

FailedIfPending(row) ==
  IF row.status = "pending"
  THEN [row EXCEPT !.status = "failed", !.code = "pending_cleanup"] ELSE row

FailedIfRunning(row) ==
  IF row.status = "running"
  THEN [row EXCEPT !.status = "failed", !.code = "stuck_cleanup"] ELSE row

(* Mutant: a marked stuck row is not found. *)
CleanupClaimableIfPending(row) ==
  row.status = "failed" /\ row.code \in {"pending_cleanup", "cleanup_claimed"}

CleanupClaimable(row) == row.status = "failed" /\ row.code \in BlockedCodes

(* Mutant: a lease taken over saves the lease's own code as the marker. *)
CleanupClaimedResaving(row, lease) ==
  [row EXCEPT !.saved = row.code, !.code = "cleanup_claimed", !.token = lease]

CleanupClaimed(row, lease) ==
  [row EXCEPT !.saved = IF row.code = "cleanup_claimed" THEN @ ELSE row.code,
              !.code = "cleanup_claimed", !.token = lease]

HoldsLease(row, lease) ==
  row.code = "cleanup_claimed" /\ row.token = lease

CleanupFinished(row, lease, code) ==
  IF HoldsLease(row, lease)
  THEN [row EXCEPT !.code = code, !.saved = "none", !.token = NoToken]
  ELSE row

CleanupReleased(row, lease) ==
  IF HoldsLease(row, lease) /\ row.saved \in CleanupMarkers
  THEN [row EXCEPT !.code = row.saved, !.saved = "none", !.token = NoToken]
  ELSE row

-----------------------------------------------------------------------------
(* The run row. *)

AdvancedTo(stage) ==
  [stage |-> stage,
   status |-> IF stage \in ReviewStages THEN "paused" ELSE "running"]

(* Mutant: a cancelled run is advanced. *)
RunAdvancedThoughCancelled(r, kind) ==
  IF r.stage \in SafeStages[kind] THEN AdvancedTo(SuccessStage[kind]) ELSE r

(* Mutant: the stages a delivery may start in are taken for the safe ones. *)
RunAdvancedFromAllowed(r, kind) ==
  IF r.stage \in AllowedStages[kind] /\ r.status # "cancelled"
  THEN AdvancedTo(SuccessStage[kind]) ELSE r

RunAdvanced(r, kind) ==
  IF r.stage \in SafeStages[kind] /\ r.status # "cancelled"
  THEN AdvancedTo(SuccessStage[kind]) ELSE r

RunFailed(r, stages) ==
  IF r.stage \in stages /\ r.status \notin {"failed", "cancelled", "completed"}
  THEN [stage |-> "FAILED", status |-> "failed"]
  ELSE r

-----------------------------------------------------------------------------
(* Quota owners. *)

QuotaStatuses == {"none", "reserved", "consumed", "settled",
                  "billable_unknown", "cancelled"}
AttemptStates == {"none", "authorized", "accounted", "unknown"}

NoQuota == [status |-> "none", attempt |-> [k \in Attempts |-> "none"]]

Reserved(q) == [q EXCEPT !.status = "reserved"]

HasAttempt(q, state) == \E k \in Attempts : q.attempt[k] = state

QuotaCancelled(q) ==
  IF q.status = "reserved" THEN [q EXCEPT !.status = "cancelled"] ELSE q

(* Mutant: attempts whose outcome is unknown stay open. *)
QuotaSettledOpen(q, billableUnknown) ==
  IF q.status \in {"reserved", "consumed"} THEN [q EXCEPT !.status = "settled"]
  ELSE q

QuotaSettled(q, billableUnknown) ==
  IF \/ q.status \notin {"reserved", "consumed"}
     \/ /\ ~billableUnknown
        /\ q.status = "reserved"
        /\ ~HasAttempt(q, "accounted")
        /\ ~HasAttempt(q, "authorized")
  THEN q
  ELSE [status  |-> IF billableUnknown \/ HasAttempt(q, "authorized")
                    THEN "billable_unknown" ELSE "settled",
        attempt |-> [k \in Attempts |->
                       IF q.attempt[k] = "authorized" THEN "unknown"
                       ELSE q.attempt[k]]]

QuotaFinalized(q) ==
  IF HasAttempt(q, "authorized") \/ HasAttempt(q, "accounted")
  THEN QuotaSettled(q, FALSE) ELSE QuotaCancelled(q)

(* An attempt id that exists is accepted whatever became of its owner. *)
Authorizable(q, k) ==
  q.attempt[k] # "none" \/ q.status \in {"reserved", "consumed"}

Authorized(q, k) ==
  IF q.attempt[k] = "none" THEN [q EXCEPT !.attempt[k] = "authorized"] ELSE q

(* A task's usage event is unique, so a second record finds it and returns. *)
Recordable(q, k) ==
  /\ q.status # "cancelled"
  /\ HasAttempt(q, "accounted") \/ q.attempt[k] = "authorized"

Recorded(q, k) ==
  IF HasAttempt(q, "accounted") THEN q
  ELSE [status  |-> IF q.status = "reserved" THEN "consumed" ELSE q.status,
        attempt |-> [q.attempt EXCEPT ![k] = "accounted"]]

(* The quota step of a failed claim, by what the execution had billed. *)
QuotaAfterFailure(q, outcome) ==
  CASE outcome = "not_started" -> QuotaCancelled(q)
    [] outcome = "accounted"   -> QuotaSettled(q, FALSE)
    [] outcome = "unknown"     -> QuotaSettled(q, TRUE)

=============================================================================
