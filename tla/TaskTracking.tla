---------------------------- MODULE TaskTracking ----------------------------
(***************************************************************************)
(* The rows of creator_run_tasks with the columns TaskRecords leaves out:  *)
(* the clocks the reconciler's listings compare, attempts and the broker   *)
(* generation.  The statements exist twice, in Postgres, which drives the  *)
(* state, and in the dictionaries of InMemoryTaskTrackingStorage, which    *)
(* the tests of the pipeline run on; t is the twin that answers.           *)
(***************************************************************************)
EXTENDS Integers, FiniteSets

CONSTANTS
  Claims,      \* claim tokens of workers
  Leases,      \* claim tokens of passes
  LastGeneration, \* bound: generations of the broker, counted from 1
  MaxAttempt   \* bound: attempts counted in a row

VARIABLES
  tracked, \* the row of the task, and what the statements read beside it
  listed   \* the listing the row was found in

trackingVars == <<tracked, listed>>

None == "none"
Generations == 1 .. LastGeneration
ActiveRow == {"pending", "queued", "running"}
Markers == {"pending_cleanup", "stuck_cleanup", "recovery_cleanup"}
Untouchable == Markers \cup {"cleanup_claimed", "message_lost"}
Generating == "SCRIPT_GENERATING"

NoTask == [status |-> None, attempt |-> 0, token |-> None, code |-> None, message |-> None,
           created |-> None, started |-> None, finished |-> None, gen |-> 0]
\* newer: a row of the same kind was dispatched for the run after this one.
TrackingInit ==
  /\ \E first \in {<<"running", TRUE>>, <<"running", FALSE>>, <<"cancelled", FALSE>>} :
       tracked = [row |-> NoTask, newer |-> first[2], epoch |-> 0, dirty |-> {},
                  run |-> [stage |-> "IDEA_READY", status |-> first[1]]]
  /\ listed = None

Does(yes, s) == [yes |-> yes, s |-> s]
Sets(s, row) == Does(TRUE, [s EXCEPT !.row = row])
Misses(s) == Does(FALSE, s)
When(guard, s, row) == IF guard THEN Sets(s, row) ELSE Misses(s)

(* The upsert.  Postgres counts an attempt when a failed row is queued     *)
(* again, the double whenever a row is.                                    *)
Upserted(t, r, status, token, gen) ==
  [r EXCEPT !.status = status,
            !.gen = IF gen = 0 THEN @ ELSE gen,
            !.attempt = IF status = "queued" /\ (t = "memory" \/ r.status = "failed")
                        THEN @ + 1 ELSE @,
            !.token = CASE status = "running" -> token [] status = "queued" -> None [] OTHER -> @,
            !.started = CASE status = "running" -> "fresh" [] status = "queued" -> None [] OTHER -> @,
            !.finished = IF status = "pending" THEN @ ELSE None,
            !.code = IF status = "pending" THEN @ ELSE None,
            !.message = IF status = "pending" THEN @ ELSE None]
CreateTask(t, s, status, token, gen) ==
  LET r == s.row
      new == [NoTask EXCEPT !.status = status, !.attempt = 1, !.token = token, !.gen = gen,
                            !.created = "fresh",
                            !.started = IF status = "running" THEN "fresh" ELSE None]
  IN  IF r.status = None THEN Sets(s, new)
      ELSE When(r.status \notin {"success", "running"} /\ r.code \notin Untouchable, s,
                Upserted(t, r, status, token, gen))

(* The run's stage and the pending row in one transaction.  A row that     *)
(* exists makes Postgres take both back; the double overwrites it.         *)
TransitionAndCreate(t, s, gen) ==
  LET moved == [s EXCEPT !.run.stage = Generating]
  IN  IF s.run.status = "cancelled" THEN Misses(s)
      ELSE IF t = "postgres" /\ s.row.status # None THEN Misses(s)
      ELSE LET made == CreateTask(t, moved, "pending", None, gen)
           IN  IF made.yes THEN made ELSE Misses(s)

Timed(r, status) ==
  IF status = "running" THEN [r EXCEPT !.started = "fresh"] ELSE [r EXCEPT !.finished = "fresh"]
Stamped(r, status, code, message) ==
  Timed([r EXCEPT !.status = status, !.code = code, !.message = message], status)
\* The double refuses running on running.
UpdateStatus(t, s, status, code) ==
  When(/\ s.row.status \notin {None, "success"}
       /\ t = "memory" => ~(status = "running" /\ s.row.status = "running"),
       s, Stamped(s.row, status, code, code))
UpdateIf(s, found, status, code) ==
  When(s.row.status = found, s, Stamped(s.row, status, code, code))
UpdateIfActive(s, code) ==
  When(s.row.status \in ActiveRow, s,
       [Stamped(s.row, "failed", code, code) EXCEPT !.token = None])

ClaimRunning(s, seen, token) ==
  When(/\ s.row.status \in {"pending", "queued", "failed"} /\ s.row.token = seen
       /\ s.row.code \notin Untouchable,
       s, [s.row EXCEPT !.status = "running", !.token = token, !.started = "fresh",
                        !.finished = None, !.code = None, !.message = None])
Owns(s, token) == s.row.status = "running" /\ s.row.token = token
Ended(r, status, code) == [Stamped(r, status, code, code) EXCEPT !.token = None]
FinishIfClaimed(s, token, status, code) ==
  When(Owns(s, token), s, Ended(s.row, status, code))
\* The row ends although the run refuses to move.
FinishClaimedRun(s, token) ==
  LET moves == s.run.stage = Generating /\ s.run.status # "cancelled"
  IN  IF ~Owns(s, token) THEN Misses(s)
      ELSE Does(moves, [s EXCEPT !.row = Ended(@, "success", None),
                                 !.run.stage = IF moves THEN "SCRIPT_REVIEW" ELSE @])
RunFails(s) ==
  IF s.run.stage = Generating /\ s.run.status \notin {"failed", "cancelled", "completed"}
  THEN [s EXCEPT !.run = [stage |-> "FAILED", status |-> "failed"]] ELSE s
FailClaimed(s, token) ==
  IF Owns(s, token) THEN Sets(RunFails(s), Ended(s.row, "failed", "error")) ELSE Misses(s)

ClaimReconciliation(s, lease) ==
  When(/\ s.row.status = "failed"
       /\ \/ s.row.code \in Markers
          \/ s.row.code = "cleanup_claimed" /\ s.row.finished = "old",
       s, [s.row EXCEPT !.message = IF s.row.code = "cleanup_claimed" THEN @ ELSE s.row.code,
                        !.code = "cleanup_claimed", !.token = lease, !.finished = "fresh"])
Leased(s, lease) == s.row.code = "cleanup_claimed" /\ s.row.token = lease
FinishReconciliation(s, lease) ==
  When(Leased(s, lease), s,
       [s.row EXCEPT !.code = "rollback", !.message = "rollback", !.token = None])
ReleaseReconciliation(s, lease) ==
  When(Leased(s, lease) /\ s.row.message \in Markers, s,
       [s.row EXCEPT !.code = s.row.message, !.message = "retry", !.token = None])
RollbackIfOwner(s) ==
  IF s.row.status # None /\ ~s.newer THEN Does(RunFails(s) # s, RunFails(s)) ELSE Misses(s)

SetEpoch(s, epoch, seen, active) ==
  LET adopted == [s EXCEPT !.epoch = epoch,
                           !.row.gen = IF @ = 0 /\ s.row.status \in ActiveRow THEN epoch ELSE @]
  IN  IF s.epoch # seen THEN Misses(s)
      ELSE IF seen = 0 THEN Does(TRUE, adopted)
      ELSE Does(TRUE, [s EXCEPT !.epoch = epoch,
                 !.dirty = IF epoch = seen THEN @ ELSE @ \cup ((active \cup {seen}) \ {epoch})])
\* Postgres says whether the generation was there, the double whether it is gone.
CompleteCleanup(t, s, gen) ==
  IF s.row.gen = gen /\ s.row.status \in ActiveRow THEN Misses(s)
  ELSE Does(t = "memory" \/ gen \in s.dirty, [s EXCEPT !.dirty = @ \ {gen}])
Promote(s) == When(s.row.status = "pending", s, [s.row EXCEPT !.status = "queued"])

(* The listings. *)
Stuck(r) == r.status = "running" /\ r.started = "old"
StalePending(r) == r.status = "pending" /\ r.created = "old"
ReconciliationPending(r) ==
  r.status = "failed" /\ (r.code \in Markers \/ (r.code = "cleanup_claimed" /\ r.finished = "old"))
Recoverable(r) == r.status \in ActiveRow

Goes(answer) == tracked' = answer.s /\ UNCHANGED listed

(* TaskTrackingService: what the dispatcher, the workers, the passes and   *)
(* the administration call.                                                *)
RecordTransition == \E g \in {0} \cup Generations : Goes(TransitionAndCreate("postgres", tracked, g))
RecordPending == \E g \in Generations : Goes(CreateTask("postgres", tracked, "pending", None, g))
PromoteToQueued == Goes(Promote(tracked))
RecordQueued ==
  tracked.row.attempt < MaxAttempt /\ Goes(CreateTask("postgres", tracked, "queued", None, 0))
\* The row is read, and claimed by the token that was read.
RecordStart ==
  \E c \in Claims :
    IF tracked.row.status = None THEN Goes(CreateTask("postgres", tracked, "running", c, 0))
    ELSE Goes(ClaimRunning(tracked, tracked.row.token, c))
EndClaimed ==
  \E c \in Claims : \/ Goes(FinishIfClaimed(tracked, c, "success", None))
                    \/ Goes(FinishIfClaimed(tracked, c, "failed", "error"))
                    \/ Goes(FinishIfClaimed(tracked, c, "rejected", "rejected"))
                    \/ Goes(FinishClaimedRun(tracked, c))
                    \/ Goes(FailClaimed(tracked, c))
Mark == \E status \in {"running", "success", "failed", "revoked", "rejected"} :
          Goes(UpdateStatus("postgres", tracked, status,
                            CASE status = "failed" -> "error" [] status = "rejected" -> "rejected"
                              [] OTHER -> None))
ReadListing ==
  /\ \/ StalePending(tracked.row) /\ listed' = "stale"
     \/ Stuck(tracked.row) /\ listed' = "stuck"
     \/ Recoverable(tracked.row) /\ listed' = "lost"
  /\ UNCHANGED tracked
MarkListed ==
  \/ listed = "stale" /\ Goes(UpdateIf(tracked, "pending", "failed", "pending_cleanup"))
  \/ listed = "stuck" /\ Goes(UpdateIf(tracked, "running", "failed", "stuck_cleanup"))
  \/ listed = "lost" /\ Goes(UpdateIfActive(tracked, "recovery_cleanup"))
CleanListed ==
  \E l \in Leases : \/ Goes(ClaimReconciliation(tracked, l))
                    \/ Goes(FinishReconciliation(tracked, l))
                    \/ Goes(ReleaseReconciliation(tracked, l))
RollbackRun == Goes(RollbackIfOwner(tracked))
ObserveEpoch ==
  \E g \in Generations :
    /\ g >= tracked.epoch
    /\ Goes(SetEpoch(tracked, g, tracked.epoch,
                     IF Recoverable(tracked.row) THEN {tracked.row.gen} \ {0} ELSE {}))
CleanGeneration == \E g \in Generations : Goes(CompleteCleanup("postgres", tracked, g))
TimePasses ==
  LET Older(age) == IF age = "fresh" THEN "old" ELSE age
  IN  /\ tracked' = [tracked EXCEPT !.row.created = Older(@), !.row.started = Older(@),
                                    !.row.finished = Older(@)]
      /\ UNCHANGED listed

TrackingNext ==
  \/ RecordTransition \/ RecordPending \/ PromoteToQueued \/ RecordQueued \/ RecordStart
  \/ EndClaimed \/ Mark \/ ReadListing \/ MarkListed \/ CleanListed \/ RollbackRun
  \/ ObserveEpoch \/ CleanGeneration \/ TimePasses

\* A row nobody has ended for good is found once its clock has run: pending
\* and running rows by their timestamps, a cleanup by its marker or its
\* lease (task_tracking_service.py, find_*).
UnfinishedIsFound ==
  LET old(r) == [r EXCEPT !.created = "old",
                          !.started = IF @ = None THEN @ ELSE "old",
                          !.finished = IF @ = None THEN @ ELSE "old"]
      r == tracked.row
  IN  /\ r.status = "pending" => StalePending(old(r))
      /\ r.status = "running" => Stuck(old(r))
      /\ r.status = "failed" /\ r.code \in Markers \cup {"cleanup_claimed"} =>
           /\ ReconciliationPending(old(r))
           /\ r.code = "cleanup_claimed" => r.message \in Markers

SameAnswer(Op(_)) == Op("postgres") = Op("memory")

\* The double leaves the row Postgres leaves, except for attempts counted
\* when a row that has not failed is queued again, and for a pending row
\* that exists (task ids are fresh).
TrackingTwinsAgree ==
  /\ \A g \in Generations :
       /\ tracked.row.status = None => SameAnswer(LAMBDA t : TransitionAndCreate(t, tracked, g))
       /\ SameAnswer(LAMBDA t : CreateTask(t, tracked, "pending", None, g))
       /\ SameAnswer(LAMBDA t : CompleteCleanup(t, tracked, g).s)
  /\ tracked.row.status \in {None, "failed"} =>
       SameAnswer(LAMBDA t : CreateTask(t, tracked, "queued", None, 0))
  /\ \A c \in Claims : SameAnswer(LAMBDA t : CreateTask(t, tracked, "running", c, 0))
  /\ tracked.row.status # "running" =>
       SameAnswer(LAMBDA t : UpdateStatus(t, tracked, "running", None))
=============================================================================
