------------------------ MODULE PipelineSafetyProofs ------------------------
(***************************************************************************)
(* TaskPipeline is type correct, for every value of its constants.         *)
(*                                                                         *)
(* The argument goes from single statements to steps: a statement of       *)
(* TaskRecords maps a row to a row and a reservation to a reservation;     *)
(* every action of the four parties applies such statements, or inserts a  *)
(* row or admits a reservation for a dispatch that had none (StepChanges); *)
(* the rest of a step is typed party by party.  The safety properties are  *)
(* drawn from the same StepChanges, in the second part; the third is about *)
(* what claims and leases exclude, the fourth about who takes care of a    *)
(* waiting row and of a held reservation.                                  *)
(*                                                                         *)
(* The fifth part is about BrokerRecovery, for every number of passes and  *)
(* lost brokers.  A step of it is one of the pipeline, the loss of the     *)
(* broker, a dispatch that finds another generation, or one of a pass, and *)
(* a pass does little to the pipeline: it gives a row up, cancels a        *)
(* reservation or rolls the run back (Repair).  So each invariant of the   *)
(* pipeline is inductive there once it survives these few steps            *)
(* (RecoverySteps).                                                        *)
(***************************************************************************)
EXTENDS BrokerRecovery, FiniteSetTheorems, TLAPS

(* The type of a reservation, as StoreTypeOK has it.                       *)
Quotas == [status : QuotaStatuses, attempt : [Attempts -> AttemptStates]]

(* What a step may do to a row that exists: one of the statements of       *)
(* TaskRecords, or nothing.                                                *)
RowChange(old, new) ==
  \/ new = old
  \/ new = PromotedToQueued(old)
  \/ \E w \in Workers : Claimable(old, old.token) /\ new = Claimed(old, w)
  \/ \E w \in Workers, status \in {"success", "failed", "rejected"},
        code \in {"none", "error"} :
       new = FinishedIfClaimed(old, w, status, code)
  \/ new = MarkedRevoked(old)
  \/ new = FailedIfPending(old)
  \/ new = FailedIfRunning(old)
  \/ \E r \in Reconcilers : CleanupClaimable(old) /\ new = CleanupClaimed(old, r)
  \/ \E r \in Reconcilers, code \in {"none"} \cup FinalCodes :
       new = CleanupFinished(old, r, code)
  \/ \E r \in Reconcilers : new = CleanupReleased(old, r)

(* record_pending inserts the row. *)
Inserted(old, new) ==
  /\ old.status = "none"
  /\ \E kind \in Kinds, n \in 0 .. Cardinality(Tasks) : new = PendingRow(kind, n)

(* Every statement on a row leaves a row.                                  *)
LEMMA RowChangeType ==
  ASSUME NEW old \in Rows, NEW new, RowChange(old, new) \/ Inserted(old, new)
  PROVE  new \in Rows
<1> USE DEF Rows, TaskStatuses, ErrorCodes, CleanupMarkers, FinalCodes
<1>1. CASE Inserted(old, new)
  BY ZenonT(60), <1>1 DEF Inserted, PendingRow, NoRow
<1>2. CASE new = PromotedToQueued(old)
  BY <1>2 DEF PromotedToQueued
<1>3. CASE \E w \in Workers : Claimable(old, old.token) /\ new = Claimed(old, w)
  BY ZenonT(60), <1>3 DEF Claimed
<1>4. CASE \E w \in Workers, status \in {"success", "failed", "rejected"},
        code \in {"none", "error"} :
       new = FinishedIfClaimed(old, w, status, code)
  <2> PICK w \in Workers, status \in {"success", "failed", "rejected"},
           code \in {"none", "error"} :
             new = FinishedIfClaimed(old, w, status, code)
    BY <1>4
  <2>1. CASE HoldsClaim(old, w)
    BY ZenonT(60), <2>1 DEF FinishedIfClaimed
  <2>2. CASE ~HoldsClaim(old, w)
    BY <2>2 DEF FinishedIfClaimed
  <2> QED BY <2>1, <2>2
<1>5. CASE new = MarkedRevoked(old)
  BY ZenonT(60), <1>5 DEF MarkedRevoked
<1>6. CASE new = FailedIfPending(old) \/ new = FailedIfRunning(old)
  BY ZenonT(60), <1>6 DEF FailedIfPending, FailedIfRunning
<1>7. CASE \E r \in Reconcilers : CleanupClaimable(old) /\ new = CleanupClaimed(old, r)
  BY <1>7 DEF CleanupClaimable, CleanupClaimed, BlockedCodes
<1>8. CASE \E r \in Reconcilers, code \in {"none"} \cup FinalCodes :
       new = CleanupFinished(old, r, code)
  BY ZenonT(60), <1>8 DEF CleanupFinished
<1>9. CASE \E r \in Reconcilers : new = CleanupReleased(old, r)
  BY ZenonT(60), <1>9 DEF CleanupReleased
<1> QED BY <1>1, <1>2, <1>3, <1>4, <1>5, <1>6, <1>7, <1>8, <1>9 DEF RowChange

(* What a step may do to a reservation that was admitted.                  *)
QuotaChange(old, new) ==
  \/ new = old
  \/ new = QuotaCancelled(old)
  \/ \E unknown \in BOOLEAN : new = QuotaSettled(old, unknown)
  \/ \E k \in Attempts : Authorizable(old, k) /\ new = Authorized(old, k)
  \/ \E k \in Attempts : Recordable(old, k) /\ new = Recorded(old, k)

(* try_reserve_owned admits the task. *)
Admitted(old, new) == old.status = "none" /\ new = Reserved(old)

(* Every statement on a reservation leaves a reservation.                  *)
LEMMA QuotaChangeType ==
  ASSUME NEW old \in Quotas, NEW new, QuotaChange(old, new) \/ Admitted(old, new)
  PROVE  new \in Quotas
<1> USE DEF Quotas, QuotaStatuses, AttemptStates
<1>1. CASE Admitted(old, new)
  BY <1>1 DEF Admitted, Reserved
<1>2. CASE new = QuotaCancelled(old)
  BY <1>2 DEF QuotaCancelled
<1>3. CASE \E unknown \in BOOLEAN : new = QuotaSettled(old, unknown)
  BY <1>3 DEF QuotaSettled
<1>4. CASE \E k \in Attempts : Authorizable(old, k) /\ new = Authorized(old, k)
  BY <1>4 DEF Authorized
<1>5. CASE \E k \in Attempts : Recordable(old, k) /\ new = Recorded(old, k)
  BY <1>5 DEF Recorded
<1> QED BY <1>1, <1>2, <1>3, <1>4, <1>5 DEF QuotaChange

(* finalize_revoked is a settlement or a cancellation.                     *)
LEMMA FinalizedChange ==
  ASSUME NEW q PROVE QuotaChange(q, QuotaFinalized(q))
BY DEF QuotaChange, QuotaFinalized

(* The quota step of a failed claim is a settlement or a cancellation.     *)
LEMMA FailureChange ==
  ASSUME NEW q, NEW outcome \in Outcomes
  PROVE  QuotaChange(q, QuotaAfterFailure(q, outcome))
BY DEF QuotaChange, QuotaAfterFailure, Outcomes

-----------------------------------------------------------------------------

(* A task is new until its quota is reserved, and has no row until its     *)
(* pending row is inserted; a reservation that was never made has no       *)
(* attempts. TypeOK needs the second: the number of rows bounds seq.       *)
Fresh ==
  \A t \in Tasks :
    /\ quota[t].status = "none" => \A k \in Attempts : quota[t].attempt[k] = "none"
    /\ disp[t].phase = "new" => quota[t].status = "none"
    /\ disp[t].phase \in {"new", "reserved"} => task[t].status = "none"

(* Every row goes through a statement, or is inserted by its own dispatch. *)
RowsChange ==
  /\ task' = [t \in Tasks |-> task'[t]]
  /\ \A t \in Tasks :
       \/ RowChange(task[t], task'[t])
       \/ /\ Inserted(task[t], task'[t])
          /\ disp[t].phase = "reserved" /\ disp'[t].phase = "recorded"

(* Every reservation goes through a statement, or is admitted for its own  *)
(* dispatch.                                                               *)
QuotasChange ==
  /\ quota' = [t \in Tasks |-> quota'[t]]
  /\ \A t \in Tasks :
       \/ QuotaChange(quota[t], quota'[t])
       \/ /\ Admitted(quota[t], quota'[t])
          /\ disp[t].phase = "new" /\ disp'[t].phase = "reserved"

(* A step that leaves the rows alone is a RowsChange.                      *)
LEMMA SameRows ==
  ASSUME TypeOK, task' = task PROVE RowsChange
BY DEF TypeOK, StoreTypeOK, RowsChange, RowChange

(* A step that leaves the reservations alone is a QuotasChange.            *)
LEMMA SameQuotas ==
  ASSUME TypeOK, quota' = quota PROVE QuotasChange
BY DEF TypeOK, StoreTypeOK, QuotasChange, QuotaChange

(* A statement on one row is a RowsChange.                                 *)
LEMMA OneRowChanges ==
  ASSUME TypeOK, NEW t \in Tasks, NEW new,
         RowChange(task[t], new), task' = [task EXCEPT ![t] = new]
  PROVE  RowsChange
<1>1. \A u \in Tasks : RowChange(task[u], task[u])
  BY DEF RowChange
<1> QED BY <1>1 DEF TypeOK, StoreTypeOK, RowsChange

(* A statement on one reservation is a QuotasChange.                       *)
LEMMA OneQuotaChanges ==
  ASSUME TypeOK, NEW t \in Tasks, NEW new,
         QuotaChange(quota[t], new), quota' = [quota EXCEPT ![t] = new]
  PROVE  QuotasChange
<1>1. \A u \in Tasks : QuotaChange(quota[u], quota[u])
  BY DEF QuotaChange
<1> QED BY <1>1 DEF TypeOK, StoreTypeOK, QuotasChange

(* While some task has no row, the next row id is within the bound on seq. *)
LEMMA NextSeqType ==
  ASSUME NEW t \in Tasks, task[t].status = "none"
  PROVE  NextSeq \in 0 .. Cardinality(Tasks)
<1> DEFINE S == {u \in Tasks : task[u].status # "none"}
<1>1. S \subseteq Tasks \ {t} /\ IsFiniteSet(Tasks)
  BY StoreAssumption
<1>2. /\ IsFiniteSet(Tasks \ {t})
      /\ Cardinality(Tasks \ {t}) = Cardinality(Tasks) - 1
  BY <1>1, FS_RemoveElement
<1>3. IsFiniteSet(S) /\ Cardinality(S) <= Cardinality(Tasks \ {t})
  BY <1>1, <1>2, FS_Subset
<1>4. Cardinality(S) \in Nat /\ Cardinality(Tasks) \in Nat
  BY <1>1, <1>3, FS_CardinalityType
<1> QED BY <1>2, <1>3, <1>4 DEF NextSeq

-----------------------------------------------------------------------------

(* What the requests do to rows and reservations.                          *)
LEMMA DispatchRows ==
  ASSUME TypeOK, Fresh, DispatcherNext
  PROVE  RowsChange /\ QuotasChange
<1>0. UNCHANGED <<task, quota>> => RowsChange /\ QuotasChange
  BY SameRows, SameQuotas
<1>1. PICK t \in Tasks : \/ \E kind \in Kinds : Trigger(t, kind)
                         \/ DispatchStep(t)
                         \/ DispatchFault(t)
  BY DEF DispatcherNext, DispatchNext
<1>2. ASSUME NEW kind \in Kinds, Trigger(t, kind)
      PROVE  RowsChange /\ QuotasChange
  <2>1. Admitted(quota[t], Reserved(quota[t]))
    BY <1>2 DEF Trigger, Fresh, Admitted
  <2>2. disp[t].phase = "new" /\ disp'[t].phase = "reserved"
    BY <1>2 DEF Trigger, TypeOK, DispTypeOK
  <2>3. \A u \in Tasks : QuotaChange(quota[u], quota[u])
    BY DEF QuotaChange
  <2>4. QuotasChange
    BY <1>2, <2>1, <2>2, <2>3 DEF Trigger, QuotasChange, TypeOK, StoreTypeOK
  <2> QED BY <1>2, <2>4, SameRows DEF Trigger
<1>3. CASE BrokerUnreadable(t) \/ RecordConflict(t)
  <2>1. QuotaChange(quota[t], QuotaCancelled(quota[t]))
    BY DEF QuotaChange
  <2> QED BY <1>3, <2>1, OneQuotaChanges, SameRows
          DEF BrokerUnreadable, RecordConflict
<1>4. CASE RecordPending(t)
  <2>1. task[t].status = "none" /\ disp[t].kind \in Kinds
    BY <1>4 DEF RecordPending, Fresh, TypeOK, DispTypeOK
  <2>2. Inserted(task[t], PendingRow(disp[t].kind, NextSeq))
    BY <2>1, NextSeqType DEF Inserted
  <2>3. disp[t].phase = "reserved" /\ disp'[t].phase = "recorded"
    BY <1>4 DEF RecordPending, Goto, TypeOK, DispTypeOK
  <2>4. \A u \in Tasks : RowChange(task[u], task[u])
    BY DEF RowChange
  <2>5. RowsChange
    BY <1>4, <2>2, <2>3, <2>4 DEF RecordPending, RowsChange, TypeOK, StoreTypeOK
  <2> QED BY <1>4, <2>5, SameQuotas DEF RecordPending
<1>5. CASE Promote(t)
  <2>1. RowChange(task[t], PromotedToQueued(task[t]))
    BY DEF RowChange
  <2> QED BY <1>5, <2>1, OneRowChanges, SameQuotas DEF Promote
<1>6. CASE UndoOne(t)
  <2>1. RowChange(task[t], MarkedRevoked(task[t]))
    BY DEF RowChange
  <2>2. QuotaChange(quota[t], QuotaCancelled(quota[t]))
    BY DEF QuotaChange
  <2>3. task' = task \/ task' = [task EXCEPT ![t] = MarkedRevoked(@)]
    BY <1>6 DEF UndoOne
  <2>4. quota' = quota \/ quota' = [quota EXCEPT ![t] = QuotaCancelled(@)]
    BY <1>6 DEF UndoOne
  <2>5. RowsChange
    BY <2>1, <2>3, OneRowChanges, SameRows
  <2>6. QuotasChange
    BY <2>2, <2>4, OneQuotaChanges, SameQuotas
  <2> QED BY <2>5, <2>6
<1>7. CASE \/ Enqueue(t) \/ Accept(t) \/ FoundCancelled(t) \/ UndoDone(t)
  BY <1>0, <1>7 DEF Enqueue, Accept, FoundCancelled, UndoDone, storeVars
<1>8. CASE \/ EnqueueFails(t) \/ GenerationChanged(t) \/ PromoteFails(t)
           \/ UndoFails(t) \/ DispatchCrash(t)
  BY <1>0, <1>8 DEF EnqueueFails, GenerationChanged, PromoteFails, UndoFails,
     DispatchCrash, storeVars
<1> QED BY <1>1, <1>2, <1>3, <1>4, <1>5, <1>6, <1>7, <1>8
        DEF DispatchStep, DispatchFault

(* What the deliveries do to rows and reservations.                        *)
LEMMA DeliveryRows ==
  ASSUME TypeOK, DelivererNext
  PROVE  RowsChange /\ QuotasChange
<1>0. UNCHANGED <<task, quota>> => RowsChange /\ QuotasChange
  BY SameRows, SameQuotas
<1>1. \/ \E w \in Workers : DeliveryStep(w) \/ DeliveryFault(w)
      \/ \E w \in Workers : \E m \in broker : Deliver(w, m) \/ ShutdownDrop(w, m)
      \/ \E m \in broker : DiscardRevoked(m)
  BY DEF DelivererNext, WorkerNext
<1>2. ASSUME NEW w \in Workers, NEW m \in broker,
             Deliver(w, m) \/ ShutdownDrop(w, m)
      PROVE  RowsChange /\ QuotasChange
  BY <1>0, <1>2 DEF Deliver, ShutdownDrop, storeVars
<1>3. ASSUME NEW m \in broker, DiscardRevoked(m)
      PROVE  RowsChange /\ QuotasChange
  <2>1. m[1] \in Tasks
    BY DEF TypeOK, StoreTypeOK
  <2> QED BY <1>3, <2>1, FinalizedChange, OneQuotaChanges, SameRows
          DEF DiscardRevoked
<1>4. ASSUME NEW w \in Workers, DeliveryStep(w) \/ DeliveryFault(w)
      PROVE  RowsChange /\ QuotasChange
  <2> DEFINE t == wk[w].task
  <2>1. CASE wk[w].phase \in {"idle", "down"}
    BY <1>0, <1>4, <2>1 DEF DeliveryStep, DeliveryFault, Claim, StageGuard,
       ResolveContext, InputError, AuthorizeAttempt, ProviderReturns, Finish,
       Settle, Reject, Release, Fail, FailInput, FailBySignal, MarkForRetry,
       Requeue, Ack, ProviderFails, SoftTimeLimit, Interrupted, HardTimeLimit, WorkerLost,
       KillRevoked, StatementFails, ClaimPhases, WorkerPhases, storeVars
  <2>2. CASE wk[w].phase \notin {"idle", "down"}
    <3>1. t \in Tasks /\ wk[w].try \in Attempts /\ wk[w].outcome \in Outcomes
      BY <2>2 DEF TypeOK, WorkerTypeOK, WorkerRecords
    <3>2. CASE Claim(w)
      <4>1. Claimable(task[t], wk[w].seen)
              => RowChange(task[t], Claimed(task[t], w))
        BY DEF RowChange, Claimable
      <4> QED BY <3>1, <3>2, <4>1, OneRowChanges, SameRows, SameQuotas DEF Claim
    <3>3. CASE AuthorizeAttempt(w)
      <4>1. Authorizable(quota[t], wk[w].try)
              => QuotaChange(quota[t], Authorized(quota[t], wk[w].try))
        BY <3>1 DEF QuotaChange
      <4> QED BY <3>1, <3>3, <4>1, OneQuotaChanges, SameQuotas, SameRows
              DEF AuthorizeAttempt
    <3>4. CASE ProviderReturns(w)
      <4>1. Recordable(quota[t], wk[w].try)
              => QuotaChange(quota[t], Recorded(quota[t], wk[w].try))
        BY <3>1 DEF QuotaChange
      <4> QED BY <3>1, <3>4, <4>1, OneQuotaChanges, SameQuotas, SameRows
              DEF ProviderReturns
    <3>5. \A status \in {"success", "failed", "rejected"},
             code \in {"none", "error"} :
            RowChange(task[t], FinishedIfClaimed(task[t], w, status, code))
      BY DEF RowChange
    <3>6. CASE Finish(w)
      BY <3>1, <3>5, <3>6, OneRowChanges, SameQuotas DEF Finish
    <3>7. CASE Reject(w) \/ FailInput(w) \/ MarkForRetry(w)
      BY <3>1, <3>5, <3>7, OneRowChanges, SameQuotas
         DEF Reject, FailInput, MarkForRetry
    <3>8. CASE Settle(w) \/ Release(w)
      <4>1. /\ QuotaChange(quota[t], QuotaSettled(quota[t], FALSE))
            /\ QuotaChange(quota[t], QuotaCancelled(quota[t]))
        BY DEF QuotaChange
      <4> QED BY <3>1, <3>8, <4>1, OneQuotaChanges, SameRows DEF Settle, Release
    <3>9. CASE Fail(w)
      <4>1. QuotaChange(quota[t], QuotaAfterFailure(quota[t], wk[w].outcome))
        BY <3>1, FailureChange
      <4>2. CASE HoldsClaim(task[t], w)
        BY <3>1, <3>5, <3>9, <4>1, <4>2, OneRowChanges, OneQuotaChanges DEF Fail
      <4>3. CASE ~HoldsClaim(task[t], w)
        BY <1>0, <3>9, <4>3 DEF Fail
      <4> QED BY <4>2, <4>3
    <3>10. CASE HardTimeLimit(w) \/ FailBySignal(w)
      <4>1. CASE HoldsClaim(task[t], w)
        BY <3>1, <3>5, <3>10, <4>1, FinalizedChange, OneRowChanges,
           OneQuotaChanges DEF HardTimeLimit, FailBySignal
      <4>2. CASE ~HoldsClaim(task[t], w)
        BY <1>0, <3>10, <4>2 DEF HardTimeLimit, FailBySignal
      <4> QED BY <4>1, <4>2
    <3>11. CASE KillRevoked(w)
      BY <3>1, <3>11, FinalizedChange, OneQuotaChanges, SameRows DEF KillRevoked
    <3>12. CASE \/ StageGuard(w) \/ ResolveContext(w) \/ InputError(w)
                \/ Requeue(w) \/ Ack(w) \/ ProviderFails(w)
                \/ SoftTimeLimit(w) \/ WorkerLost(w) \/ StatementFails(w)
      BY <1>0, <3>12 DEF StageGuard, ResolveContext, InputError, Requeue, Ack,
         ProviderFails, SoftTimeLimit, Interrupted, WorkerLost, StatementFails, storeVars
    <3> QED BY <1>4, <3>2, <3>3, <3>4, <3>6, <3>7, <3>8, <3>9, <3>10, <3>11,
               <3>12 DEF DeliveryStep, DeliveryFault
  <2> QED BY <2>1, <2>2
<1> QED BY <1>1, <1>2, <1>3, <1>4

(* What the reconciler passes do to rows and reservations.                 *)
LEMMA ReconcilerRows ==
  ASSUME TypeOK, ReconcilerNext
  PROVE  RowsChange /\ QuotasChange
<1>0. UNCHANGED <<task, quota>> => RowsChange /\ QuotasChange
  BY SameRows, SameQuotas
<1>1. PICK r \in Reconcilers : \/ \E t \in Tasks : Find(r, t)
                               \/ Reconcile(r)
                               \/ ReconcilerFault(r)
  BY DEF ReconcilerNext
<1> DEFINE t == rec[r].task
<1>2. ASSUME NEW u \in Tasks, Find(r, u)
      PROVE  RowsChange /\ QuotasChange
  BY <1>0, <1>2 DEF Find, FindStalePending, FindStuck, FindUnfinishedCleanup,
                    storeVars
<1>3. CASE Mark(r)
  <2>1. t \in Tasks
    BY <1>3 DEF Mark, TypeOK, RecTypeOK
  <2>2. /\ RowChange(task[t], FailedIfPending(task[t]))
        /\ RowChange(task[t], FailedIfRunning(task[t]))
    BY DEF RowChange
  <2> QED BY <1>3, <2>1, <2>2, OneRowChanges, SameQuotas DEF Mark
<1>4. CASE TakeLease(r)
  <2>1. t \in Tasks
    BY <1>4 DEF TakeLease, TypeOK, RecTypeOK
  <2>2. CleanupClaimable(task[t]) => RowChange(task[t], CleanupClaimed(task[t], r))
    BY DEF RowChange
  <2> QED BY <1>4, <2>1, <2>2, OneRowChanges, SameRows, SameQuotas DEF TakeLease
<1>5. CASE CleanupOne(r)
  <2>1. t \in Tasks
    BY <1>5 DEF CleanupOne, TypeOK, RecTypeOK
  <2>2. QuotaChange(quota[t], QuotaCancelled(quota[t]))
    BY DEF QuotaChange
  <2> QED BY <1>5, <2>1, <2>2, OneQuotaChanges, SameRows, SameQuotas DEF CleanupOne
<1>6. CASE EndCleanup(r)
  <2>1. t \in Tasks /\ rec[r].final \in {"none"} \cup FinalCodes
    BY <1>6 DEF EndCleanup, TypeOK, RecTypeOK, RecRecords
  <2>2. /\ RowChange(task[t], CleanupFinished(task[t], r, rec[r].final))
        /\ RowChange(task[t], CleanupReleased(task[t], r))
    BY <2>1 DEF RowChange
  <2> QED BY <1>6, <2>1, <2>2, OneRowChanges, SameQuotas DEF EndCleanup
<1>7. CASE ReconcilerFault(r)
  BY <1>0, <1>7 DEF ReconcilerFault, CleanupFails, FinishFails, ReconcilerCrash, storeVars
<1> QED BY <1>1, <1>2, <1>3, <1>4, <1>5, <1>6, <1>7 DEF Reconcile

(* What stops and other user actions do to rows and reservations.          *)
LEMMA ControlRows ==
  ASSUME TypeOK, ControlNext
  PROVE  RowsChange /\ QuotasChange
<1>0. UNCHANGED <<task, quota>> => RowsChange /\ QuotasChange
  BY SameRows, SameQuotas
<1>1. ASSUME NEW t \in Tasks, MarkRevoked(t)
      PROVE  RowsChange /\ QuotasChange
  <2>1. RowChange(task[t], MarkedRevoked(task[t]))
    BY DEF RowChange
  <2> QED BY <1>1, <2>1, OneRowChanges, SameQuotas DEF MarkRevoked
<1>2. ASSUME NEW t \in Tasks, FinalizeRevoked(t)
      PROVE  RowsChange /\ QuotasChange
  BY <1>2, FinalizedChange, OneQuotaChanges, SameRows DEF FinalizeRevoked
<1>3. CASE \/ Stop \/ Resume \/ Restart \/ Back \/ Approval
           \/ CollectActive \/ NextStopPass \/ StopAborts
           \/ \E t \in Tasks : BroadcastRevoke(t) \/ BroadcastFails(t)
  BY <1>0, <1>3 DEF Stop, Resume, Restart, Back, Approval, StopRun, ResumeRun,
     RestartRun, GoBack, Approve, CollectActive, NextStopPass, StopAborts,
     BroadcastRevoke, BroadcastFails, storeVars
<1> QED BY <1>1, <1>2, <1>3 DEF ControlNext, StopStep

(* Whatever a step of the pipeline does to the rows and reservations is a  *)
(* statement of TaskRecords, an insertion or an admission.                 *)
LEMMA StepChanges ==
  ASSUME TypeOK, Fresh, [Next]_vars
  PROVE  RowsChange /\ QuotasChange
<1>1. CASE UNCHANGED vars
  BY <1>1, SameRows, SameQuotas DEF vars
<1> QED BY <1>1, DispatchRows, DeliveryRows, ReconcilerRows, ControlRows DEF Next

-----------------------------------------------------------------------------

(* The type of the run's row.                                              *)
RunRows == [stage : RunStages, status : RunStatuses]

(* A row that exists has one of the dispatched kinds.                      *)
LEMMA RowChangeKind ==
  ASSUME NEW old \in Rows, NEW new, RowChange(old, new) \/ Inserted(old, new),
         old.status # "none" => old.kind \in Kinds
  PROVE  new.status # "none" => new.kind \in Kinds
BY DEF RowChange, Inserted, Rows, PendingRow, NoRow, PromotedToQueued, Claimable, Claimed,
       FinishedIfClaimed, HoldsClaim, MarkedRevoked, FailedIfPending,
       FailedIfRunning, CleanupClaimable, CleanupClaimed, CleanupFinished,
       HoldsLease, CleanupReleased

(* Advancing and failing a run leaves a run.                               *)
LEMMA RunTypes ==
  ASSUME NEW r \in RunRows
  PROVE  /\ \A kind \in Kinds : RunAdvanced(r, kind) \in RunRows
         /\ \A stages : RunFailed(r, stages) \in RunRows
<1>1. \A kind \in Kinds : SuccessStage[kind] \in RunStages
  BY StoreAssumption DEF SuccessStage, RunStages
<1> QED BY <1>1 DEF RunRows, RunAdvanced, AdvancedTo, RunFailed, RunStatuses, RunStages

(* A dispatch moves the run to a stage.                                    *)
LEMMA TargetType ==
  ASSUME NEW kind \in Kinds PROVE TargetStage[kind] \in RunStages
BY StoreAssumption DEF TargetStage, RunStages

(* The compensations are sequences of undo steps.                          *)
LEMMA UndoPlans ==
  /\ AfterEnqueueError \in Seq(UndoSteps)
  /\ AfterUncertainty \in Seq(UndoSteps)
  /\ AfterCancellation \in Seq(UndoSteps)
BY DEF AfterEnqueueError, AfterUncertainty, AfterCancellation, UndoSteps

(* The helpers that move a request on keep its type.                       *)
LEMMA DispUpdates ==
  ASSUME DispTypeOK, NEW t \in Tasks, disp[t].phase # "new"
  PROVE  /\ \A phase \in DispPhases : Goto(t, phase) => DispTypeOK'
         /\ \A plan \in Seq(UndoSteps) : Compensate(t, plan) => DispTypeOK'
         /\ disp[t].todo # <<>> /\ NextUndo(t) => DispTypeOK'
<1> USE DEF DispTypeOK
<1>1. ASSUME NEW phase \in DispPhases, Goto(t, phase) PROVE DispTypeOK'
  BY <1>1 DEF Goto
<1>2. ASSUME NEW plan \in Seq(UndoSteps), Compensate(t, plan) PROVE DispTypeOK'
  BY ZenonT(60), <1>2 DEF Compensate, DispPhases
<1>3. ASSUME disp[t].todo # <<>>, NextUndo(t) PROVE DispTypeOK'
  <2>1. Tail(disp[t].todo) \in Seq(UndoSteps)
    BY <1>3
  <2> QED BY <1>3, <2>1 DEF NextUndo
<1> QED BY <1>1, <1>2, <1>3

(* A request step keeps the types of what it may write.                    *)
LEMMA DispatchTypes ==
  ASSUME TypeOK, DispatcherNext
  PROVE  /\ run' \in RunRows
         /\ broker' \subseteq Tasks \X Attempts
         /\ revoked' \subseteq Tasks
         /\ DispTypeOK'
<1> DEFINE StoreGoal == /\ run' \in RunRows
                        /\ broker' \subseteq Tasks \X Attempts
                        /\ revoked' \subseteq Tasks
<1>0. /\ DispTypeOK
      /\ run \in RunRows /\ broker \subseteq Tasks \X Attempts
      /\ revoked \subseteq Tasks
  BY DEF TypeOK, StoreTypeOK, RunRows
<1> USE DEF DispPhases
<1>1. PICK t \in Tasks : \/ \E kind \in Kinds : Trigger(t, kind)
                         \/ DispatchStep(t)
                         \/ DispatchFault(t)
  BY DEF DispatcherNext, DispatchNext
<1>2. ASSUME NEW kind \in Kinds, Trigger(t, kind)
      PROVE  StoreGoal /\ DispTypeOK'
  <2>1. run.stage \in RunStages /\ <<>> \in Seq(UndoSteps)
    BY <1>0 DEF RunRows
  <2>2. DispTypeOK'
    BY <1>0, <1>2, <2>1 DEF Trigger, DispTypeOK
  <2> QED BY <1>0, <1>2, <2>2 DEF Trigger
<1>3. CASE RecordPending(t)
  <2>1. disp[t].kind \in Kinds
    BY <1>0, <1>3 DEF RecordPending, DispTypeOK
  <2>2. run' \in RunRows
    BY <1>0, <1>3, <2>1, TargetType DEF RecordPending, RunRows
  <2> QED BY <1>0, <1>3, <2>2, DispUpdates DEF RecordPending
<1>4. CASE \/ BrokerUnreadable(t) \/ RecordConflict(t) \/ Promote(t)
           \/ Accept(t) \/ UndoDone(t) \/ DispatchCrash(t)
  BY <1>0, <1>4, DispUpdates DEF BrokerUnreadable, RecordConflict, Promote,
     Accept, UndoDone, DispatchCrash, storeVars, InProgress
<1>5. CASE Enqueue(t) \/ EnqueueFails(t)
  <2>1. <<t, 0>> \in Tasks \X Attempts
    BY MaxRetriesAssumption DEF Attempts
  <2> QED BY <1>0, <1>5, <2>1, UndoPlans, DispUpdates DEF Enqueue, EnqueueFails
<1>6. CASE FoundCancelled(t) \/ GenerationChanged(t) \/ PromoteFails(t)
  BY <1>0, <1>6, UndoPlans, DispUpdates
     DEF FoundCancelled, GenerationChanged, PromoteFails, storeVars
<1>7. CASE UndoOne(t) \/ UndoFails(t)
  <2>1. DispTypeOK' /\ disp[t].from \in RunStages
    BY <1>0, <1>7, DispUpdates DEF UndoOne, UndoFails, DispTypeOK
  <2>2. StageRolledBack(t) \in RunRows
    BY <1>0, <2>1 DEF StageRolledBack, RunRows
  <2> QED BY <1>0, <1>7, <2>1, <2>2 DEF UndoOne, UndoFails, storeVars
<1> QED BY <1>1, <1>2, <1>3, <1>4, <1>5, <1>6, <1>7
        DEF DispatchStep, DispatchFault

(* Replacing the record of one worker by one of its type.                  *)
LEMMA WorkerUpdate ==
  ASSUME WorkerTypeOK, NEW w \in Workers, NEW new \in WorkerRecords,
         new.phase \notin {"idle", "down"} => new.task \in Tasks,
         new.phase \in {"retrying", "requeue"} => new.try < MaxRetries,
         wk' = [wk EXCEPT ![w] = new]
  PROVE  WorkerTypeOK'
BY DEF WorkerTypeOK

(* A worker with a message may go to any phase; to a retry only below the  *)
(* retry limit.                                                            *)
LEMMA WorkerGoes ==
  ASSUME WorkerTypeOK, NEW w \in Workers, wk[w].task \in Tasks,
         NEW phase \in WorkerPhases, NEW outcome \in Outcomes,
         phase \in {"retrying", "requeue"} => wk[w].try < MaxRetries,
         wk' = [wk EXCEPT ![w] = [wk[w] EXCEPT !.phase = phase,
                                               !.outcome = outcome]]
  PROVE  WorkerTypeOK'
<1> DEFINE new == [wk[w] EXCEPT !.phase = phase, !.outcome = outcome]
<1>1. wk[w] \in WorkerRecords
  BY DEF WorkerTypeOK
<1>2. /\ new \in WorkerRecords
      /\ new.phase = phase /\ new.task = wk[w].task /\ new.try = wk[w].try
  BY <1>1 DEF WorkerRecords
<1> HIDE DEF new
<1> QED BY <1>2, WorkerUpdate DEF new

(* A worker with a message may go to any phase; to a retry only below the  *)
(* retry limit, also when it notes what it has billed.                     *)
LEMMA WorkerGoesTo ==
  ASSUME WorkerTypeOK, NEW w \in Workers, wk[w].task \in Tasks,
         NEW phase \in WorkerPhases, Go(w, phase),
         phase \in {"retrying", "requeue"} => wk[w].try < MaxRetries
  PROVE  WorkerTypeOK'
<1>1. wk[w].outcome \in Outcomes /\ wk[w] \in WorkerRecords
  BY DEF WorkerTypeOK, WorkerRecords
<1>2. [wk[w] EXCEPT !.phase = phase]
        = [wk[w] EXCEPT !.phase = phase, !.outcome = wk[w].outcome]
  BY <1>1 DEF WorkerRecords
<1>3. wk' = [wk EXCEPT ![w] = [wk[w] EXCEPT !.phase = phase]]
  BY DEF Go
<1> QED BY <1>1, <1>2, <1>3, WorkerGoes

(* The records of an idle worker and of a lost one.                        *)
LEMMA IdleAndDown ==
  IdleWorker \in WorkerRecords /\ DownWorker \in WorkerRecords
BY MaxRetriesAssumption DEF IdleWorker, DownWorker, WorkerRecords, Attempts,
   WorkerPhases, Outcomes

(* A delivery step keeps the types of what it may write.                   *)
LEMMA DeliveryTypes ==
  ASSUME TypeOK, DelivererNext
  PROVE  /\ run' \in RunRows
         /\ broker' \subseteq Tasks \X Attempts
         /\ revoked' \subseteq Tasks
         /\ WorkerTypeOK'
<1> DEFINE StoreGoal == /\ run' \in RunRows
                        /\ broker' \subseteq Tasks \X Attempts
                        /\ revoked' \subseteq Tasks
<1>0. /\ run \in RunRows /\ broker \subseteq Tasks \X Attempts
      /\ revoked \subseteq Tasks /\ WorkerTypeOK
  BY DEF TypeOK, StoreTypeOK, RunRows
<1>1. \/ \E w \in Workers : DeliveryStep(w) \/ DeliveryFault(w)
      \/ \E w \in Workers : \E m \in broker : Deliver(w, m) \/ ShutdownDrop(w, m)
      \/ \E m \in broker : DiscardRevoked(m)
  BY DEF DelivererNext, WorkerNext
<1>2. ASSUME NEW w \in Workers, NEW m \in broker, Deliver(w, m)
      PROVE  StoreGoal /\ WorkerTypeOK'
  <2>1. m[1] \in Tasks /\ m[2] \in Attempts
    BY <1>0
  <2>2. task[m[1]].token \in {NoToken} \cup Workers \cup Reconcilers
    BY <2>1 DEF TypeOK, StoreTypeOK, Rows
  <2> DEFINE new == [phase   |-> IF task[m[1]].status = "success"
                                 THEN "settling" ELSE "observed",
                     task    |-> m[1], try |-> m[2],
                     seen    |-> task[m[1]].token,
                     outcome |-> "not_started"]
  <2>3. new \in WorkerRecords /\ new.phase \in {"settling", "observed"}
    BY <2>1, <2>2 DEF WorkerRecords, WorkerPhases, Outcomes
  <2>4. new.task \in Tasks /\ wk' = [wk EXCEPT ![w] = new]
    BY <1>2, <2>1 DEF Deliver
  <2> HIDE DEF new
  <2>5. WorkerTypeOK'
    BY <1>0, <2>3, <2>4, WorkerUpdate
  <2> QED BY <1>0, <1>2, <2>5 DEF Deliver, storeVars
<1>3. ASSUME NEW m \in broker,
             DiscardRevoked(m) \/ \E w \in Workers : ShutdownDrop(w, m)
      PROVE  StoreGoal /\ WorkerTypeOK'
  BY <1>0, <1>3 DEF DiscardRevoked, ShutdownDrop, WorkerTypeOK
<1>4. ASSUME NEW w \in Workers, DeliveryStep(w) \/ DeliveryFault(w)
      PROVE  StoreGoal /\ WorkerTypeOK'
  <2> DEFINE t == wk[w].task
  <2>1. wk[w].phase \notin {"idle", "down"}
    BY <1>4 DEF DeliveryStep, DeliveryFault, Claim, StageGuard, 
       ResolveContext, InputError, AuthorizeAttempt, ProviderReturns, Finish,
       Settle, Reject, Release, Fail, FailInput, FailBySignal, MarkForRetry,
       Requeue, Ack, ProviderFails, SoftTimeLimit, Interrupted, HardTimeLimit, WorkerLost,
       KillRevoked, StatementFails, ClaimPhases, WorkerPhases
  <2>2. /\ t \in Tasks /\ wk[w].try \in Attempts
        /\ wk[w].phase \in {"retrying", "requeue"} => wk[w].try < MaxRetries
    BY <1>0, <2>1 DEF WorkerTypeOK, WorkerRecords
  <2>3. \A phase \in WorkerPhases :
          /\ Go(w, phase)
          /\ phase \in {"retrying", "requeue"} => wk[w].try < MaxRetries
          => WorkerTypeOK'
    BY <1>0, <2>2, WorkerGoesTo
  <2>4. UNCHANGED wk => WorkerTypeOK'
    BY <1>0 DEF WorkerTypeOK
  <2>5. CASE \/ StageGuard(w) \/ ResolveContext(w) \/ InputError(w)
             \/ Settle(w) \/ Reject(w) \/ Release(w) \/ FailInput(w)
             \/ Claim(w)
    BY <1>0, <2>3, <2>5 DEF StageGuard, ResolveContext, InputError, Settle,
       Reject, Release, FailInput, Claim, WorkerPhases, ClaimPhases, storeVars
  <2>6. CASE \/ MarkForRetry(w) \/ ProviderFails(w)
             \/ SoftTimeLimit(w) \/ StatementFails(w)
    BY <1>0, <2>2, <2>3, <2>6 DEF MarkForRetry, ProviderFails, SoftTimeLimit,
       StatementFails, Interrupted, WorkerPhases, ClaimPhases, storeVars
  <2>7. CASE AuthorizeAttempt(w) \/ ProviderReturns(w)
    <3>1. CASE Go(w, "failing")
      BY <1>0, <2>3, <2>7, <3>1 DEF AuthorizeAttempt, ProviderReturns,
         WorkerPhases, ClaimPhases
    <3>2. CASE ~Go(w, "failing")
      <4>1. PICK phase \in {"calling", "finishing"}, outcome \in Outcomes :
              wk' = [wk EXCEPT ![w].phase = phase, ![w].outcome = outcome]
        BY <2>7, <3>2 DEF AuthorizeAttempt, ProviderReturns, Outcomes
      <4>2. wk' = [wk EXCEPT ![w] = [wk[w] EXCEPT !.phase = phase,
                                                  !.outcome = outcome]]
        BY <1>0, <4>1 DEF WorkerTypeOK, WorkerRecords
      <4>3. phase \in WorkerPhases /\ phase \notin {"retrying", "requeue"}
        BY DEF WorkerPhases, ClaimPhases
      <4>4. WorkerTypeOK'
        BY <1>0, <2>2, <4>2, <4>3, WorkerGoes
      <4> QED BY <1>0, <2>7, <4>4 DEF AuthorizeAttempt, ProviderReturns
    <3> QED BY <3>1, <3>2
  <2>8. CASE Finish(w) \/ Fail(w) \/ HardTimeLimit(w) \/ FailBySignal(w)
    <3>1. HoldsClaim(task[t], w) => task[t].kind \in Kinds
      BY <2>2 DEF HoldsClaim, TypeOK, StoreTypeOK
    <3>2. run' \in RunRows
      BY <1>0, <2>8, <3>1, RunTypes DEF Finish, Fail, HardTimeLimit, FailBySignal
    <3>3. WorkerTypeOK'
      BY <2>3, <2>4, <2>8 DEF Finish, Fail, HardTimeLimit, FailBySignal,
         WorkerPhases
    <3>4. broker' \subseteq broker /\ revoked' = revoked
      BY <2>8 DEF Finish, Fail, HardTimeLimit, FailBySignal
    <3> QED BY <1>0, <3>2, <3>3, <3>4
  <2>9. CASE Requeue(w)
    <3>1. <<t, wk[w].try + 1>> \in Tasks \X Attempts
      BY <2>2, <2>9, MaxRetriesAssumption DEF Requeue, Attempts
    <3> QED BY <1>0, <2>3, <2>9, <3>1 DEF Requeue, WorkerPhases
  <2>10. CASE Ack(w) \/ WorkerLost(w) \/ KillRevoked(w)
    <3>1. \/ wk' = [wk EXCEPT ![w] = IdleWorker]
          \/ wk' = [wk EXCEPT ![w] = DownWorker]
      BY <2>10 DEF Ack, WorkerLost, KillRevoked
    <3>2. IdleWorker.phase = "idle" /\ DownWorker.phase = "down"
      BY DEF IdleWorker, DownWorker
    <3>3. WorkerTypeOK'
      BY <1>0, <3>1, <3>2, IdleAndDown, WorkerUpdate
    <3> QED BY <1>0, <2>10, <3>3 DEF Ack, WorkerLost, KillRevoked, storeVars
  <2> QED BY <1>4, <2>5, <2>6, <2>7, <2>8, <2>9, <2>10
          DEF DeliveryStep, DeliveryFault
<1> QED BY <1>1, <1>2, <1>3, <1>4

(* A cleanup plan with its first step done is a cleanup plan.              *)
LEMMA PlanTails ==
  ASSUME NEW plan \in CleanupPlans, plan # <<>>
  PROVE  Tail(plan) \in CleanupPlans
<1> USE DEF CleanupPlans, PendingPlan, StuckPlan, Rollback, CancelQuota
<1>1. CASE plan = PendingPlan
  BY <1>1
<1>2. CASE plan = StuckPlan
  BY <1>2
<1>3. CASE plan = <<Rollback>>
  BY <1>3
<1>4. CASE plan = <<CancelQuota>>
  BY <1>4
<1> QED BY <1>1, <1>2, <1>3, <1>4

(* Replacing the record of one pass by one of its type.                    *)
LEMMA RecUpdate ==
  ASSUME RecTypeOK, NEW r \in Reconcilers, NEW new \in RecRecords,
         new.phase # "idle" => new.task \in Tasks,
         rec' = [rec EXCEPT ![r] = new]
  PROVE  RecTypeOK'
BY DEF RecTypeOK

(* A reconciler step keeps the types of what it may write.                 *)
LEMMA ReconcilerTypes ==
  ASSUME TypeOK, ReconcilerNext
  PROVE  run' \in RunRows /\ UNCHANGED <<broker, revoked>> /\ RecTypeOK'
<1>0. RecTypeOK /\ run \in RunRows
  BY DEF TypeOK, StoreTypeOK, RunRows
<1>1. PICK r \in Reconcilers : \/ \E t \in Tasks : Find(r, t)
                               \/ Reconcile(r)
                               \/ ReconcilerFault(r)
  BY DEF ReconcilerNext
<1>2. Forget(r) => RecTypeOK'
  <2>1. IdleReconciler \in RecRecords /\ IdleReconciler.phase = "idle"
    BY DEF IdleReconciler, RecRecords, RecPhases, CleanupPlans
  <2> QED BY <1>0, <2>1, RecUpdate DEF Forget
<1>3. ASSUME NEW t \in Tasks, Find(r, t)
      PROVE  run' \in RunRows /\ UNCHANGED <<broker, revoked>> /\ RecTypeOK'
  <2>1. PICK phase \in RecPhases, plan \in CleanupPlans, final \in FinalCodes :
          StartAt(r, phase, t, plan, final)
    BY <1>3 DEF Find, FindStalePending, FindStuck, FindUnfinishedCleanup,
       FinalCode, FinalCodes, CleanupPlans, RecPhases
  <2> DEFINE new == [phase |-> phase, task |-> t, todo |-> plan, ok |-> TRUE,
                     final |-> final]
  <2>2. new \in RecRecords /\ new.task = t /\ rec' = [rec EXCEPT ![r] = new]
    BY <2>1 DEF RecRecords, StartAt
  <2> HIDE DEF new
  <2>3. RecTypeOK'
    BY <1>0, <2>2, RecUpdate
  <2> QED BY <1>0, <1>3, <2>3 DEF Find, FindStalePending, FindStuck,
          FindUnfinishedCleanup, storeVars
<1>4. CASE Mark(r) \/ TakeLease(r) \/ EndCleanup(r)
  <2>1. CASE Forget(r)
    BY <1>0, <1>2, <1>4, <2>1 DEF Mark, TakeLease, EndCleanup
  <2>2. CASE ~Forget(r)
    <3>1. PICK phase \in {"lease", "cleanup"} : rec' = [rec EXCEPT ![r].phase = phase]
      BY <1>4, <2>2 DEF Mark, TakeLease, EndCleanup
    <3>2. rec[r] \in RecRecords /\ rec[r].task \in Tasks
      BY <1>0, <1>4 DEF RecTypeOK, Mark, TakeLease, EndCleanup
    <3> DEFINE new == [rec[r] EXCEPT !.phase = phase]
    <3>3. new \in RecRecords /\ new.task \in Tasks /\ rec' = [rec EXCEPT ![r] = new]
      BY <3>1, <3>2 DEF RecRecords, RecPhases
    <3> HIDE DEF new
    <3>4. RecTypeOK'
      BY <1>0, <3>3, RecUpdate
    <3> QED BY <1>0, <1>4, <3>4 DEF Mark, TakeLease, EndCleanup
  <2> QED BY <2>1, <2>2
<1>5. CASE CleanupOne(r) \/ CleanupFails(r)
  <2>1. rec[r] \in RecRecords /\ rec[r].task \in Tasks /\ rec[r].todo # <<>>
    BY <1>0, <1>5 DEF RecTypeOK, CleanupOne, CleanupFails
  <2>2. Tail(rec[r].todo) \in CleanupPlans
    BY <2>1, PlanTails DEF RecRecords
  <2>3. PICK ok \in BOOLEAN :
          rec' = [rec EXCEPT ![r].todo = Tail(@), ![r].ok = ok]
    <3>1. rec' = [rec EXCEPT ![r].todo = Tail(@), ![r].ok = FALSE]
          \/ rec' = [rec EXCEPT ![r].todo = Tail(@)]
      BY <1>5 DEF CleanupOne, CleanupFails
    <3>2. [rec EXCEPT ![r].todo = Tail(@)]
            = [rec EXCEPT ![r].todo = Tail(@), ![r].ok = rec[r].ok]
      BY <1>0, <2>1 DEF RecTypeOK, RecRecords
    <3>3. rec[r].ok \in BOOLEAN
      BY <2>1 DEF RecRecords
    <3> QED BY <3>1, <3>2, <3>3
  <2> DEFINE new == [rec[r] EXCEPT !.todo = Tail(@), !.ok = ok]
  <2>4. /\ new \in RecRecords /\ new.task \in Tasks
        /\ rec' = [rec EXCEPT ![r] = new]
    BY <1>0, <2>1, <2>2, <2>3 DEF RecRecords, RecTypeOK
  <2> HIDE DEF new
  <2>5. RecTypeOK'
    BY <1>0, <2>4, RecUpdate
  <2>6. \A t : RunRolledBack(t) \in RunRows
    BY <1>0, RunTypes DEF RunRolledBack
  <2> QED BY <1>0, <1>5, <2>5, <2>6 DEF CleanupOne, CleanupFails, storeVars
<1>6. CASE ReconcilerCrash(r)
  BY <1>0, <1>2, <1>6 DEF ReconcilerCrash, storeVars
<1>7. CASE FinishFails(r)
  <2>1. rec[r] \in RecRecords /\ rec[r].task \in Tasks
    BY <1>0, <1>7 DEF RecTypeOK, FinishFails
  <2> DEFINE new == [rec[r] EXCEPT !.ok = FALSE]
  <2>2. /\ new \in RecRecords /\ new.task \in Tasks
        /\ rec' = [rec EXCEPT ![r] = new]
    BY <1>0, <1>7, <2>1 DEF FinishFails, RecRecords, RecTypeOK
  <2> HIDE DEF new
  <2>3. RecTypeOK'
    BY <1>0, <2>2, RecUpdate
  <2> QED BY <1>0, <1>7, <2>3 DEF FinishFails, storeVars
<1> QED BY <1>1, <1>3, <1>4, <1>5, <1>6, <1>7 DEF Reconcile, ReconcilerFault

(* A user action keeps the types of what it may write.                     *)
LEMMA ControlTypes ==
  ASSUME TypeOK, ControlNext
  PROVE  /\ run' \in RunRows /\ broker' = broker
         /\ revoked' \subseteq Tasks /\ StopTypeOK'
<1> USE DEF StopTypeOK, StopPhases
<1>0. StopTypeOK /\ run \in RunRows /\ revoked \subseteq Tasks
  BY DEF TypeOK, StoreTypeOK, RunRows
<1>1. ActiveTasks \subseteq Tasks
  BY DEF ActiveTasks
<1>2. CASE Stop
  <2>1. \A stage \in GeneratingStages : StageBeforeGenerating[stage] \in RunStages
    BY DEF GeneratingStages, StageBeforeGenerating, RunStages
  <2> QED BY <1>0, <1>2, <2>1 DEF Stop, StopRun, RunRows, RunStatuses
<1>3. CASE Resume \/ Restart
  BY <1>0, <1>3 DEF Resume, Restart, ResumeRun, RestartRun, RunRows, RunStatuses
<1>4. CASE Back \/ Approval
  <2>1. /\ \A stage \in DOMAIN StageBack : StageBack[stage] \in RunStages
        /\ \A stage \in DOMAIN ApprovedStage : ApprovedStage[stage] \in RunStages
    BY DEF StageBack, ApprovedStage, RunStages
  <2> QED BY <1>0, <1>4, <2>1 DEF Back, Approval, GoBack, Approve, RunRows
<1>5. CASE CollectActive \/ NextStopPass \/ StopAborts
  <2>1. \A phase \in StopPhases : NextPass(phase) => StopTypeOK'
    <3>1. ASSUME NEW phase \in StopPhases, NextPass(phase), phase = "idle"
          PROVE  StopTypeOK'
      BY <3>1 DEF NextPass, IdleStop
    <3>2. ASSUME NEW phase \in StopPhases, NextPass(phase), phase # "idle"
          PROVE  StopTypeOK'
      BY <1>0, <3>2 DEF NextPass
    <3> QED BY <3>1, <3>2
  <2>2. CASE NextStopPass
    BY <1>0, <1>5, <2>1, <2>2 DEF NextStopPass, storeVars
  <2>3. CASE CollectActive \/ StopAborts
    BY <1>0, <1>1, <2>3 DEF CollectActive, StopAborts, IdleStop, storeVars
  <2> QED BY <1>5, <2>2, <2>3
<1>6. ASSUME NEW t \in Tasks, \/ BroadcastRevoke(t) \/ BroadcastFails(t)
                               \/ MarkRevoked(t) \/ FinalizeRevoked(t)
      PROVE  run' \in RunRows /\ broker' = broker
             /\ revoked' \subseteq Tasks /\ StopTypeOK'
  BY <1>0, <1>6 DEF BroadcastRevoke, BroadcastFails, MarkRevoked,
     FinalizeRevoked, Handled, storeVars
<1> QED BY <1>2, <1>3, <1>4, <1>5, <1>6 DEF ControlNext, StopStep

-----------------------------------------------------------------------------

(* Only an insertion makes a row.                                          *)
LEMMA NoRowStays ==
  ASSUME NEW old \in Rows, NEW new, RowChange(old, new), old.status = "none"
  PROVE  new.status = "none"
BY DEF RowChange, Rows, PromotedToQueued, Claimable, FinishedIfClaimed,
       HoldsClaim, MarkedRevoked, FailedIfPending, FailedIfRunning,
       CleanupClaimable, CleanupFinished, HoldsLease, CleanupReleased

(* Only an admission makes a reservation, and none is unmade.              *)
LEMMA NoQuotaStays ==
  ASSUME NEW old \in Quotas, NEW new, QuotaChange(old, new)
  PROVE  /\ old.status = "none" /\ (\A k \in Attempts : old.attempt[k] = "none")
              => new = old
         /\ old.status # "none" => new.status # "none"
BY DEF QuotaChange, Quotas, QuotaCancelled, QuotaSettled, Authorizable,
       Authorized, Recordable, Recorded, HasAttempt

(* A request that is new or has reserved was new or had reserved.          *)
LEMMA DispatchGoesOn ==
  ASSUME TypeOK, [Next]_vars, NEW t \in Tasks,
         disp'[t].phase \in {"new", "reserved"}
  PROVE  \/ disp'[t].phase = disp[t].phase
         \/ disp[t].phase = "new" /\ disp'[t].phase = "reserved"
<1>1. CASE disp' = disp
  BY <1>1
<1>2. CASE DispatcherNext
  <2>1. PICK u \in Tasks : \/ \E kind \in Kinds : Trigger(u, kind)
                           \/ DispatchStep(u)
                           \/ DispatchFault(u)
    BY <1>2 DEF DispatcherNext, DispatchNext
  <2>2. /\ disp \in [Tasks -> [phase : DispPhases, kind : {"none"} \cup Kinds,
                               from : {"none"} \cup RunStages,
                               todo : Seq(UndoSteps)]]
    BY DEF TypeOK, DispTypeOK
  <2>3. CASE t # u
    BY <2>1, <2>2, <2>3 DEF DispatchStep, DispatchFault, Trigger, RecordPending,
       RecordConflict, Enqueue, Promote, Accept, FoundCancelled, UndoOne,
       UndoDone, BrokerUnreadable, EnqueueFails, GenerationChanged,
       PromoteFails, UndoFails, DispatchCrash, Goto, Compensate, NextUndo
  <2>4. CASE t = u
    BY <2>1, <2>2, <2>4 DEF DispatchStep, DispatchFault, Trigger, RecordPending,
       RecordConflict, Enqueue, Promote, Accept, FoundCancelled, UndoOne,
       UndoDone, BrokerUnreadable, EnqueueFails, GenerationChanged,
       PromoteFails, UndoFails, DispatchCrash, Goto, Compensate, NextUndo
  <2> QED BY <2>3, <2>4
<1> QED BY <1>1, <1>2 DEF Next, vars, DelivererNext, ReconcilerNext, ControlNext

(* The inductive invariant.                                                *)
IndInv == TypeOK /\ Fresh

(* IndInv holds initially.                                                 *)
LEMMA InitIndInv == Init => IndInv
<1> SUFFICES ASSUME Init PROVE IndInv
  OBVIOUS
<1> USE DEF Init
<1>1. StoreTypeOK
  BY StoreAssumption, FS_CardinalityType DEF StoreInit, StoreTypeOK, NoRow, NoQuota, Rows, RunStages,
     RunStatuses, TaskStatuses, ErrorCodes, QuotaStatuses, AttemptStates
<1>2. DispTypeOK
  BY DEF DispInit, DispTypeOK, NotDispatched, DispPhases
<1>3. WorkerTypeOK
  BY IdleAndDown DEF WorkerInit, WorkerTypeOK, IdleWorker
<1>4. RecTypeOK
  BY DEF RecInit, RecTypeOK, RecRecords, IdleReconciler, RecPhases, CleanupPlans
<1>5. StopTypeOK
  BY DEF StopInit, StopTypeOK, IdleStop, StopPhases
<1>6. Fresh
  BY DEF StoreInit, DispInit, Fresh, NoRow, NoQuota, NotDispatched
<1> QED BY <1>1, <1>2, <1>3, <1>4, <1>5, <1>6 DEF IndInv, TypeOK

(* IndInv is preserved by every step.                                      *)
LEMMA StepIndInv == IndInv /\ [Next]_vars => IndInv'
<1> SUFFICES ASSUME TypeOK, Fresh, [Next]_vars PROVE TypeOK' /\ Fresh'
  BY DEF IndInv
<1>1. RowsChange /\ QuotasChange
  BY StepChanges
<1>2. task \in [Tasks -> Rows] /\ quota \in [Tasks -> Quotas]
  BY DEF TypeOK, StoreTypeOK, Quotas
<1>3. /\ task' \in [Tasks -> Rows]
      /\ \A t \in Tasks : task'[t].status # "none" => task'[t].kind \in Kinds
  <2>1. \A t \in Tasks : task[t].status # "none" => task[t].kind \in Kinds
    BY DEF TypeOK, StoreTypeOK
  <2>2. \A t \in Tasks : /\ task'[t] \in Rows
                         /\ task'[t].status # "none" => task'[t].kind \in Kinds
    BY <1>1, <1>2, <2>1, RowChangeType, RowChangeKind DEF RowsChange
  <2> QED BY <1>1, <2>2 DEF RowsChange
<1>4. quota' \in [Tasks -> Quotas]
  BY <1>1, <1>2, QuotaChangeType DEF QuotasChange
<1>5. /\ run' \in RunRows /\ broker' \subseteq Tasks \X Attempts
      /\ revoked' \subseteq Tasks
      /\ DispTypeOK' /\ WorkerTypeOK' /\ RecTypeOK' /\ StopTypeOK'
  <2>0. /\ run \in RunRows /\ broker \subseteq Tasks \X Attempts
        /\ revoked \subseteq Tasks
        /\ DispTypeOK /\ WorkerTypeOK /\ RecTypeOK /\ StopTypeOK
    BY DEF TypeOK, StoreTypeOK, RunRows
  <2>1. UNCHANGED disp => DispTypeOK'
    BY <2>0 DEF DispTypeOK
  <2>2. UNCHANGED wk => WorkerTypeOK'
    BY <2>0 DEF WorkerTypeOK
  <2>3. UNCHANGED rec => RecTypeOK'
    BY <2>0 DEF RecTypeOK
  <2>4. UNCHANGED stop => StopTypeOK'
    BY <2>0 DEF StopTypeOK
  <2>5. CASE DispatcherNext
    BY <2>2, <2>3, <2>4, <2>5, DispatchTypes DEF DispatcherNext
  <2>6. CASE DelivererNext
    BY <2>1, <2>3, <2>4, <2>6, DeliveryTypes DEF DelivererNext
  <2>7. CASE ReconcilerNext
    BY <2>0, <2>1, <2>2, <2>4, <2>7, ReconcilerTypes DEF ReconcilerNext
  <2>8. CASE ControlNext
    BY <2>0, <2>1, <2>2, <2>3, <2>8, ControlTypes DEF ControlNext
  <2>9. CASE UNCHANGED vars
    BY <2>0, <2>1, <2>2, <2>3, <2>4, <2>9 DEF vars
  <2> QED BY <2>5, <2>6, <2>7, <2>8, <2>9 DEF Next
<1>6. TypeOK'
  BY <1>3, <1>4, <1>5 DEF TypeOK, StoreTypeOK, RunRows, Quotas
<1>7. Fresh'
  <2> SUFFICES ASSUME NEW t \in Tasks
               PROVE  /\ quota'[t].status = "none"
                           => \A k \in Attempts : quota'[t].attempt[k] = "none"
                      /\ disp'[t].phase = "new" => quota'[t].status = "none"
                      /\ disp'[t].phase \in {"new", "reserved"}
                           => task'[t].status = "none"
    BY DEF Fresh
  <2>1. quota[t] \in Quotas /\ task[t] \in Rows
    BY <1>2
  <2>2. Admitted(quota[t], quota'[t]) => quota'[t].status = "reserved"
    BY <2>1 DEF Admitted, Reserved, Quotas
  <2>3. \/ QuotaChange(quota[t], quota'[t])
        \/ /\ Admitted(quota[t], quota'[t])
           /\ disp[t].phase = "new" /\ disp'[t].phase = "reserved"
    BY <1>1 DEF QuotasChange
  <2>4. \/ RowChange(task[t], task'[t])
        \/ disp[t].phase = "reserved" /\ disp'[t].phase = "recorded"
    BY <1>1 DEF RowsChange
  <2>5. disp'[t].phase \in {"new", "reserved"}
          => \/ disp'[t].phase = disp[t].phase
             \/ disp[t].phase = "new" /\ disp'[t].phase = "reserved"
    BY DispatchGoesOn
  <2>6. quota'[t].status = "none"
          => \A k \in Attempts : quota'[t].attempt[k] = "none"
    BY <2>1, <2>2, <2>3, NoQuotaStays DEF Fresh
  <2>7. disp'[t].phase = "new" => quota'[t].status = "none"
    BY <2>1, <2>3, <2>5, NoQuotaStays DEF Fresh
  <2>8. disp'[t].phase \in {"new", "reserved"} => task'[t].status = "none"
    BY <2>1, <2>4, <2>5, NoRowStays DEF Fresh
  <2> QED BY <2>6, <2>7, <2>8
<1> QED BY <1>6, <1>7

(* Every variable keeps its type, for any number of tasks, workers, passes *)
(* and retries and any set of faults: no action writes a stage, status,    *)
(* code or token that the readers of the row do not know.                  *)
THEOREM TypeCorrect == Spec => []TypeOK
<1>1. IndInv => TypeOK
  BY DEF IndInv
<1> QED BY <1>1, InitIndInv, StepIndInv, PTL DEF Spec

-----------------------------------------------------------------------------
(***************************************************************************)
(* Proofs of safety properties of TaskPipeline for every value of its      *)
(* constants.  They rest on StepChanges: whatever a step does to the rows  *)
(* and reservations is one of the statements of                            *)
(* TaskRecords, or the insertion or admission of a new dispatch.           *)
(***************************************************************************)

(* IndInv holds in every reachable state. *)
LEMMA Inductive == Spec => []IndInv
BY InitIndInv, StepIndInv, PTL DEF Spec

(* What IndInv says of the rows and reservations, in the shape the lemmas  *)
(* about single rows need.                                                 *)
LEMMA RowsAndQuotas ==
  ASSUME IndInv
  PROVE  task \in [Tasks -> Rows] /\ quota \in [Tasks -> Quotas]
BY DEF IndInv, TypeOK, StoreTypeOK, Quotas

-----------------------------------------------------------------------------
(* Outcomes. *)

(* No statement on a task row changes a success. *)
LEMMA SuccessStays ==
  ASSUME NEW old \in Rows, NEW new, RowChange(old, new), old.status = "success"
  PROVE  new.status = "success"
BY DEF RowChange, Rows, PromotedToQueued, Claimable, FinishedIfClaimed,
       HoldsClaim, MarkedRevoked, FailedIfPending, FailedIfRunning,
       CleanupClaimable, CleanupFinished, CleanupReleased

(* A success is never taken back, whoever writes the row in whatever order *)
(* and whatever fails.                                                     *)
THEOREM SuccessPreserved == Spec => SuccessIsForever
<1>1. IndInv /\ [Next]_vars
        => [\A t \in Tasks : task[t].status = "success"
                               => task'[t].status = "success"]_vars
  <2> SUFFICES ASSUME IndInv, [Next]_vars, NEW t \in Tasks,
                      task[t].status = "success"
               PROVE  task'[t].status = "success"
    OBVIOUS
  <2>1. task[t] \in Rows
    BY RowsAndQuotas
  <2>2. RowsChange
    BY StepChanges DEF IndInv
  <2>3. RowChange(task[t], task'[t])
    BY <2>2 DEF RowsChange, Inserted
  <2> QED BY <2>1, <2>3, SuccessStays
<1> QED BY <1>1, Inductive, PTL DEF Spec, SuccessIsForever

(* A run that a user cancelled is neither revived nor failed by a request, *)
(* a delivery or a reconciler pass, however late they come.                *)
THEOREM CancellationPreserved == Spec => CancelledUntilResumed
<1> DEFINE Revived == run.status = "cancelled" /\ run'.status # "cancelled"
           ByUser  == /\ run' = [run EXCEPT !.status = "running"]
                      /\ wk' = wk /\ rec' = rec
<1>1. IndInv /\ [Next]_vars => [Revived => ByUser]_vars
  <2> SUFFICES ASSUME IndInv, Next, Revived PROVE ByUser
    OBVIOUS
  <2>0. run \in RunRows
    BY DEF IndInv, TypeOK, StoreTypeOK, RunRows
  <2>1. /\ \A kind : RunAdvanced(run, kind) = run
        /\ \A stages : RunFailed(run, stages) = run
    BY DEF RunAdvanced, RunFailed
  <2>2. ~DispatcherNext
    <3>1. ASSUME NEW t \in Tasks, DispatchStep(t) \/ DispatchFault(t)
          PROVE  run'.status = run.status
      BY <2>0, <3>1 DEF DispatchStep, DispatchFault, RecordPending,
         RecordConflict, Enqueue, Promote, Accept, FoundCancelled, UndoOne,
         UndoDone, BrokerUnreadable, EnqueueFails, GenerationChanged,
         PromoteFails, UndoFails, DispatchCrash, StageRolledBack, storeVars,
         RunRows
    <3>2. ASSUME NEW t \in Tasks, NEW kind \in Kinds, Trigger(t, kind)
          PROVE  run' = run
      BY <3>2 DEF Trigger
    <3> QED BY <3>1, <3>2 DEF DispatcherNext, DispatchNext
  <2>3. ~DelivererNext
    <3>1. ASSUME NEW w \in Workers, DeliveryStep(w) \/ DeliveryFault(w)
          PROVE  run' = run
      BY <2>1, <3>1 DEF DeliveryStep, DeliveryFault, Claim, StageGuard,
         ResolveContext, InputError, AuthorizeAttempt, ProviderReturns, Finish,
         Settle, Reject, Release, Fail, FailInput, FailBySignal, MarkForRetry,
         Requeue, Ack, ProviderFails, SoftTimeLimit, Interrupted, HardTimeLimit, WorkerLost,
         KillRevoked, StatementFails, storeVars
    <3>2. ASSUME NEW w \in Workers, NEW m \in broker,
                 Deliver(w, m) \/ ShutdownDrop(w, m) \/ DiscardRevoked(m)
          PROVE  run' = run
      BY <3>2 DEF Deliver, ShutdownDrop, DiscardRevoked, storeVars
    <3>3. ASSUME NEW m \in broker, DiscardRevoked(m) PROVE run' = run
      BY <3>3 DEF DiscardRevoked
    <3> QED BY <3>1, <3>2, <3>3 DEF DelivererNext, WorkerNext
  <2>4. ~ReconcilerNext
    <3>1. \A t : RunRolledBack(t) = run
      BY <2>1 DEF RunRolledBack
    <3> QED BY <3>1 DEF ReconcilerNext, Find, FindStalePending, FindStuck,
            FindUnfinishedCleanup, Reconcile, ReconcilerFault, Mark, TakeLease,
            CleanupOne, EndCleanup, CleanupFails, FinishFails, ReconcilerCrash, storeVars
  <2>5. CASE ControlNext
    BY <2>0, <2>5 DEF ControlNext, Stop, Resume, Restart, Back, Approval,
       StopRun, ResumeRun, RestartRun, GoBack, Approve, StopStep, StopAborts,
       CollectActive, NextStopPass, BroadcastRevoke, BroadcastFails,
       MarkRevoked, FinalizeRevoked, storeVars, RunRows
  <2> QED BY <2>2, <2>3, <2>4, <2>5 DEF Next
<1> QED BY <1>1, Inductive, PTL DEF Spec, CancelledUntilResumed

-----------------------------------------------------------------------------
(* Claims and leases. *)

(* ClaimDiscipline of one row. *)
Disciplined(row) ==
  /\ row.status = "running" => row.token \in Workers /\ row.code = "none"
  /\ row.code \in BlockedCodes => row.status = "failed"
  /\ row.code = "cleanup_claimed" =>
       row.token \in Reconcilers /\ row.saved \in CleanupMarkers

(* Every statement leaves a disciplined row disciplined. *)
LEMMA RowDiscipline ==
  ASSUME NEW old \in Rows, NEW new, Disciplined(old),
         RowChange(old, new) \/ Inserted(old, new)
  PROVE  Disciplined(new)
<1> USE DEF Disciplined, Rows, BlockedCodes, CleanupMarkers, FinalCodes
<1>1. CASE Inserted(old, new)
  BY <1>1 DEF Inserted, PendingRow, NoRow
<1>2. CASE new = old \/ new = PromotedToQueued(old) \/ new = MarkedRevoked(old)
           \/ new = FailedIfPending(old) \/ new = FailedIfRunning(old)
  BY <1>2 DEF PromotedToQueued, MarkedRevoked, FailedIfPending, FailedIfRunning
<1>3. CASE \E w \in Workers : Claimable(old, old.token) /\ new = Claimed(old, w)
  BY <1>3 DEF Claimable, Claimed
<1>4. CASE \E w \in Workers, status \in {"success", "failed", "rejected"},
             code \in {"none", "error"} :
             new = FinishedIfClaimed(old, w, status, code)
  BY <1>4 DEF FinishedIfClaimed, HoldsClaim
<1>5. CASE \E r \in Reconcilers :
             CleanupClaimable(old) /\ new = CleanupClaimed(old, r)
  BY <1>5 DEF CleanupClaimable, CleanupClaimed
<1>6. CASE \E r \in Reconcilers, code \in {"none"} \cup FinalCodes :
             new = CleanupFinished(old, r, code)
  BY <1>6 DEF CleanupFinished, HoldsLease
<1>7. CASE \E r \in Reconcilers : new = CleanupReleased(old, r)
  BY <1>7 DEF CleanupReleased, HoldsLease
<1> QED BY <1>1, <1>2, <1>3, <1>4, <1>5, <1>6, <1>7 DEF RowChange

(* ClaimDiscipline is preserved by every step. *)
LEMMA DisciplineStep ==
  ASSUME IndInv, ClaimDiscipline, [Next]_vars
  PROVE  ClaimDiscipline'
<1> SUFFICES ASSUME NEW t \in Tasks PROVE Disciplined(task'[t])
  BY DEF ClaimDiscipline, Disciplined
<1>1. task[t] \in Rows /\ Disciplined(task[t])
  BY RowsAndQuotas DEF ClaimDiscipline, Disciplined
<1>2. RowChange(task[t], task'[t]) \/ Inserted(task[t], task'[t])
  BY StepChanges DEF IndInv, RowsChange
<1> QED BY <1>1, <1>2, RowDiscipline

(* ClaimDiscipline holds initially. *)
LEMMA DisciplineInit == Init => ClaimDiscipline
BY DEF Init, StoreInit, ClaimDiscipline, NoRow, BlockedCodes, CleanupMarkers

(* A running row always names the worker that claimed it, and a row under  *)
(* a cleanup lease the pass that holds it and the marker to go back to.    *)
THEOREM ClaimsAreDisciplined == Spec => []ClaimDiscipline
BY DisciplineInit, DisciplineStep, Inductive, PTL DEF Spec

-----------------------------------------------------------------------------
(* Quota. *)

(* SpendIsKept of one reservation. *)
Kept(q) ==
  /\ q.status \in {"none", "reserved", "cancelled"} => ~HasAttempt(q, "accounted")
  /\ q.status \in {"settled", "billable_unknown"} => ~HasAttempt(q, "authorized")
  /\ \A j, k \in Attempts :
       q.attempt[j] = "accounted" /\ q.attempt[k] = "accounted" => j = k

(* Every statement on a reservation keeps the spend it recorded; one that  *)
(* does not exist yet has no attempts.                                     *)
LEMMA SpendStays ==
  ASSUME NEW old \in Quotas, NEW new, Kept(old),
         QuotaChange(old, new) \/ Admitted(old, new),
         old.status = "none" => \A k \in Attempts : old.attempt[k] = "none"
  PROVE  Kept(new)
<1> USE DEF Kept, Quotas, HasAttempt
<1>1. CASE new = old
  BY <1>1
<1>2. CASE Admitted(old, new)
  BY <1>2 DEF Admitted, Reserved
<1>3. CASE new = QuotaCancelled(old)
  BY <1>3 DEF QuotaCancelled
<1>4. CASE \E unknown \in BOOLEAN : new = QuotaSettled(old, unknown)
  <2> PICK unknown \in BOOLEAN : new = QuotaSettled(old, unknown)
    BY <1>4
  <2>1. CASE new = old
    BY <2>1
  <2>2. CASE new # old
    <3>1. /\ new.status \in {"settled", "billable_unknown"}
          /\ new.attempt = [k \in Attempts |->
               IF old.attempt[k] = "authorized" THEN "unknown"
               ELSE old.attempt[k]]
      BY <2>2 DEF QuotaSettled
    <3> QED BY <3>1
  <2> QED BY <2>1, <2>2
<1>5. CASE \E k \in Attempts : Authorizable(old, k) /\ new = Authorized(old, k)
  <2> PICK k \in Attempts : Authorizable(old, k) /\ new = Authorized(old, k)
    BY <1>5
  <2>1. CASE old.attempt[k] # "none"
    BY <2>1 DEF Authorized
  <2>2. CASE old.attempt[k] = "none"
    BY <2>2 DEF Authorizable, Authorized
  <2> QED BY <2>1, <2>2
<1>6. CASE \E k \in Attempts : Recordable(old, k) /\ new = Recorded(old, k)
  <2> PICK k \in Attempts : Recordable(old, k) /\ new = Recorded(old, k)
    BY <1>6
  <2>1. CASE HasAttempt(old, "accounted")
    BY <2>1 DEF Recorded
  <2>2. CASE ~HasAttempt(old, "accounted")
    <3>1. old.attempt[k] = "authorized" /\ old.status \in {"reserved", "consumed"}
      BY <2>2 DEF Recordable, QuotaStatuses
    <3>2. new = [status |-> "consumed",
                 attempt |-> [old.attempt EXCEPT ![k] = "accounted"]]
      BY <2>2, <3>1 DEF Recorded
    <3> QED BY <2>2, <3>2
  <2> QED BY <2>1, <2>2
<1> QED BY <1>1, <1>2, <1>3, <1>4, <1>5, <1>6 DEF QuotaChange

(* SpendIsKept is preserved by every step. *)
LEMMA SpendStep ==
  ASSUME IndInv, SpendIsKept, [Next]_vars
  PROVE  SpendIsKept'
<1> SUFFICES ASSUME NEW t \in Tasks PROVE Kept(quota'[t])
  BY DEF SpendIsKept, Kept, HasAttempt
<1>1. quota[t] \in Quotas /\ Kept(quota[t])
  BY RowsAndQuotas DEF SpendIsKept, Kept
<1>2. quota[t].status = "none" => \A k \in Attempts : quota[t].attempt[k] = "none"
  BY DEF IndInv, Fresh
<1>3. QuotaChange(quota[t], quota'[t]) \/ Admitted(quota[t], quota'[t])
  BY StepChanges DEF IndInv, QuotasChange
<1> QED BY <1>1, <1>2, <1>3, SpendStays

(* SpendIsKept holds initially. *)
LEMMA SpendInit == Init => SpendIsKept
BY DEF Init, StoreInit, SpendIsKept, NoQuota, HasAttempt

(* Accounted spend is never handed back or counted twice, and a settled    *)
(* owner has no open attempt, for any number of tasks, retries, workers    *)
(* and passes.                                                             *)
THEOREM SpendKept == Spec => []SpendIsKept
BY SpendInit, SpendStep, Inductive, PTL DEF Spec

-----------------------------------------------------------------------------
(* Final reconciler codes. *)

(* What makes FinalRowReleased inductive: a pass that would write a final  *)
(* code has released the reservation, or still has the release before it;  *)
(* it works on a row that was dispatched, whose reservation is therefore   *)
(* not admitted once more; and a row that does not exist has no code.      *)
ReleaseBeforeFinal ==
  /\ \A r \in Reconcilers :
       /\ rec[r].phase # "idle" => disp[rec[r].task].phase # "new"
       /\ rec[r].phase \in {"mark_pending", "mark_stuck", "lease"} =>
            rec[r].todo \in {PendingPlan, StuckPlan}
       /\ rec[r].phase = "cleanup" /\ rec[r].ok
            /\ rec[r].todo \in {<<>>, <<Rollback>>} =>
            quota[rec[r].task].status # "reserved"
  /\ \A t \in Tasks : task[t].status = "none" => task[t].code = "none"

(* The five states of a cleanup plan, by what is left to do. *)
LEMMA PlanSteps ==
  ASSUME NEW plan \in CleanupPlans
  PROVE  /\ PendingPlan \notin {<<>>, <<Rollback>>}
         /\ StuckPlan \notin {<<>>, <<Rollback>>}
         /\ plan # <<>> /\ Head(plan) # CancelQuota
              /\ Tail(plan) \in {<<>>, <<Rollback>>} => plan = <<Rollback>>
<1> USE DEF CleanupPlans, PendingPlan, StuckPlan, Rollback, CancelQuota
<1>1. PendingPlan \notin {<<>>, <<Rollback>>}
  OBVIOUS
<1>2. StuckPlan \notin {<<>>, <<Rollback>>}
  OBVIOUS
<1>3. CASE plan = PendingPlan
  <2>1. Tail(plan) = <<CancelQuota>>
    BY <1>3
  <2>2. Tail(plan) \notin {<<>>, <<Rollback>>}
    BY <2>1
  <2> QED BY <1>1, <1>2, <2>2
<1>4. CASE plan = StuckPlan
  <2>1. Head(plan) = CancelQuota
    BY <1>4
  <2> QED BY <1>1, <1>2, <2>1
<1>5. CASE plan = <<Rollback>> \/ plan = <<>>
  BY <1>1, <1>2, <1>5
<1>6. CASE plan = <<CancelQuota>>
  <2>1. Head(plan) = CancelQuota
    BY <1>6
  <2> QED BY <1>1, <1>2, <2>1
<1> QED BY <1>3, <1>4, <1>5, <1>6

(* Once released, or spent, a reservation is not held again. *)
LEMMA ReleasedStays ==
  ASSUME IndInv, [Next]_vars, NEW t \in Tasks, disp[t].phase # "new",
         quota[t].status # "reserved"
  PROVE  quota'[t].status # "reserved"
<1>1. quota[t] \in Quotas
  BY RowsAndQuotas
<1>2. QuotaChange(quota[t], quota'[t])
  BY StepChanges DEF IndInv, QuotasChange
<1>3. CASE \E unknown \in BOOLEAN : quota'[t] = QuotaSettled(quota[t], unknown)
  BY <1>1, <1>3 DEF QuotaSettled, Quotas
<1>4. CASE quota'[t] = quota[t] \/ quota'[t] = QuotaCancelled(quota[t])
  BY <1>1, <1>4 DEF QuotaCancelled, Quotas
<1>5. CASE \E k \in Attempts : quota'[t] = Authorized(quota[t], k)
  BY <1>1, <1>5 DEF Authorized, Quotas
<1>6. CASE \E k \in Attempts : quota'[t] = Recorded(quota[t], k)
  BY <1>1, <1>6 DEF Recorded, Quotas
<1> QED BY <1>2, <1>3, <1>4, <1>5, <1>6 DEF QuotaChange

(* A request that has begun never becomes a new one. *)
LEMMA BegunStays ==
  ASSUME IndInv, [Next]_vars, NEW t \in Tasks, disp[t].phase # "new"
  PROVE  disp'[t].phase # "new"
BY DispatchGoesOn DEF IndInv

(* Only the end of a cleanup writes a final code, and only of a row that   *)
(* it holds and whose steps all succeeded.                                 *)
LEMMA FinalCodeOrigin ==
  ASSUME IndInv, [Next]_vars, NEW t \in Tasks,
         task'[t].code \in FinalCodes, task'[t].code # task[t].code
  PROVE  \E r \in Reconcilers : /\ EndCleanup(r) /\ rec[r].ok
                                /\ rec[r].task = t
<1>0. task \in [Tasks -> Rows] /\ task[t] \in Rows
  BY RowsAndQuotas
<1>1. "none" \notin FinalCodes /\ "error" \notin FinalCodes
      /\ "cleanup_claimed" \notin FinalCodes
      /\ CleanupMarkers \cap FinalCodes = {}
  BY DEF FinalCodes, CleanupMarkers
<1> DEFINE Quiet(new) == new.code \in FinalCodes => new.code = task[t].code
<1>2. /\ \A kind, n : Quiet(PendingRow(kind, n))
      /\ Quiet(PromotedToQueued(task[t])) /\ Quiet(MarkedRevoked(task[t]))
      /\ Quiet(FailedIfPending(task[t])) /\ Quiet(FailedIfRunning(task[t]))
      /\ \A r : Quiet(CleanupClaimed(task[t], r)) /\ Quiet(Claimed(task[t], r))
      /\ \A r : Quiet(CleanupReleased(task[t], r))
      /\ \A w, status : \A code \in {"none", "error"} :
           Quiet(FinishedIfClaimed(task[t], w, status, code))
  BY <1>0, <1>1 DEF PendingRow, NoRow, PromotedToQueued, MarkedRevoked,
     FailedIfPending, FailedIfRunning, CleanupClaimed, Claimed,
     CleanupReleased, FinishedIfClaimed, Rows, FinalCodes, CleanupMarkers
<1> HIDE DEF Quiet
<1>3. ~Quiet(task'[t])
  BY DEF Quiet
<1>4. task'[t] # task[t]
  BY <1>3 DEF Quiet
<1>5. ~DispatcherNext
  <2>1. ASSUME NEW u \in Tasks, DispatchStep(u) \/ DispatchFault(u)
        PROVE  FALSE
    BY <1>0, <1>2, <1>3, <1>4, <2>1 DEF DispatchStep, DispatchFault,
       RecordPending, RecordConflict, Enqueue, Promote, Accept, FoundCancelled,
       UndoOne, UndoDone, BrokerUnreadable, EnqueueFails, GenerationChanged,
       PromoteFails, UndoFails, DispatchCrash, storeVars
  <2>2. ASSUME NEW u \in Tasks, NEW kind \in Kinds, Trigger(u, kind)
        PROVE  FALSE
    BY <1>4, <2>2 DEF Trigger
  <2> QED BY <2>1, <2>2 DEF DispatcherNext, DispatchNext
<1>6. ~DelivererNext
  <2>1. ASSUME NEW w \in Workers, DeliveryStep(w) \/ DeliveryFault(w)
        PROVE  FALSE
    <3>1. task' = task \/ \E u : \/ task' = [task EXCEPT ![u] = Claimed(@, w)]
                                \/ \E status : \E code \in {"none", "error"} :
                                     task' = [task EXCEPT ![u] =
                                       FinishedIfClaimed(@, w, status, code)]
      BY <2>1 DEF DeliveryStep, DeliveryFault, Claim, StageGuard,
         ResolveContext, InputError, AuthorizeAttempt, ProviderReturns, Finish,
         Settle, Reject, Release, Fail, FailInput, FailBySignal, MarkForRetry,
         Requeue, Ack, ProviderFails, SoftTimeLimit, Interrupted, HardTimeLimit, WorkerLost,
         KillRevoked, StatementFails, storeVars
    <3> QED BY <1>0, <1>2, <1>3, <1>4, <3>1
  <2>2. ASSUME NEW w \in Workers, NEW m \in broker,
               Deliver(w, m) \/ ShutdownDrop(w, m)
        PROVE  FALSE
    BY <1>4, <2>2 DEF Deliver, ShutdownDrop, storeVars
  <2>3. ASSUME NEW m \in broker, DiscardRevoked(m) PROVE FALSE
    BY <1>4, <2>3 DEF DiscardRevoked
  <2> QED BY <2>1, <2>2, <2>3 DEF DelivererNext, WorkerNext
<1>7. ~ControlNext
  BY <1>0, <1>2, <1>3, <1>4 DEF ControlNext, Stop, Resume, Restart, Back,
     Approval, StopRun, ResumeRun, RestartRun, GoBack, Approve, StopStep,
     StopAborts, CollectActive, NextStopPass, BroadcastRevoke, BroadcastFails,
     MarkRevoked, FinalizeRevoked, storeVars
<1>8. ReconcilerNext
  BY <1>4, <1>5, <1>6, <1>7 DEF Next, vars
<1>9. PICK r \in Reconcilers : \/ \E u \in Tasks : Find(r, u)
                               \/ Reconcile(r)
                               \/ ReconcilerFault(r)
  BY <1>8 DEF ReconcilerNext
<1>10. EndCleanup(r)
  BY <1>0, <1>2, <1>3, <1>4, <1>9 DEF Find, FindStalePending, FindStuck,
     FindUnfinishedCleanup, Reconcile, Mark, TakeLease, CleanupOne,
     ReconcilerFault, CleanupFails, FinishFails, ReconcilerCrash, storeVars
<1>11. rec[r].task = t /\ rec[r].ok
  BY <1>0, <1>2, <1>3, <1>4, <1>10 DEF EndCleanup
<1> QED BY <1>10, <1>11

(* FinalRowReleased with what makes it inductive. *)
FinalInv == ReleaseBeforeFinal /\ FinalRowReleased

(* A row that does not exist has no code, and is not given one. *)
LEMMA NoRowNoCode ==
  ASSUME IndInv, [Next]_vars, NEW t \in Tasks,
         task[t].status = "none" => task[t].code = "none",
         task'[t].status = "none"
  PROVE  task'[t].code = "none"
<1>1. task[t] \in Rows
  BY RowsAndQuotas
<1>2. RowChange(task[t], task'[t]) \/ Inserted(task[t], task'[t])
  BY StepChanges DEF IndInv, RowsChange
<1> QED BY <1>1, <1>2 DEF RowChange, Inserted, PendingRow, NoRow, Rows,
        PromotedToQueued, Claimable, Claimed, FinishedIfClaimed, HoldsClaim,
        MarkedRevoked, FailedIfPending, FailedIfRunning, CleanupClaimable,
        CleanupClaimed, CleanupFinished, HoldsLease, CleanupReleased

(* What ReleaseBeforeFinal says of the pass r. *)
PassReleases(r) ==
  /\ rec[r].phase # "idle" => disp[rec[r].task].phase # "new"
  /\ rec[r].phase \in {"mark_pending", "mark_stuck", "lease"} =>
       rec[r].todo \in {PendingPlan, StuckPlan}
  /\ rec[r].phase = "cleanup" /\ rec[r].ok
       /\ rec[r].todo \in {<<>>, <<Rollback>>} =>
       quota[rec[r].task].status # "reserved"

(* A pass that does nothing keeps what it knows of its row. *)
LEMMA PassWaits ==
  ASSUME IndInv, [Next]_vars, NEW r \in Reconcilers, PassReleases(r),
         rec'[r] = rec[r]
  PROVE  PassReleases(r)'
<1>1. rec[r].phase # "idle" => rec[r].task \in Tasks
  BY DEF IndInv, TypeOK, RecTypeOK
<1>2. CASE rec[r].phase = "idle"
  BY <1>2 DEF PassReleases
<1>3. CASE rec[r].phase # "idle"
  BY <1>1, <1>3, ReleasedStays, BegunStays DEF PassReleases
<1> QED BY <1>2, <1>3

(* A pass that acts goes on knowing it. *)
LEMMA PassActs ==
  ASSUME IndInv, ReconcilerNext, NEW r \in Reconcilers, PassReleases(r),
         rec'[r] # rec[r]
  PROVE  PassReleases(r)'
<1>1. /\ rec \in [Reconcilers -> RecRecords] /\ rec[r] \in RecRecords
      /\ rec[r].phase # "idle" => rec[r].task \in Tasks
      /\ disp' = disp
      /\ quota \in [Tasks -> Quotas]
  BY RowsAndQuotas DEF IndInv, TypeOK, RecTypeOK, ReconcilerNext
<1>2. PICK q \in Reconcilers : \/ \E t \in Tasks : Find(q, t)
                               \/ Reconcile(q)
                               \/ ReconcilerFault(q)
  BY DEF ReconcilerNext
<1>3. q = r
  BY <1>1, <1>2 DEF Find, FindStalePending, FindStuck, FindUnfinishedCleanup,
     StartAt, Forget, Reconcile, Mark, TakeLease, CleanupOne, EndCleanup,
     ReconcilerFault, CleanupFails, FinishFails, ReconcilerCrash
<1>4. ASSUME Forget(r) PROVE PassReleases(r)'
  BY <1>1, <1>4 DEF Forget, IdleReconciler, PassReleases
<1>5. ASSUME NEW t \in Tasks, Find(r, t) PROVE PassReleases(r)'
  <2>1. task[t].status # "none"
    BY <1>5 DEF Find, FindStalePending, FindStuck, FindUnfinishedCleanup,
       CleanupClaimable
  <2>2. disp'[t].phase # "new"
    BY <1>1, <2>1 DEF IndInv, Fresh
  <2>3. /\ rec'[r].task = t /\ rec'[r].todo \in {PendingPlan, StuckPlan}
        /\ rec'[r].phase # "cleanup"
    BY <1>1, <1>5 DEF Find, FindStalePending, FindStuck,
       FindUnfinishedCleanup, StartAt
  <2> QED BY <2>2, <2>3 DEF PassReleases
<1>6. CASE Mark(r)
  BY <1>1, <1>4, <1>6 DEF Mark, PassReleases, RecRecords
<1>7. CASE TakeLease(r)
  <2>1. rec[r].todo \in CleanupPlans /\ rec[r].todo \notin {<<>>, <<Rollback>>}
    BY <1>1, <1>7, PlanSteps DEF TakeLease, PassReleases, RecRecords
  <2> QED BY <1>1, <1>4, <1>7, <2>1 DEF TakeLease, PassReleases, RecRecords
<1>8. CASE CleanupOne(r)
  <2> DEFINE t == rec[r].task
  <2>1. /\ t \in Tasks /\ rec[r].todo \in CleanupPlans /\ rec[r].todo # <<>>
        /\ rec[r].phase = "cleanup"
    BY <1>1, <1>8 DEF CleanupOne, RecRecords
  <2>2. /\ rec'[r].phase = "cleanup" /\ rec'[r].task = t
        /\ rec'[r].ok = rec[r].ok /\ rec'[r].todo = Tail(rec[r].todo)
    BY <1>1, <1>8, <2>1 DEF CleanupOne, RecRecords
  <2>3. CASE Head(rec[r].todo) = CancelQuota
    <3>1. quota'[t] = QuotaCancelled(quota[t])
      BY <1>1, <1>8, <2>1, <2>3 DEF CleanupOne
    <3>2. quota'[t].status # "reserved"
      BY <1>1, <2>1, <3>1 DEF QuotaCancelled, Quotas
    <3> QED BY <1>1, <2>1, <2>2, <3>2 DEF PassReleases
  <2>4. CASE Head(rec[r].todo) # CancelQuota
    <3>1. quota' = quota
      BY <1>8, <2>4 DEF CleanupOne
    <3>2. Tail(rec[r].todo) \in {<<>>, <<Rollback>>} => rec[r].todo = <<Rollback>>
      BY <2>1, <2>4, PlanSteps
    <3> QED BY <1>1, <2>1, <2>2, <3>1, <3>2 DEF PassReleases
  <2> QED BY <2>3, <2>4
<1>9. CASE CleanupFails(r) \/ FinishFails(r)
  <2>1. /\ rec'[r].phase = "cleanup" /\ rec'[r].task = rec[r].task
        /\ rec'[r].ok = FALSE /\ rec[r].phase = "cleanup"
    BY <1>1, <1>9 DEF CleanupFails, FinishFails, RecRecords
  <2> QED BY <1>1, <2>1 DEF PassReleases
<1> QED BY <1>2, <1>3, <1>4, <1>5, <1>6, <1>7, <1>8, <1>9
        DEF Reconcile, EndCleanup, ReconcilerFault, ReconcilerCrash

(* FinalInv is preserved by every step. *)
LEMMA FinalStep ==
  ASSUME IndInv, FinalInv, [Next]_vars
  PROVE  FinalInv'
<1>1. ASSUME NEW r \in Reconcilers PROVE PassReleases(r)'
  <2>1. PassReleases(r)
    BY DEF FinalInv, ReleaseBeforeFinal, PassReleases
  <2>2. rec' = rec \/ ReconcilerNext
    BY DEF Next, vars, DispatcherNext, DelivererNext, ControlNext
  <2> QED BY <2>1, <2>2, PassWaits, PassActs
<1>2. \A t \in Tasks : task'[t].status = "none" => task'[t].code = "none"
  BY NoRowNoCode DEF FinalInv, ReleaseBeforeFinal
<1>3. ASSUME NEW t \in Tasks, task'[t].code \in FinalCodes
      PROVE  quota'[t].status # "reserved"
  <2>1. CASE task'[t].code = task[t].code
    <3>1. quota[t].status # "reserved" /\ task[t].status # "none"
      BY <1>3, <2>1 DEF FinalInv, FinalRowReleased, ReleaseBeforeFinal, FinalCodes
    <3>2. disp[t].phase # "new"
      BY <3>1 DEF IndInv, Fresh
    <3> QED BY <3>1, <3>2, ReleasedStays
  <2>2. CASE task'[t].code # task[t].code
    <3>1. PICK r \in Reconcilers : EndCleanup(r) /\ rec[r].ok /\ rec[r].task = t
      BY <1>3, <2>2, FinalCodeOrigin
    <3>2. quota[t].status # "reserved" /\ quota' = quota
      BY <3>1 DEF EndCleanup, FinalInv, ReleaseBeforeFinal
    <3> QED BY <3>2
  <2> QED BY <2>1, <2>2
<1> QED BY <1>1, <1>2, <1>3
        DEF FinalInv, ReleaseBeforeFinal, PassReleases, FinalRowReleased

(* FinalInv holds initially. *)
LEMMA FinalInit == Init => FinalInv
BY DEF Init, StoreInit, RecInit, IdleReconciler, NoRow, FinalInv,
       ReleaseBeforeFinal, FinalRowReleased, FinalCodes

(* A row with a final code of the reconciler never holds its reservation,  *)
(* whatever fails, dies, or is taken over between the release and the      *)
(* final code.                                                             *)
THEOREM FinalRowsReleased == Spec => []FinalRowReleased
<1>1. FinalInv => FinalRowReleased
  BY DEF FinalInv
<1> QED BY <1>1, FinalInit, FinalStep, Inductive, PTL DEF Spec

-----------------------------------------------------------------------------
(* Late results. *)

(* The stages in which a user decides. *)
UserStages == ReviewStages \cup {"VISUAL_PLAN_SETUP", "PUBLISHED"}

(* Only narration takes such a stage for a safe one, and only one.         *)
LEMMA SafeIsNotUsers ==
  ASSUME NEW kind \in Kinds, NEW stage \in SafeStages[kind] \cap UserStages
  PROVE  kind = "generate_audio" /\ stage = "VISUAL_ASSET_REVIEW"
BY StoreAssumption DEF SafeStages, UserStages, ReviewStages

(* A delivery that changes the run ends the claim of its task, and finds   *)
(* the run in a stage that is safe for its kind.                           *)
LEMMA DeliveryMovesRun ==
  ASSUME IndInv, DelivererNext, run' # run
  PROVE  \E t \in Tasks : /\ ClaimEnds(t) /\ task[t].kind \in Kinds
                          /\ run.stage \in SafeStages[task[t].kind]
<1>1. PICK w \in Workers : DeliveryStep(w) \/ DeliveryFault(w)
  BY DEF DelivererNext, WorkerNext, Deliver, ShutdownDrop, DiscardRevoked,
     storeVars
<1> DEFINE t == wk[w].task
           kind == task[t].kind
<1>2. Finish(w) \/ Fail(w) \/ HardTimeLimit(w)
  BY <1>1 DEF DeliveryStep, DeliveryFault, Claim, StageGuard,
     ResolveContext, InputError, AuthorizeAttempt, ProviderReturns,
     Settle, Reject, Release, FailInput, FailBySignal, MarkForRetry,
     Requeue, Ack, ProviderFails, SoftTimeLimit, Interrupted, WorkerLost,
     KillRevoked, StatementFails, storeVars
<1>3. wk[w].phase \notin {"idle", "down"}
  BY <1>2 DEF Finish, Fail, HardTimeLimit
<1>4. t \in Tasks /\ task \in [Tasks -> Rows]
  BY <1>3, RowsAndQuotas DEF IndInv, TypeOK, WorkerTypeOK
<1>5. /\ HoldsClaim(task[t], w)
      /\ \/ run' = RunAdvanced(run, kind)
         \/ run' = RunFailed(run, SafeStages[kind])
      /\ \/ task' = [task EXCEPT ![t] = FinishedIfClaimed(@, w, "success", "none")]
         \/ task' = [task EXCEPT ![t] = FinishedIfClaimed(@, w, "failed", "error")]
  BY <1>2 DEF Finish, Fail, HardTimeLimit
<1>6. ClaimEnds(t)
  <2>1. \A status \in {"success", "failed"}, code \in {"none", "error"} :
          FinishedIfClaimed(task[t], w, status, code).status # "running"
    BY <1>4, <1>5 DEF FinishedIfClaimed, HoldsClaim, Rows
  <2>2. task[t].status = "running"
    BY <1>5 DEF HoldsClaim
  <2> QED BY <1>4, <1>5, <2>1, <2>2 DEF ClaimEnds
<1>7. kind \in Kinds
  BY <1>4, <1>5 DEF HoldsClaim, IndInv, TypeOK, StoreTypeOK
<1>8. run.stage \in SafeStages[kind]
  BY <1>5 DEF RunAdvanced, RunFailed
<1> QED BY <1>4, <1>6, <1>7, <1>8

(* However late deliveries come, and however many there are, none moves or *)
(* fails a run that waits for its user, except that a delivery of          *)
(* narration takes a run out of the review of its assets, under its claim. *)
THEOREM LateResultsDropped == Spec => LateResultsAreDropped
<1> DEFINE Allowed ==
      \/ run.stage \notin UserStages
      \/ /\ run.stage = "VISUAL_ASSET_REVIEW"
         /\ \E t \in Tasks : ClaimEnds(t) /\ task[t].kind = "generate_audio"
<1>1. IndInv /\ [Next]_vars
        => [run' # run /\ (wk' # wk \/ \E t \in Tasks : ClaimEnds(t)) => Allowed]_vars
  <2> SUFFICES ASSUME IndInv, Next, run' # run,
                      wk' # wk \/ \E t \in Tasks : ClaimEnds(t)
               PROVE  Allowed
    BY DEF vars
  <2>1. CASE DelivererNext
    <3>1. PICK t \in Tasks : /\ ClaimEnds(t) /\ task[t].kind \in Kinds
                             /\ run.stage \in SafeStages[task[t].kind]
      BY <2>1, DeliveryMovesRun
    <3> QED BY <3>1, SafeIsNotUsers
  <2>2. ~(wk' = wk /\ task' = task)
    BY DEF ClaimEnds
  <2>3. ~DispatcherNext
    <3>1. SUFFICES ASSUME DispatcherNext PROVE FALSE
      OBVIOUS
    <3>2. wk' = wk /\ task' # task
      BY <2>2, <3>1 DEF DispatcherNext
    <3>3. PICK t \in Tasks : RecordPending(t)
      BY <3>1, <3>2 DEF DispatcherNext, DispatchNext, Trigger, DispatchStep,
         DispatchFault, RecordConflict, Enqueue, Promote, Accept,
         FoundCancelled, UndoOne, UndoDone, BrokerUnreadable, EnqueueFails,
         GenerationChanged, PromoteFails, UndoFails, DispatchCrash, storeVars
    <3>4. task[t].status = "none"
      BY <3>3 DEF RecordPending, IndInv, Fresh, NoRow
    <3>5. PICK u \in Tasks : ClaimEnds(u)
      BY <3>2
    <3> QED BY <3>3, <3>4, <3>5, RowsAndQuotas DEF RecordPending, ClaimEnds
  <2>4. ~ReconcilerNext
    BY <2>2 DEF ReconcilerNext, Find, FindStalePending, FindStuck,
       FindUnfinishedCleanup, Reconcile, Mark, TakeLease, CleanupOne,
       EndCleanup, ReconcilerFault, CleanupFails, FinishFails,
       ReconcilerCrash, storeVars
  <2>5. ~ControlNext
    BY <2>2 DEF ControlNext, Stop, Resume, Restart, Back, Approval, StopRun,
       ResumeRun, RestartRun, GoBack, Approve, StopStep, StopAborts,
       CollectActive, NextStopPass, BroadcastRevoke, MarkRevoked,
       FinalizeRevoked, BroadcastFails, storeVars
  <2> QED BY <2>1, <2>3, <2>4, <2>5 DEF Next
<1> QED BY <1>1, Inductive, PTL DEF Spec, LateResultsAreDropped, UserStages

-----------------------------------------------------------------------------
(* Refinement of TaskLife. *)

(* Every statement moves the life of its row on as TaskLife allows, or not *)
(* at all.                                                                 *)
LEMMA RowLives ==
  ASSUME NEW old \in Rows, NEW new, Disciplined(old),
         RowChange(old, new) \/ Inserted(old, new)
  PROVE  Life(new) = Life(old) \/ Life(new) \in TL!Following[Life(old)]
<1> USE DEF Life, Disciplined, Rows, TaskStatuses, BlockedCodes,
            CleanupMarkers, FinalCodes
<1>0. /\ TL!Following["none"] = {"pending"}
      /\ TL!Following["pending"] = {"queued", "running", "cleanup", "revoked"}
      /\ TL!Following["queued"] = {"running", "revoked"}
      /\ TL!Following["running"] = {"success", "failed", "rejected", "cleanup",
                                   "revoked"}
      /\ TL!Following["failed"] = {"running", "revoked"}
      /\ TL!Following["cleanup"] = {"failed", "revoked"}
      /\ TL!Following["rejected"] = {"revoked"}
  BY DEF TL!Following
<1>1. CASE Inserted(old, new)
  BY <1>0, <1>1 DEF Inserted, PendingRow, NoRow
<1>2. CASE new = old \/ new = PromotedToQueued(old)
  BY <1>0, <1>2 DEF PromotedToQueued
<1>3. CASE new = MarkedRevoked(old)
  BY <1>0, <1>3 DEF MarkedRevoked
<1>4. CASE new = FailedIfPending(old) \/ new = FailedIfRunning(old)
  BY <1>0, <1>4 DEF FailedIfPending, FailedIfRunning
<1>5. CASE \E w \in Workers : Claimable(old, old.token) /\ new = Claimed(old, w)
  BY <1>0, <1>5 DEF Claimable, Claimed
<1>6. CASE \E w \in Workers, status \in {"success", "failed", "rejected"},
             code \in {"none", "error"} :
             new = FinishedIfClaimed(old, w, status, code)
  BY <1>0, <1>6 DEF FinishedIfClaimed, HoldsClaim
<1>7. CASE \E r \in Reconcilers :
             CleanupClaimable(old) /\ new = CleanupClaimed(old, r)
  BY <1>7 DEF CleanupClaimable, CleanupClaimed
<1>8. CASE \E r \in Reconcilers, code \in {"none"} \cup FinalCodes :
             new = CleanupFinished(old, r, code)
  BY <1>0, <1>8 DEF CleanupFinished, HoldsLease
<1>9. CASE \E r \in Reconcilers : new = CleanupReleased(old, r)
  BY <1>0, <1>9 DEF CleanupReleased, HoldsLease
<1> QED BY <1>1, <1>2, <1>3, <1>4, <1>5, <1>6, <1>7, <1>8, <1>9 DEF RowChange

(* No step writes the rows of two tasks. *)
LEMMA OneRowAtATime ==
  ASSUME [Next]_vars
  PROVE  task' = task \/ \E t, new : task' = [task EXCEPT ![t] = new]
<1>1. CASE DispatcherNext
  BY ZenonT(60), <1>1 DEF DispatcherNext, DispatchNext, Trigger, DispatchStep,
     DispatchFault, RecordPending, RecordConflict, Enqueue, Promote, Accept,
     FoundCancelled, UndoOne, UndoDone, BrokerUnreadable, EnqueueFails,
     GenerationChanged, PromoteFails, UndoFails, DispatchCrash, storeVars
<1>2. CASE DelivererNext
  BY ZenonT(60), <1>2 DEF DelivererNext, WorkerNext, DeliveryStep, DeliveryFault, Deliver,
     ShutdownDrop, DiscardRevoked, Claim, StageGuard, ResolveContext,
     InputError, AuthorizeAttempt, ProviderReturns, Finish, Settle, Reject,
     Release, Fail, FailInput, FailBySignal, MarkForRetry, Requeue, Ack,
     ProviderFails, SoftTimeLimit, Interrupted, HardTimeLimit, WorkerLost, KillRevoked,
     StatementFails, storeVars
<1>3. CASE ReconcilerNext
  BY <1>3 DEF ReconcilerNext, Find, FindStalePending, FindStuck,
     FindUnfinishedCleanup, Reconcile, Mark, TakeLease, CleanupOne, EndCleanup,
     ReconcilerFault, CleanupFails, FinishFails, ReconcilerCrash, storeVars
<1>4. CASE ControlNext
  BY <1>4 DEF ControlNext, Stop, Resume, Restart, Back, Approval, StopRun,
     ResumeRun, RestartRun, GoBack, Approve, StopStep, StopAborts,
     CollectActive, NextStopPass, BroadcastRevoke, BroadcastFails, MarkRevoked,
     FinalizeRevoked, storeVars
<1> QED BY <1>1, <1>2, <1>3, <1>4 DEF Next, vars

(* A step of the pipeline is a step of TaskLife or leaves every life as it *)
(* is.                                                                     *)
LEMMA LifeStep ==
  ASSUME IndInv, ClaimDiscipline, [Next]_vars
  PROVE  [TL!Next]_([t \in Tasks |-> Life(task[t])])
<1> DEFINE life == [t \in Tasks |-> Life(task[t])]
           life2 == [t \in Tasks |-> Life(task'[t])]
<1>1. CASE task' = task
  BY <1>1
<1>2. CASE \E t, new : task' = [task EXCEPT ![t] = new]
  <2>1. PICK t, new : task' = [task EXCEPT ![t] = new]
    BY <1>2
  <2>2. task \in [Tasks -> Rows]
    BY RowsAndQuotas
  <2>3. \A u \in Tasks : u # t => task'[u] = task[u]
    BY <2>1, <2>2
  <2>4. CASE t \notin Tasks
    BY <2>3, <2>4
  <2>5. CASE t \in Tasks
    <3>1. RowChange(task[t], task'[t]) \/ Inserted(task[t], task'[t])
      BY <2>5, StepChanges DEF IndInv, RowsChange
    <3>2. Disciplined(task[t])
      BY <2>5 DEF ClaimDiscipline, Disciplined
    <3>3. \/ Life(task'[t]) = Life(task[t])
          \/ Life(task'[t]) \in TL!Following[Life(task[t])]
      BY <2>2, <2>5, <3>1, <3>2, RowLives
    <3>4. life2 = [life EXCEPT ![t] = Life(task'[t])]
      BY <2>3, <2>5
    <3>5. CASE Life(task'[t]) = Life(task[t])
      BY <2>3, <3>5
    <3>6. CASE Life(task'[t]) \in TL!Following[Life(task[t])]
      BY <2>5, <3>4, <3>6 DEF TL!Next, TL!Advance
    <3> QED BY <3>3, <3>5, <3>6
  <2> QED BY <2>4, <2>5
<1> QED BY <1>1, <1>2, OneRowAtATime

(* The rows implement TaskLife: for any number of tasks, workers, passes   *)
(* and retries and under every fault, a row only goes where its readers    *)
(* are promised it goes.                                                   *)
THEOREM TaskLifeImplemented == Spec => ImplementsTaskLife
<1>1. Init => TL!Init
  BY DEF Init, StoreInit, NoRow, Life, TL!Init, BlockedCodes, CleanupMarkers
<1> QED BY <1>1, LifeStep, ClaimsAreDisciplined, Inductive, PTL
        DEF Spec, ImplementsTaskLife, TL!Spec

-----------------------------------------------------------------------------
(***************************************************************************)
(* What claims and leases exclude in TaskPipeline, for every value of its  *)
(* constants the properties are meant for: one executor of a task, one     *)
(* cleanup of a row, and no run that is failed for work it has left        *)
(* behind.                                                                 *)
(*                                                                         *)
(* Who excludes whom is not in the row alone: a worker relies on a claim   *)
(* it made some phases ago, and a pass on a listing or on a lease.         *)
(* ExclusionInv therefore says for every phase what the row still says.    *)
(***************************************************************************)

(* Worker w relies on the claim it has made on t. *)
Holding(w, t) == wk[w].task = t /\ wk[w].phase \in ClaimPhases \cup {"signal"}

(* The row of t still is the one worker w has claimed. *)
ClaimStands(w, t) == HoldsClaim(task[t], w) \/ task[t].status = "revoked"

(* The row of t still is the one pass r has leased. *)
LeaseStands(r, t) ==
  \/ task[t].status = "failed" /\ HoldsLease(task[t], r)
  \/ task[t].status = "revoked"

(* A lease can be lost to a revocation only. *)
LeasesStand ==
  \A r \in Reconcilers :
    rec[r].phase = "cleanup" => LeaseStands(r, rec[r].task)

(* So can a claim, and of a revoked task one worker at most had it. *)
ClaimsStand ==
  /\ \A w \in Workers, t \in Tasks : Holding(w, t) => ClaimStands(w, t)
  /\ \A v, w \in Workers, t \in Tasks : Holding(v, t) /\ Holding(w, t) => v = w

(* A row listed as stuck has lost its worker for good. *)
StuckHasNoWorker ==
  \A r \in Reconcilers, w \in Workers :
    rec[r].phase = "mark_stuck" =>
      /\ task[rec[r].task].status \in {"running", "revoked"}
      /\ task[rec[r].task].status = "running" => ~Holding(w, rec[r].task)

(* Nobody relies on a claim of a row under cleanup. *)
CleanedHasNoWorker ==
  \A r \in Reconcilers, w \in Workers :
    rec[r].phase = "cleanup" => ~Holding(w, rec[r].task)

ExclusionInv == ClaimsStand /\ StuckHasNoWorker /\ CleanedHasNoWorker

-----------------------------------------------------------------------------
(* Newer work. *)

(* A pass that fails the run has found no newer dispatch of the task it    *)
(* cleans up, in the statement that fails the run: whatever was dispatched *)
(* or has succeeded since the listing is spared.                           *)
THEOREM NewerWorkSpared == Spec => ReconcilerSparesNewer
<1>1. ASSUME IndInv, Next, NEW r \in Reconcilers, rec'[r] # rec[r], run' # run
      PROVE  ~HasNewerTask(rec[r].task)
  <2>1. rec \in [Reconcilers -> RecRecords]
    BY <1>1 DEF IndInv, TypeOK, RecTypeOK
  <2>2. ReconcilerNext
    BY <1>1 DEF Next, DispatcherNext, DelivererNext, ControlNext
  <2>3. PICK q \in Reconcilers : \/ \E t \in Tasks : Find(q, t)
                                 \/ Reconcile(q)
                                 \/ ReconcilerFault(q)
    BY <2>2 DEF ReconcilerNext
  <2>4. CleanupOne(q)
    BY <1>1, <2>3 DEF Find, FindStalePending, FindStuck, FindUnfinishedCleanup,
       Reconcile, Mark, TakeLease, EndCleanup, ReconcilerFault, CleanupFails,
       FinishFails, ReconcilerCrash, storeVars
  <2>5. q = r
    BY <1>1, <2>1, <2>4 DEF CleanupOne
  <2>6. run' = run \/ run' = RunRolledBack(rec[q].task)
    BY <2>4 DEF CleanupOne
  <2> QED BY <1>1, <2>5, <2>6 DEF RunRolledBack
<1>2. IndInv /\ [Next]_vars
        => [\A r \in Reconcilers :
              (rec'[r] # rec[r] /\ run' # run) => ~HasNewerTask(rec[r].task)]_vars
  BY <1>1
<1> QED BY <1>2, Inductive, PTL DEF Spec, ReconcilerSparesNewer

-----------------------------------------------------------------------------
(* Leases. *)

(* What everybody but a reconciler pass does to a row that exists.         *)
PlainChange(old, new) ==
  \/ new = old
  \/ new = PromotedToQueued(old)
  \/ \E w \in Workers : Claimable(old, old.token) /\ new = Claimed(old, w)
  \/ \E w \in Workers, status \in {"success", "failed", "rejected"},
        code \in {"none", "error"} :
       new = FinishedIfClaimed(old, w, status, code)
  \/ new = MarkedRevoked(old)

(* A step of the requests, the workers or the users changes rows plainly,  *)
(* or inserts one.                                                         *)
LEMMA PlainRows ==
  ASSUME IndInv, DispatcherNext \/ DelivererNext \/ ControlNext
  PROVE  /\ rec' = rec
         /\ \A t \in Tasks : \/ PlainChange(task[t], task'[t])
                             \/ task[t].status = "none"
<1>0. task \in [Tasks -> Rows]
  BY RowsAndQuotas
<1>1. rec' = rec
  BY DEF DispatcherNext, DelivererNext, ControlNext
<1> DEFINE Plain == \A t \in Tasks : \/ PlainChange(task[t], task'[t])
                                     \/ task[t].status = "none"
<1> SUFFICES Plain
  BY <1>1
<1>2. task' = task => Plain
  BY DEF PlainChange
<1>3. ASSUME NEW t \in Tasks, NEW new, PlainChange(task[t], new),
             task' = [task EXCEPT ![t] = new]
      PROVE  Plain
  BY <1>0, <1>3 DEF PlainChange
<1>4. \A t \in Tasks : PlainChange(task[t], MarkedRevoked(task[t]))
  BY DEF PlainChange
<1> HIDE DEF Plain
<1>5. CASE DispatcherNext
  <2>1. PICK t \in Tasks : \/ \E kind \in Kinds : Trigger(t, kind)
                           \/ DispatchStep(t)
                           \/ DispatchFault(t)
    BY <1>5 DEF DispatcherNext, DispatchNext
  <2>2. CASE RecordPending(t)
    <3>1. task[t].status = "none"
      BY <2>2 DEF RecordPending, IndInv, Fresh
    <3> QED BY <1>0, <2>2, <3>1 DEF RecordPending, PlainChange, Plain
  <2>3. CASE Promote(t)
    <3>1. PlainChange(task[t], PromotedToQueued(task[t]))
      BY DEF PlainChange
    <3> QED BY <1>3, <2>3, <3>1 DEF Promote
  <2>4. CASE UndoOne(t)
    <3>1. task' = task \/ task' = [task EXCEPT ![t] = MarkedRevoked(@)]
      BY <2>4 DEF UndoOne
    <3> QED BY <1>2, <1>3, <1>4, <3>1
  <2>5. CASE ~(RecordPending(t) \/ Promote(t) \/ UndoOne(t))
    <3>1. task' = task
      BY <2>1, <2>5 DEF Trigger, DispatchStep, DispatchFault, RecordConflict,
         Enqueue, Accept, FoundCancelled, UndoDone, BrokerUnreadable,
         EnqueueFails, GenerationChanged, PromoteFails, UndoFails,
         DispatchCrash, storeVars
    <3> QED BY <1>2, <3>1
  <2> QED BY <2>2, <2>3, <2>4, <2>5
<1>6. CASE DelivererNext
  <2>1. task' = task \/ \E w \in Workers : DeliveryStep(w) \/ DeliveryFault(w)
    BY <1>6 DEF DelivererNext, WorkerNext, Deliver, ShutdownDrop, DiscardRevoked,
       storeVars
  <2>2. ASSUME NEW w \in Workers, DeliveryStep(w) \/ DeliveryFault(w) PROVE Plain
    <3>1. CASE wk[w].phase \in {"idle", "down"}
      <4>1. task' = task
        BY <2>2, <3>1 DEF DeliveryStep, DeliveryFault, Claim, StageGuard,
           ResolveContext, InputError, AuthorizeAttempt, ProviderReturns, Finish,
           Settle, Reject, Release, Fail, FailInput, FailBySignal, MarkForRetry,
           Requeue, Ack, ProviderFails, SoftTimeLimit, Interrupted, HardTimeLimit, WorkerLost,
           KillRevoked, StatementFails, ClaimPhases, WorkerPhases, storeVars
      <4> QED BY <1>2, <4>1
    <3>2. CASE wk[w].phase \notin {"idle", "down"}
      <4>1. wk[w].task \in Tasks
        BY <3>2 DEF IndInv, TypeOK, WorkerTypeOK
      <4>2. CASE Claim(w)
        <5>1. Claimable(task[wk[w].task], wk[w].seen)
                => PlainChange(task[wk[w].task], Claimed(task[wk[w].task], w))
          BY DEF PlainChange, Claimable
        <5> QED BY <1>2, <1>3, <4>1, <4>2, <5>1 DEF Claim
      <4>3. \A status \in {"success", "failed", "rejected"},
               code \in {"none", "error"} :
              PlainChange(task[wk[w].task],
                          FinishedIfClaimed(task[wk[w].task], w, status, code))
        BY DEF PlainChange
      <4>4. CASE ~Claim(w)
        <5>1. \/ task' = task
              \/ \E status \in {"success", "failed", "rejected"},
                    code \in {"none", "error"} :
                   task' = [task EXCEPT ![wk[w].task] =
                              FinishedIfClaimed(@, w, status, code)]
          BY <2>2, <4>4 DEF DeliveryStep, DeliveryFault, StageGuard,
             ResolveContext, InputError, AuthorizeAttempt, ProviderReturns, Finish,
             Settle, Reject, Release, Fail, FailInput, FailBySignal, MarkForRetry,
             Requeue, Ack, ProviderFails, SoftTimeLimit, Interrupted, HardTimeLimit, WorkerLost,
             KillRevoked, StatementFails, storeVars
        <5> QED BY <1>2, <1>3, <4>1, <4>3, <5>1
      <4> QED BY <4>2, <4>4
    <3> QED BY <3>1, <3>2
  <2> QED BY <1>2, <2>1, <2>2
<1>7. CASE ControlNext
  <2>1. ASSUME NEW t \in Tasks, MarkRevoked(t) PROVE Plain
    BY <1>3, <1>4, <2>1 DEF MarkRevoked
  <2>2. task' = task \/ \E t \in Tasks : MarkRevoked(t)
    BY <1>7 DEF ControlNext, Stop, Resume, Restart, Back, Approval, StopRun,
       ResumeRun, RestartRun, GoBack, Approve, StopStep, StopAborts,
       CollectActive, NextStopPass, BroadcastRevoke, BroadcastFails,
       FinalizeRevoked, storeVars
  <2> QED BY <1>2, <2>1, <2>2
<1> QED BY <1>5, <1>6, <1>7

(* What a reconciler step does, pass by pass. *)
LEMMA PassSteps ==
  ASSUME IndInv, ReconcilerNext
  PROVE  /\ wk' = wk /\ disp' = disp /\ stop' = stop
         /\ \E r \in Reconcilers :
              /\ \A q \in Reconcilers \ {r} : rec'[q] = rec[q]
              /\ \/ \E t \in Tasks : Find(r, t)
                 \/ Mark(r) \/ CleanupOne(r) \/ EndCleanup(r)
                 \/ LeaseExpired(rec[r].task) /\ TakeLease(r)
                 \/ ReconcilerFault(r)
<1>1. PICK r \in Reconcilers : \/ \E t \in Tasks : Find(r, t)
                               \/ Reconcile(r)
                               \/ ReconcilerFault(r)
  BY DEF ReconcilerNext
<1>2. rec \in [Reconcilers -> RecRecords]
  BY DEF IndInv, TypeOK, RecTypeOK
<1>3. \A q \in Reconcilers \ {r} : rec'[q] = rec[q]
  BY <1>1, <1>2 DEF Find, FindStalePending, FindStuck, FindUnfinishedCleanup,
     StartAt, Forget, Reconcile, Mark, TakeLease, CleanupOne, EndCleanup,
     ReconcilerFault, CleanupFails, FinishFails, ReconcilerCrash
<1> QED BY <1>1, <1>3 DEF ReconcilerNext, Reconcile

(* None of that takes a lease away, unless the row is revoked.             *)
LEMMA PlainKeepsLease ==
  ASSUME NEW old \in Rows, NEW new, PlainChange(old, new), NEW r \in Reconcilers,
         \/ old.status = "failed" /\ HoldsLease(old, r)
         \/ old.status = "revoked"
  PROVE  \/ new.status = "failed" /\ HoldsLease(new, r)
         \/ new.status = "revoked"
<1>1. ~Claimable(old, old.token) /\ old.status \notin {"none", "pending", "running"}
  BY DEF Claimable, HoldsLease, BlockedCodes
<1>2. CASE \/ new = old \/ new = PromotedToQueued(old)
           \/ \E w \in Workers, status \in {"success", "failed", "rejected"},
                code \in {"none", "error"} :
               new = FinishedIfClaimed(old, w, status, code)
  BY <1>1, <1>2 DEF PromotedToQueued, FinishedIfClaimed, HoldsClaim
<1>3. CASE new = MarkedRevoked(old)
  BY <1>1, <1>3 DEF MarkedRevoked, Rows
<1> QED BY <1>1, <1>2, <1>3 DEF PlainChange

(* A pass that holds a lease holds it until it ends, or until the row is   *)
(* revoked: nobody takes over what is not overdue.                         *)
LEMMA LeaseStep ==
  ASSUME IndInv, LeasesStand, "slow" \notin Faults, [Next]_vars
  PROVE  LeasesStand'
<1> SUFFICES ASSUME NEW r \in Reconcilers, rec'[r].phase = "cleanup"
             PROVE  LeaseStands(r, rec[r].task)'
  BY DEF LeasesStand
<1>0. /\ task \in [Tasks -> Rows] /\ rec \in [Reconcilers -> RecRecords]
      /\ \A q \in Reconcilers : rec[q].phase # "idle" => rec[q].task \in Tasks
  BY RowsAndQuotas DEF IndInv, TypeOK, RecTypeOK
<1>1. CASE DispatcherNext \/ DelivererNext \/ ControlNext
  <2>1. rec' = rec /\ rec[r].task \in Tasks /\ LeaseStands(r, rec[r].task)
    BY <1>0, <1>1, PlainRows DEF LeasesStand
  <2>2. PlainChange(task[rec[r].task], task'[rec[r].task])
    BY <1>1, <2>1, PlainRows DEF LeaseStands
  <2> QED BY <1>0, <2>1, <2>2, PlainKeepsLease DEF LeaseStands
<1>2. CASE UNCHANGED vars
  BY <1>2 DEF vars, LeasesStand, LeaseStands
<1>3. CASE ReconcilerNext
  <2>1. PICK q \in Reconcilers :
          /\ \A p \in Reconcilers \ {q} : rec'[p] = rec[p]
          /\ \/ \E t \in Tasks : Find(q, t)
             \/ Mark(q) \/ CleanupOne(q) \/ EndCleanup(q)
             \/ LeaseExpired(rec[q].task) /\ TakeLease(q)
             \/ ReconcilerFault(q)
    BY <1>3, PassSteps
  <2>2. CASE q = r
    <3>1. CASE TakeLease(r)
      <4>1. /\ rec[r].task \in Tasks /\ rec'[r].task = rec[r].task
            /\ CleanupClaimable(task[rec[r].task])
            /\ task'[rec[r].task] = CleanupClaimed(task[rec[r].task], r)
        BY <1>0, <3>1 DEF TakeLease, Forget, IdleReconciler, RecRecords
      <4> QED BY <1>0, <4>1 DEF LeaseStands, HoldsLease, CleanupClaimed,
              CleanupClaimable, Rows
    <3>2. CASE CleanupOne(r) \/ CleanupFails(r) \/ FinishFails(r)
      <4>1. /\ rec[r].phase = "cleanup" /\ rec'[r].task = rec[r].task
            /\ task' = task
        BY <1>0, <3>2 DEF CleanupOne, CleanupFails, FinishFails, storeVars, RecRecords
      <4> QED BY <4>1 DEF LeasesStand, LeaseStands
    <3> QED BY <1>0, <2>1, <2>2, <3>1, <3>2 DEF Find, FindStalePending, FindStuck,
            FindUnfinishedCleanup, StartAt, Mark, EndCleanup, Forget,
            IdleReconciler, ReconcilerFault, ReconcilerCrash, RecRecords
  <2>3. CASE q # r
    <3> DEFINE t == rec[r].task
    <3>1. rec'[r] = rec[r] /\ t \in Tasks /\ LeaseStands(r, t)
      BY <1>0, <2>1, <2>3 DEF LeasesStand
    <3>2. CASE task'[t] = task[t]
      BY <3>1, <3>2 DEF LeaseStands
    <3>3. CASE Mark(q)
      <4>1. task' = [task EXCEPT ![rec[q].task] = FailedIfPending(@)]
              \/ task' = [task EXCEPT ![rec[q].task] = FailedIfRunning(@)]
        BY <3>3 DEF Mark
      <4>2. task[t].status \notin {"pending", "running"}
        BY <3>1 DEF LeaseStands
      <4>3. task'[t] = task[t]
        BY <1>0, <3>1, <4>1, <4>2 DEF FailedIfPending, FailedIfRunning
      <4> QED BY <3>2, <4>3
    <3>4. CASE LeaseExpired(rec[q].task) /\ TakeLease(q)
      <4>1. CASE rec[q].task = t /\ CleanupClaimable(task[t])
        <5>1. HoldsLease(task[t], r)
          BY <3>1, <4>1 DEF LeaseStands, CleanupClaimable
        <5>2. UnderCleanup(t)
          BY <3>1, <5>1 DEF UnderCleanup, HoldsLease
        <5> QED BY <3>4, <4>1, <5>1, <5>2 DEF LeaseExpired, Slow, HoldsLease
      <4>2. CASE ~(rec[q].task = t /\ CleanupClaimable(task[t]))
        <5>1. task'[t] = task[t]
          BY <1>0, <3>1, <3>4, <4>2 DEF TakeLease
        <5> QED BY <3>2, <5>1
      <4> QED BY <4>1, <4>2
    <3>5. CASE EndCleanup(q)
      <4>1. \/ task'[t] = task[t]
            \/ task'[t] = CleanupFinished(task[t], q, rec[q].final)
            \/ task'[t] = CleanupReleased(task[t], q)
        BY <1>0, <3>1, <3>5 DEF EndCleanup
      <4>2. ~HoldsLease(task[t], q) \/ task[t].status = "revoked"
        BY <2>3, <3>1 DEF LeaseStands, HoldsLease
      <4> QED BY <1>0, <3>1, <3>2, <4>1, <4>2 DEF CleanupFinished, CleanupReleased,
              LeaseStands, Rows
    <3>6. CASE (\E u \in Tasks : Find(q, u)) \/ CleanupOne(q) \/ ReconcilerFault(q)
      <4>1. task' = task
        BY <3>6 DEF Find, FindStalePending, FindStuck, FindUnfinishedCleanup,
           CleanupOne, ReconcilerFault, CleanupFails, FinishFails,
           ReconcilerCrash, storeVars
      <4> QED BY <3>2, <4>1
    <3> QED BY <2>1, <3>3, <3>4, <3>5, <3>6
  <2> QED BY <2>2, <2>3
<1> QED BY <1>1, <1>2, <1>3 DEF Next

(* A pass that begins a cleanup finds no other one at it. *)
LEMMA PassesStep ==
  ASSUME IndInv, LeasesStand, PassesExclude, "slow" \notin Faults, [Next]_vars
  PROVE  PassesExclude'
<1> SUFFICES ASSUME NEW q \in Reconcilers, NEW r \in Reconcilers, q # r,
                    rec'[q].phase = "cleanup", rec'[r].phase = "cleanup",
                    rec'[q].task = rec'[r].task
             PROVE  FALSE
  BY DEF PassesExclude
<1>0. rec \in [Reconcilers -> RecRecords]
  BY DEF IndInv, TypeOK, RecTypeOK
<1>1. CASE rec' = rec
  BY <1>1 DEF PassesExclude
<1>2. CASE ReconcilerNext
  <2>1. PICK p \in Reconcilers :
          /\ \A o \in Reconcilers \ {p} : rec'[o] = rec[o]
          /\ \/ \E t \in Tasks : Find(p, t)
             \/ Mark(p) \/ CleanupOne(p) \/ EndCleanup(p)
             \/ LeaseExpired(rec[p].task) /\ TakeLease(p)
             \/ ReconcilerFault(p)
    BY <1>2, PassSteps
  <2>2. ASSUME NEW o \in Reconcilers, o # p, rec[o].phase = "cleanup",
               rec[o].task = rec[p].task
        PROVE  ~(LeaseExpired(rec[p].task) /\ TakeLease(p)) \/ rec'[p].phase # "cleanup"
    <3> SUFFICES ASSUME LeaseExpired(rec[p].task), TakeLease(p),
                        rec'[p].phase = "cleanup"
                 PROVE  FALSE
      OBVIOUS
    <3>1. CleanupClaimable(task[rec[p].task])
      BY <1>0 DEF TakeLease, Forget, IdleReconciler
    <3>2. task[rec[p].task].status = "failed" /\ HoldsLease(task[rec[p].task], o)
      BY <2>2, <3>1 DEF LeasesStand, LeaseStands, CleanupClaimable
    <3>3. UnderCleanup(rec[p].task)
      BY <2>2, <3>2 DEF UnderCleanup, HoldsLease
    <3> QED BY <3>2, <3>3 DEF LeaseExpired, Slow, HoldsLease
  <2>3. rec'[p].phase = "cleanup"
          => /\ rec'[p].task = rec[p].task
             /\ \/ rec[p].phase = "cleanup"
                \/ LeaseExpired(rec[p].task) /\ TakeLease(p)
    BY <1>0, <2>1 DEF Find, FindStalePending, FindStuck, FindUnfinishedCleanup,
       StartAt, Mark, CleanupOne, EndCleanup, TakeLease, Forget, IdleReconciler,
       ReconcilerFault, CleanupFails, FinishFails, ReconcilerCrash, RecRecords
  <2>4. CASE p \notin {q, r}
    BY <2>1, <2>4 DEF PassesExclude
  <2>5. CASE p = q
    BY <2>1, <2>2, <2>3, <2>5 DEF PassesExclude
  <2>6. CASE p = r
    BY <2>1, <2>2, <2>3, <2>6 DEF PassesExclude
  <2> QED BY <2>4, <2>5, <2>6
<1> QED BY <1>1, <1>2 DEF Next, vars, DispatcherNext, DelivererNext, ControlNext

(* Whatever fails or dies and however many passes overlap, a row has one   *)
(* cleanup at a time, as long as no cleanup outlasts its lease.            *)
THEOREM OneCleanup ==
  ASSUME "slow" \notin Faults
  PROVE  Spec => []PassesExclude
<1>1. Init => LeasesStand /\ PassesExclude
  BY DEF Init, RecInit, IdleReconciler, LeasesStand, PassesExclude
<1>2. IndInv /\ LeasesStand /\ PassesExclude /\ [Next]_vars
        => LeasesStand' /\ PassesExclude'
  BY LeaseStep, PassesStep
<1> QED BY <1>1, <1>2, Inductive, PTL DEF Spec

-----------------------------------------------------------------------------
(* Executions. *)

(* The phases in which a worker relies on a claim. *)
HoldPhases == ClaimPhases \cup {"signal"}

(* What a statement of a delivery does to the claims, without time limits  *)
(* and failing statements: worker w drops what it had, claims a row, goes  *)
(* on with its claim, or ends the row it has claimed.                      *)
Drops(w) == task' = task /\ wk'[w].phase \notin HoldPhases

Claims(w) ==
  LET t == wk[w].task IN
    /\ t \in Tasks /\ wk'[w].task = t /\ Claimable(task[t], wk[w].seen)
    /\ task' = [task EXCEPT ![t] = Claimed(@, w)]

GoesOn(w) ==
  /\ task' = task /\ wk'[w].task = wk[w].task
  /\ wk[w].phase \in HoldPhases

Ends(w) ==
  LET t == wk[w].task IN
    /\ t \in Tasks /\ wk[w].phase \in HoldPhases /\ wk'[w].phase \notin HoldPhases
    /\ \/ task' = task
       \/ \E status \in {"success", "failed", "rejected"}, code \in {"none", "error"} :
            task' = [task EXCEPT ![t] = FinishedIfClaimed(@, w, status, code)]

(* Every statement of a delivery is one of these. *)
LEMMA DeliverySteps ==
  ASSUME IndInv, Faults \cap {"timeout", "db"} = {}, DelivererNext
  PROVE  /\ rec' = rec
         /\ \/ UNCHANGED <<task, wk>>
            \/ \E w \in Workers :
                 /\ \A v \in Workers \ {w} : wk'[v] = wk[v]
                 /\ Drops(w) \/ Claims(w) \/ GoesOn(w) \/ Ends(w)
<1> USE DEF HoldPhases, ClaimPhases
<1>0. /\ wk \in [Workers -> WorkerRecords] /\ broker \subseteq Tasks \X Attempts
      /\ \A w \in Workers : wk[w].phase \notin {"idle", "down"} => wk[w].task \in Tasks
  BY DEF IndInv, TypeOK, WorkerTypeOK, StoreTypeOK
<1>1. rec' = rec
  BY DEF DelivererNext
<1>2. CASE \E m \in broker : DiscardRevoked(m)
  BY <1>1, <1>2 DEF DiscardRevoked
<1>3. ASSUME NEW w \in Workers, NEW m \in broker, Deliver(w, m) \/ ShutdownDrop(w, m)
      PROVE  \/ UNCHANGED <<task, wk>>
             \/ (\A v \in Workers \ {w} : wk'[v] = wk[v]) /\ Drops(w)
  BY <1>0, <1>3 DEF Deliver, ShutdownDrop, Drops, storeVars
<1>4. ASSUME NEW w \in Workers, DeliveryStep(w) \/ DeliveryFault(w)
      PROVE  /\ \A v \in Workers \ {w} : wk'[v] = wk[v]
             /\ Drops(w) \/ Claims(w) \/ GoesOn(w) \/ Ends(w)
  <2>1. \A v \in Workers \ {w} : wk'[v] = wk[v]
    BY <1>0, <1>4 DEF DeliveryStep, DeliveryFault, Claim, StageGuard,
       ResolveContext, InputError, AuthorizeAttempt, ProviderReturns, Finish,
       Settle, Reject, Release, Fail, FailInput, FailBySignal, MarkForRetry,
       Requeue, Ack, ProviderFails, SoftTimeLimit, Interrupted, HardTimeLimit, WorkerLost,
       KillRevoked, StatementFails, Go
  <2> SUFFICES Drops(w) \/ Claims(w) \/ GoesOn(w) \/ Ends(w)
    BY <2>1
  <2>2. CASE Claim(w)
    BY <1>0, <2>2 DEF Claim, Claims, Drops, Go, WorkerRecords
  <2>3. CASE \/ StageGuard(w) \/ ResolveContext(w) \/ InputError(w)
             \/ AuthorizeAttempt(w) \/ ProviderReturns(w) \/ ProviderFails(w)
    BY <1>0, <2>3 DEF StageGuard, ResolveContext, InputError, AuthorizeAttempt,
       ProviderReturns, ProviderFails, GoesOn, Go, storeVars, WorkerRecords
  <2>4. CASE Release(w) /\ wk[w].phase = "unrejected"
    BY <1>0, <2>4 DEF Release, GoesOn, Go, WorkerRecords
  <2>5. CASE \/ Settle(w) \/ Requeue(w) \/ Ack(w)
             \/ Release(w) /\ wk[w].phase # "unrejected"
    <3>1. task' = task /\ wk'[w].phase \in {"acking", "idle"}
      <4>1. CASE Settle(w)
        BY <1>0, <4>1 DEF Settle, Go, WorkerRecords
      <4>2. CASE Release(w) /\ wk[w].phase # "unrejected"
        BY <1>0, <4>2 DEF Release, Go, WorkerRecords
      <4>3. CASE Requeue(w)
        BY <1>0, <4>3 DEF Requeue, Go, WorkerRecords
      <4>4. CASE Ack(w)
        BY <1>0, <4>4 DEF Ack, IdleWorker
      <4> QED BY <2>5, <4>1, <4>2, <4>3, <4>4
    <3> QED BY <3>1 DEF Drops
  <2>6. CASE \/ Finish(w) \/ Reject(w) \/ FailInput(w) \/ FailBySignal(w)
             \/ MarkForRetry(w)
    <3>1. /\ wk[w].task \in Tasks /\ wk[w].phase \in HoldPhases
          /\ wk'[w].phase \notin HoldPhases
      BY <1>0, <2>6 DEF Finish, Reject, FailInput, FailBySignal, MarkForRetry,
         Go, WorkerRecords
    <3>2. \/ task' = task
          \/ \E status \in {"success", "failed", "rejected"}, code \in {"none", "error"} :
               task' = [task EXCEPT ![wk[w].task] = FinishedIfClaimed(@, w, status, code)]
      BY <2>6 DEF Finish, Reject, FailInput, FailBySignal, MarkForRetry
    <3> QED BY <3>1, <3>2 DEF Ends
  <2>7. CASE Fail(w)
    BY <1>0, <2>7 DEF Fail, Ends, Go, WorkerRecords
  <2>8. CASE WorkerLost(w) \/ KillRevoked(w)
    BY <1>0, <2>8 DEF WorkerLost, KillRevoked, Drops, DownWorker, IdleWorker, storeVars
  <2>9. ~(SoftTimeLimit(w) \/ HardTimeLimit(w) \/ StatementFails(w))
    BY DEF SoftTimeLimit, Interrupted, HardTimeLimit, StatementFails
  <2> QED BY <1>4, <2>2, <2>3, <2>4, <2>5, <2>6, <2>7, <2>8, <2>9
          DEF DeliveryStep, DeliveryFault
<1> QED BY <1>1, <1>2, <1>3, <1>4 DEF DelivererNext, WorkerNext

(* Requests and stops revoke rows, or write rows nobody has claimed.       *)
LEMMA RevokingRows ==
  ASSUME IndInv, DispatcherNext \/ ControlNext
  PROVE  /\ wk' = wk /\ rec' = rec
         /\ \A t \in Tasks : \/ task'[t] = task[t] \/ task'[t].status = "revoked"
                             \/ task[t].status \in {"none", "pending"}
<1>0. task \in [Tasks -> Rows]
  BY RowsAndQuotas
<1>1. wk' = wk /\ rec' = rec
  BY DEF DispatcherNext, ControlNext
<1> DEFINE Goal == \A t \in Tasks :
                     \/ task'[t] = task[t] \/ task'[t].status = "revoked"
                     \/ task[t].status \in {"none", "pending"}
<1> SUFFICES Goal
  BY <1>1
<1>2. ASSUME NEW t \in Tasks, task' = [task EXCEPT ![t] = MarkedRevoked(@)]
      PROVE  Goal
  BY <1>0, <1>2 DEF MarkedRevoked, Rows
<1>3. CASE DispatcherNext
  <2>1. PICK t \in Tasks : \/ \E kind \in Kinds : Trigger(t, kind)
                           \/ DispatchStep(t)
                           \/ DispatchFault(t)
    BY <1>3 DEF DispatcherNext, DispatchNext
  <2>2. CASE RecordPending(t)
    <3>1. task[t].status = "none"
      BY <2>2 DEF RecordPending, IndInv, Fresh
    <3> QED BY <1>0, <2>2, <3>1 DEF RecordPending
  <2>3. CASE Promote(t)
    BY <1>0, <2>3 DEF Promote, PromotedToQueued
  <2>4. CASE UndoOne(t)
    <3>1. task' = task \/ task' = [task EXCEPT ![t] = MarkedRevoked(@)]
      BY <2>4 DEF UndoOne
    <3> QED BY <1>2, <3>1
  <2>5. CASE ~(RecordPending(t) \/ Promote(t) \/ UndoOne(t))
    BY <2>1, <2>5 DEF Trigger, DispatchStep, DispatchFault, RecordConflict,
       Enqueue, Accept, FoundCancelled, UndoDone, BrokerUnreadable,
       EnqueueFails, GenerationChanged, PromoteFails, UndoFails,
       DispatchCrash, storeVars
  <2> QED BY <2>2, <2>3, <2>4, <2>5
<1>4. CASE ControlNext
  <2>1. ASSUME NEW t \in Tasks, MarkRevoked(t) PROVE Goal
    BY <1>2, <2>1 DEF MarkRevoked
  <2>2. task' = task \/ \E t \in Tasks : MarkRevoked(t)
    BY <1>4 DEF ControlNext, Stop, Resume, Restart, Back, Approval, StopRun,
       ResumeRun, RestartRun, GoBack, Approve, StopStep, StopAborts,
       CollectActive, NextStopPass, BroadcastRevoke, BroadcastFails,
       FinalizeRevoked, storeVars
  <2> QED BY <2>1, <2>2
<1> QED BY <1>3, <1>4

(* A step of a request or of a stop leaves claims and listings standing.   *)
LEMMA RevokingExcludes ==
  ASSUME IndInv, ExclusionInv, DispatcherNext \/ ControlNext
  PROVE  ExclusionInv'
<1>0. /\ wk' = wk /\ rec' = rec
      /\ \A t \in Tasks : \/ task'[t] = task[t] \/ task'[t].status = "revoked"
                          \/ task[t].status \in {"none", "pending"}
      /\ \A r \in Reconcilers : rec[r].phase # "idle" => rec[r].task \in Tasks
  BY RevokingRows DEF IndInv, TypeOK, RecTypeOK
<1>1. ClaimsStand'
  BY <1>0 DEF ExclusionInv, ClaimsStand, ClaimStands, Holding, HoldsClaim
<1>2. StuckHasNoWorker'
  BY <1>0 DEF ExclusionInv, StuckHasNoWorker, Holding
<1>3. CleanedHasNoWorker'
  BY <1>0 DEF ExclusionInv, CleanedHasNoWorker, Holding
<1> QED BY <1>1, <1>2, <1>3 DEF ExclusionInv

(* A claim leaves a running row of its worker, where no claim stood and    *)
(* no pass cleans up or has listed a stuck row.                            *)
LEMMA ClaimExcludes ==
  ASSUME IndInv, ExclusionInv, LeasesStand, NEW w \in Workers, Claims(w), rec' = rec,
         \A v \in Workers \ {w} : wk'[v] = wk[v]
  PROVE  ExclusionInv'
<1> DEFINE t == wk[w].task
<1>0. /\ t \in Tasks /\ wk'[w].task = t /\ Claimable(task[t], wk[w].seen)
      /\ task' = [task EXCEPT ![t] = Claimed(@, w)]
      /\ task \in [Tasks -> Rows]
      /\ \A r \in Reconcilers : rec[r].phase # "idle" => rec[r].task \in Tasks
  BY RowsAndQuotas DEF IndInv, TypeOK, RecTypeOK, Claims
<1> HIDE DEF t
<1>1. HoldsClaim(task'[t], w) /\ \A u \in Tasks \ {t} : task'[u] = task[u]
  BY <1>0 DEF Claimed, HoldsClaim, Rows
<1>2. \A v \in Workers : ~Holding(v, t)
  BY <1>0 DEF ExclusionInv, ClaimsStand, ClaimStands, HoldsClaim, Claimable
<1>3. \A v \in Workers, u \in Tasks :
        Holding(v, u)' => \/ v = w /\ u = t
                          \/ v # w /\ u # t /\ Holding(v, u)
  BY <1>0, <1>2 DEF Holding
<1>4. \A r \in Reconcilers :
        rec[r].phase \in {"mark_stuck", "cleanup"} => rec[r].task # t
  BY <1>0 DEF ExclusionInv, StuckHasNoWorker, LeasesStand, LeaseStands,
     HoldsLease, Claimable, BlockedCodes
<1>5. ClaimsStand'
  BY <1>1, <1>3 DEF ExclusionInv, ClaimsStand, ClaimStands, HoldsClaim
<1>6. StuckHasNoWorker'
  BY <1>0, <1>1, <1>3, <1>4 DEF ExclusionInv, StuckHasNoWorker
<1>7. CleanedHasNoWorker'
  BY <1>0, <1>3, <1>4 DEF ExclusionInv, CleanedHasNoWorker
<1> QED BY <1>5, <1>6, <1>7 DEF ExclusionInv

(* Every other step of a worker gives claims up or keeps them.             *)
LEMMA DeliveryExcludes ==
  ASSUME IndInv, ExclusionInv, LeasesStand, Faults \cap {"timeout", "db"} = {},
         DelivererNext
  PROVE  ExclusionInv'
<1>0. /\ rec' = rec
      /\ task \in [Tasks -> Rows]
      /\ \A r \in Reconcilers : rec[r].phase # "idle" => rec[r].task \in Tasks
  BY DeliverySteps, RowsAndQuotas DEF IndInv, TypeOK, RecTypeOK
<1>1. CASE UNCHANGED <<task, wk>>
  BY <1>0, <1>1 DEF ExclusionInv, ClaimsStand, ClaimStands, StuckHasNoWorker,
     CleanedHasNoWorker, Holding
<1>2. ASSUME NEW w \in Workers, \A v \in Workers \ {w} : wk'[v] = wk[v],
             Drops(w) \/ GoesOn(w)
      PROVE  ExclusionInv'
  <2>1. \A v \in Workers, t \in Tasks : Holding(v, t)' => Holding(v, t)
    BY <1>2 DEF Drops, GoesOn, Holding, HoldPhases
  <2>2. task' = task
    BY <1>2 DEF Drops, GoesOn
  <2> QED BY <1>0, <2>1, <2>2 DEF ExclusionInv, ClaimsStand, ClaimStands,
          StuckHasNoWorker, CleanedHasNoWorker
<1>3. ASSUME NEW w \in Workers, \A v \in Workers \ {w} : wk'[v] = wk[v], Ends(w)
      PROVE  ExclusionInv'
  <2> DEFINE t == wk[w].task
  <2>1. /\ t \in Tasks /\ Holding(w, t)
        /\ \A u \in Tasks : ~Holding(w, u)'
        /\ \A v \in Workers \ {w}, u \in Tasks : Holding(v, u)' <=> Holding(v, u)
    BY <1>3 DEF Ends, Holding, HoldPhases
  <2>2. \A u \in Tasks : u # t => task'[u] = task[u]
    BY <1>0, <1>3 DEF Ends
  <2>3. task'[t] = task[t] \/ HoldsClaim(task[t], w)
    BY <1>0, <1>3, <2>1 DEF Ends, FinishedIfClaimed
  <2> HIDE DEF t
  <2>4. \A v \in Workers \ {w} : ~Holding(v, t)
    BY <2>1 DEF ExclusionInv, ClaimsStand
  <2>5. ClaimsStand'
    BY <2>1, <2>2, <2>4 DEF ExclusionInv, ClaimsStand, ClaimStands
  <2>6. StuckHasNoWorker'
    <3>1. ASSUME NEW r \in Reconcilers, NEW v \in Workers, NEW s \in Tasks,
                 rec[r].phase = "mark_stuck", s = rec[r].task
          PROVE  /\ task'[s].status \in {"running", "revoked"}
                 /\ task'[s].status = "running" => ~Holding(v, s)'
      <4>1. /\ task[s].status \in {"running", "revoked"}
            /\ task[s].status = "running" => (~Holding(v, s) /\ ~Holding(w, s))
        BY <3>1 DEF ExclusionInv, StuckHasNoWorker
      <4>2. task'[s] = task[s]
        BY <2>1, <2>2, <2>3, <4>1 DEF HoldsClaim
      <4> QED BY <2>1, <4>1, <4>2
    <3> QED BY <1>0, <3>1 DEF StuckHasNoWorker
  <2>7. CleanedHasNoWorker'
    BY <1>0, <2>1 DEF ExclusionInv, CleanedHasNoWorker
  <2> QED BY <2>5, <2>6, <2>7 DEF ExclusionInv
<1>4. \/ UNCHANGED <<task, wk>>
      \/ \E w \in Workers :
           /\ \A v \in Workers \ {w} : wk'[v] = wk[v]
           /\ Drops(w) \/ Claims(w) \/ GoesOn(w) \/ Ends(w)
  BY DeliverySteps
<1> QED BY <1>0, <1>1, <1>2, <1>3, <1>4, ClaimExcludes

(* A step of the only pass takes rows from nobody.                         *)
LEMMA PassExcludes ==
  ASSUME IndInv, ExclusionInv, "slow" \notin Faults,
         \A q, r \in Reconcilers : q = r, ReconcilerNext
  PROVE  ExclusionInv'
<1>0. /\ wk' = wk /\ task \in [Tasks -> Rows] /\ rec \in [Reconcilers -> RecRecords]
      /\ \A r \in Reconcilers : rec[r].phase # "idle" => rec[r].task \in Tasks
  BY PassSteps, RowsAndQuotas DEF IndInv, TypeOK, RecTypeOK
<1>1. PICK r \in Reconcilers : \/ \E t \in Tasks : Find(r, t)
                               \/ Mark(r) \/ CleanupOne(r) \/ EndCleanup(r)
                               \/ TakeLease(r)
                               \/ ReconcilerFault(r)
  BY PassSteps
<1>2. \A q \in Reconcilers : q = r
  OBVIOUS
<1>3. \A w \in Workers, t \in Tasks : Holding(w, t)' <=> Holding(w, t)
  BY <1>0 DEF Holding
<1>4. ASSUME NEW t \in Tasks, \A w \in Workers : ~Holding(w, t),
             \A u \in Tasks \ {t} : task'[u] = task[u]
      PROVE  ClaimsStand'
  BY <1>3, <1>4 DEF ExclusionInv, ClaimsStand, ClaimStands
<1>5. ASSUME task' = task PROVE ClaimsStand'
  BY <1>3, <1>5 DEF ExclusionInv, ClaimsStand, ClaimStands
<1>6. ASSUME rec'[r].phase \notin {"mark_stuck", "cleanup"}
      PROVE  StuckHasNoWorker' /\ CleanedHasNoWorker'
  BY <1>2, <1>6 DEF StuckHasNoWorker, CleanedHasNoWorker
<1>7. ASSUME NEW t \in Tasks, Find(r, t) PROVE ExclusionInv'
  <2>1. task' = task /\ rec'[r].task = t /\ rec'[r].phase # "cleanup"
    BY <1>0, <1>7 DEF Find, FindStalePending, FindStuck, FindUnfinishedCleanup,
       StartAt, storeVars
  <2>2. CASE rec'[r].phase = "mark_stuck"
    <3>1. task[t].status = "running" /\ ~Working(t)
      BY <1>0, <1>7, <2>2 DEF Find, FindStalePending, FindStuck,
         FindUnfinishedCleanup, StartAt, RunningOverdue, Slow
    <3>2. \A w \in Workers : ~Holding(w, t)
      BY <3>1 DEF ExclusionInv, ClaimsStand, ClaimStands, Holding, HoldsClaim, Working
    <3>3. StuckHasNoWorker' /\ CleanedHasNoWorker'
      BY <1>2, <1>3, <2>1, <2>2, <3>1, <3>2 DEF StuckHasNoWorker, CleanedHasNoWorker
    <3> QED BY <1>5, <2>1, <3>3 DEF ExclusionInv
  <2>3. CASE rec'[r].phase # "mark_stuck"
    BY <1>5, <1>6, <2>1, <2>3 DEF ExclusionInv
  <2> QED BY <2>2, <2>3
<1>8. CASE Mark(r)
  <2> DEFINE t == rec[r].task
  <2>1. /\ t \in Tasks /\ rec'[r].phase \in {"lease", "idle"}
        /\ \A u \in Tasks \ {t} : task'[u] = task[u]
    BY <1>0, <1>8 DEF Mark, Forget, IdleReconciler, RecRecords
  <2>2. CASE task'[t] = task[t]
    <3>1. ClaimsStand'
      BY <1>3, <2>1, <2>2 DEF ExclusionInv, ClaimsStand, ClaimStands
    <3> QED BY <1>6, <2>1, <3>1 DEF ExclusionInv
  <2>3. CASE task'[t] # task[t]
    <3>1. \/ rec[r].phase = "mark_stuck" /\ task[t].status = "running"
          \/ task[t].status = "pending"
      BY <1>0, <1>8, <2>1, <2>3 DEF Mark, FailedIfPending, FailedIfRunning
    <3>2. \A w \in Workers : ~Holding(w, t)
      BY <2>1, <3>1 DEF ExclusionInv, ClaimsStand, ClaimStands, HoldsClaim,
         StuckHasNoWorker
    <3> QED BY <1>4, <1>6, <2>1, <3>2 DEF ExclusionInv
  <2> QED BY <2>2, <2>3
<1>9. CASE TakeLease(r)
  <2> DEFINE t == rec[r].task
  <2>1. /\ t \in Tasks /\ \A u \in Tasks \ {t} : task'[u] = task[u]
        /\ \/ rec'[r].phase = "idle" /\ task' = task
           \/ /\ task[t].status = "failed"
              /\ rec'[r].phase = "cleanup" /\ rec'[r].task = t
    BY <1>0, <1>9 DEF TakeLease, Forget, IdleReconciler, CleanupClaimable, RecRecords
  <2>2. CASE rec'[r].phase = "idle"
    BY <1>5, <1>6, <2>1, <2>2 DEF ExclusionInv
  <2>3. CASE rec'[r].phase = "cleanup"
    <3>1. \A w \in Workers : ~Holding(w, t)
      BY <2>1, <2>3 DEF ExclusionInv, ClaimsStand, ClaimStands, HoldsClaim
    <3>2. StuckHasNoWorker' /\ CleanedHasNoWorker'
      BY <1>2, <1>3, <2>1, <2>3, <3>1 DEF StuckHasNoWorker, CleanedHasNoWorker
    <3> QED BY <1>4, <2>1, <3>1, <3>2 DEF ExclusionInv
  <2> QED BY <2>1, <2>2, <2>3
<1>10. CASE CleanupOne(r) \/ CleanupFails(r) \/ FinishFails(r)
  <2>1. /\ task' = task /\ rec[r].phase = "cleanup"
        /\ rec'[r].phase = "cleanup" /\ rec'[r].task = rec[r].task
        /\ rec[r].task \in Tasks
    BY <1>0, <1>10 DEF CleanupOne, CleanupFails, FinishFails, storeVars, RecRecords
  <2>2. StuckHasNoWorker' /\ CleanedHasNoWorker'
    BY <1>2, <1>3, <2>1 DEF ExclusionInv, StuckHasNoWorker, CleanedHasNoWorker
  <2> QED BY <1>5, <2>1, <2>2 DEF ExclusionInv
<1>11. CASE EndCleanup(r)
  <2> DEFINE t == rec[r].task
  <2>1. /\ t \in Tasks /\ rec[r].phase = "cleanup" /\ rec'[r].phase = "idle"
        /\ \A u \in Tasks \ {t} : task'[u] = task[u]
    BY <1>0, <1>11 DEF EndCleanup, Forget, IdleReconciler
  <2>2. \A w \in Workers : ~Holding(w, t)
    BY <2>1 DEF ExclusionInv, CleanedHasNoWorker
  <2> QED BY <1>4, <1>6, <2>1, <2>2 DEF ExclusionInv
<1>12. CASE ReconcilerCrash(r)
  <2>1. task' = task /\ rec'[r].phase = "idle"
    BY <1>0, <1>12 DEF ReconcilerCrash, Forget, IdleReconciler, storeVars
  <2> QED BY <1>5, <1>6, <2>1 DEF ExclusionInv
<1> QED BY <1>1, <1>7, <1>8, <1>9, <1>10, <1>11, <1>12 DEF ReconcilerFault

(* ExclusionInv is preserved by every step.                                *)
LEMMA ExclusionStep ==
  ASSUME Faults \cap {"slow", "timeout", "db"} = {}, \A q, r \in Reconcilers : q = r,
         IndInv, LeasesStand, ExclusionInv, [Next]_vars
  PROVE  ExclusionInv'
<1>1. CASE UNCHANGED vars
  BY <1>1 DEF vars, ExclusionInv, ClaimsStand, ClaimStands, StuckHasNoWorker,
     CleanedHasNoWorker, Holding
<1> QED BY <1>1, RevokingExcludes, DeliveryExcludes, PassExcludes DEF Next

(* ExclusionInv holds in every reachable state. *)
LEMMA Excluded ==
  ASSUME Faults \cap {"slow", "timeout", "db"} = {}, \A q, r \in Reconcilers : q = r
  PROVE  Spec => [](IndInv /\ ExclusionInv)
<1>1. Init => LeasesStand /\ ExclusionInv
  BY DEF Init, RecInit, WorkerInit, IdleReconciler, IdleWorker, LeasesStand, ExclusionInv,
     ClaimsStand, StuckHasNoWorker, CleanedHasNoWorker, Holding, ClaimPhases
<1>2. IndInv /\ LeasesStand /\ ExclusionInv /\ [Next]_vars
        => LeasesStand' /\ ExclusionInv'
  BY LeaseStep, ExclusionStep
<1> QED BY <1>1, <1>2, Inductive, PTL DEF Spec

(* Whatever is lost, redelivered, revoked or dies, one live worker at most *)
(* is inside the execution of a task.  Live work must not be overdue, no   *)
(* statement may fail and passes may not overlap: each of the three reopens*)
(* a row under a worker that is still there.                               *)
THEOREM OneExecutorOnly ==
  ASSUME Faults \cap {"slow", "timeout", "db"} = {}, \A q, r \in Reconcilers : q = r
  PROVE  Spec => []OneExecutor
<1>1. ExclusionInv => OneExecutor
  BY DEF ExclusionInv, ClaimsStand, Holding, OneExecutor, Executing, ClaimPhases
<1> QED BY <1>1, Excluded, PTL

(* Under the same conditions a pass that cleans a row up is alone with it. *)
THEOREM CleanupExcludes ==
  ASSUME Faults \cap {"slow", "timeout", "db"} = {}, \A q, r \in Reconcilers : q = r
  PROVE  Spec => []CleanupIsExclusive
<1>1. IndInv /\ ExclusionInv => CleanupIsExclusive
  BY DEF ExclusionInv, CleanedHasNoWorker, Holding, CleanupIsExclusive, PassesExclude,
     Executing, ClaimPhases
<1> QED BY <1>1, Excluded, PTL

-----------------------------------------------------------------------------
(* Who takes care of a waiting row and of a held reservation.  WaitingInv  *)
(* says what nobody has touched yet: a row that does not exist, and one    *)
(* that waits for a worker.  DeliveryInv adds who is still going to reach  *)
(* a waiting row, OwnersInv who is still going to release a reservation.   *)

(* The row waits for a worker to claim it. *)
Waits(t) == task[t].status \in {"pending", "queued"}

(* Live worker w has a message of t. *)
Has(w, t) == wk[w].task = t /\ wk[w].phase \notin {"idle", "down"}

(* Before its row is inserted nobody but its request knows of a task.      *)
Unknown ==
  \A t \in Tasks :
    task[t].status = "none" =>
      /\ t \notin revoked /\ t \notin stop.ids
      /\ \A m \in broker : m[1] # t
      /\ \A w \in Workers : ~Has(w, t)
      /\ disp[t].phase \in {"new", "reserved", "refused", "crashed"}

(* Until a row is claimed it has no claim, and the workers that have its   *)
(* message are about to claim it and will succeed.                         *)
Unclaimed ==
  \A t \in Tasks :
    Waits(t) =>
      /\ task[t].token = NoToken /\ task[t].code = "none"
      /\ \A w \in Workers :
           Has(w, t) => wk[w].phase = "observed" /\ wk[w].seen = NoToken

WaitingInv == Unknown /\ Unclaimed /\ stop.left \subseteq stop.ids

(* The request of t has published its message, or promoted its row. *)
Published(t) ==
  \/ task[t].status = "queued"
  \/ task[t].status = "pending" /\ disp[t].phase = "enqueued"

(* The stop in hand will still mark t. *)
StopCovers(t) ==
  \/ stop.phase = "collect"
  \/ stop.phase = "revoke" /\ t \in stop.ids
  \/ stop.phase = "mark" /\ t \in stop.left

(* A waiting row has its message, or a revocation of it goes on; whatever  *)
(* revokes a waiting task or takes it back follows a stop that has still   *)
(* to mark the row.                                                        *)
DeliveryInv ==
  \A t \in Tasks :
    /\ Published(t) => <<t, 0>> \in broker \/ t \in revoked
    /\ /\ Waits(t)
       /\ t \in revoked \/ disp[t].phase = "undo" \/ run.status = "cancelled"
       => StopCovers(t)

Held(t) == quota[t].status = "reserved"

(* The stop in hand will still finalize t. *)
StopFinalizes(t) ==
  \/ stop.phase = "mark" /\ t \in stop.ids
  \/ stop.phase = "finalize" /\ t \in stop.left

(* The request has its release before it. *)
RequestReleases(t) ==
  disp[t].phase = "undo" /\ \E i \in DOMAIN disp[t].todo : disp[t].todo[i] = "quota"

(* Where the request of a held reservation is. *)
RequestAhead(t) ==
  /\ disp[t].phase # "refused"
  /\ disp[t].phase = "undo" => RequestReleases(t)

(* What the row of a held reservation looks like. *)
RowOwned(t) ==
  /\ task[t].status # "success"
  /\ task[t].status = "revoked" => RequestReleases(t) \/ StopFinalizes(t)
  /\ task[t].status \in {"failed", "rejected"} /\ task[t].code \notin BlockedCodes
       => \E w \in Workers : wk[w].task = t /\ wk[w].phase = "releasing"

(* No delivery of t has billed anything. *)
NothingBilled(t) ==
  \A w \in Workers :
    Has(w, t) => wk[w].phase # "finishing" /\ wk[w].outcome # "accounted"

OwnersInv ==
  /\ \A t \in Tasks :
       /\ disp[t].phase # "crashed"
       /\ Held(t) => /\ RequestAhead(t) /\ RowOwned(t) /\ NothingBilled(t)
                     /\ Published(t) => <<t, 0>> \in broker
  /\ \A w \in Workers : wk[w].phase \notin {"retrying", "requeue", "signal", "unrejected"}

-----------------------------------------------------------------------------
(* What a step brings about, whoever takes it. *)

(* A row that waits has just been inserted, or has waited already.         *)
LEMMA WaitingRow ==
  ASSUME NEW old \in Rows, NEW new, RowChange(old, new),
         new.status \in {"pending", "queued"}
  PROVE  /\ old.status \in {"pending", "queued"}
         /\ new.status = "pending" => old.status = "pending"
         /\ old.token = NoToken /\ old.code = "none"
              => new.token = NoToken /\ new.code = "none"
BY DEF RowChange, Rows, PromotedToQueued, Claimed, Claimable, FinishedIfClaimed,
       HoldsClaim, MarkedRevoked, FailedIfPending, FailedIfRunning,
       CleanupClaimable, CleanupClaimed, CleanupFinished, HoldsLease, CleanupReleased

(* A row that exists goes on existing. *)
LEMMA RowRemains ==
  ASSUME NEW old \in Rows, NEW new, RowChange(old, new) \/ Inserted(old, new),
         new.status = "none"
  PROVE  old.status = "none"
BY DEF RowChange, Inserted, PendingRow, NoRow, Rows, PromotedToQueued, Claimed,
       Claimable, FinishedIfClaimed, HoldsClaim, MarkedRevoked, FailedIfPending,
       FailedIfRunning, CleanupClaimable, CleanupClaimed, CleanupFinished,
       HoldsLease, CleanupReleased

(* A request step, and what it leaves of the other requests. *)
LEMMA RequestSteps ==
  ASSUME IndInv, DispatcherNext
  PROVE  /\ wk' = wk /\ rec' = rec /\ stop' = stop
         /\ \E t \in Tasks :
              /\ \/ \E kind \in Kinds : Trigger(t, kind)
                 \/ DispatchStep(t)
                 \/ DispatchFault(t)
              /\ \A u \in Tasks \ {t} : /\ disp'[u] = disp[u]
                                        /\ task'[u] = task[u]
                                        /\ quota'[u] = quota[u]
<1>0. /\ task \in [Tasks -> Rows] /\ quota \in [Tasks -> Quotas]
      /\ disp = [u \in Tasks |-> disp[u]]
  BY RowsAndQuotas DEF IndInv, TypeOK, DispTypeOK
<1>1. PICK t \in Tasks : \/ \E kind \in Kinds : Trigger(t, kind)
                         \/ DispatchStep(t)
                         \/ DispatchFault(t)
  BY DEF DispatcherNext, DispatchNext
<1>2. \A u \in Tasks \ {t} : disp'[u] = disp[u]
  BY <1>0, <1>1 DEF DispatchStep, DispatchFault, Trigger, RecordPending,
     RecordConflict, Enqueue, Promote, Accept, FoundCancelled, UndoOne,
     UndoDone, BrokerUnreadable, EnqueueFails, GenerationChanged,
     PromoteFails, UndoFails, DispatchCrash, Goto, Compensate, NextUndo
<1>3. task' = task \/ \E new : task' = [task EXCEPT ![t] = new]
  BY <1>1 DEF DispatchStep, DispatchFault, Trigger, RecordPending,
     RecordConflict, Enqueue, Promote, Accept, FoundCancelled, UndoOne,
     UndoDone, BrokerUnreadable, EnqueueFails, GenerationChanged,
     PromoteFails, UndoFails, DispatchCrash, storeVars
<1>4. quota' = quota \/ \E new : quota' = [quota EXCEPT ![t] = new]
  BY <1>1 DEF DispatchStep, DispatchFault, Trigger, RecordPending,
     RecordConflict, Enqueue, Promote, Accept, FoundCancelled, UndoOne,
     UndoDone, BrokerUnreadable, EnqueueFails, GenerationChanged,
     PromoteFails, UndoFails, DispatchCrash, storeVars
<1>5. \A u \in Tasks \ {t} : task'[u] = task[u] /\ quota'[u] = quota[u]
  BY <1>0, <1>3, <1>4
<1> QED BY <1>1, <1>2, <1>5 DEF DispatcherNext

(* A delivery step, and what it leaves of the other workers. *)
LEMMA WorkerSteps ==
  ASSUME IndInv, DelivererNext
  PROVE  /\ disp' = disp /\ rec' = rec /\ stop' = stop /\ revoked' = revoked
         /\ \/ wk' = wk /\ \E m \in broker : DiscardRevoked(m)
            \/ wk' = wk /\ \E w \in Workers, m \in broker : ShutdownDrop(w, m)
            \/ \E w \in Workers :
                 /\ \A v \in Workers \ {w} : wk'[v] = wk[v]
                 /\ \/ \E m \in broker : Deliver(w, m)
                    \/ /\ wk[w].phase \notin {"idle", "down"} /\ wk[w].task \in Tasks
                       /\ DeliveryStep(w) \/ DeliveryFault(w)
                       /\ wk'[w].task = wk[w].task \/ wk'[w].phase \in {"idle", "down"}
<1>0. /\ wk \in [Workers -> WorkerRecords]
      /\ \A w \in Workers : wk[w].phase \notin {"idle", "down"} => wk[w].task \in Tasks
  BY DEF IndInv, TypeOK, WorkerTypeOK
<1>1. disp' = disp /\ rec' = rec /\ stop' = stop
  BY DEF DelivererNext
<1>2. ASSUME NEW w \in Workers, DeliveryStep(w) \/ DeliveryFault(w)
      PROVE  /\ revoked' = revoked /\ \A v \in Workers \ {w} : wk'[v] = wk[v]
             /\ wk[w].phase \notin {"idle", "down"}
             /\ wk'[w].task = wk[w].task \/ wk'[w].phase \in {"idle", "down"}
  <2>1. revoked' = revoked
    BY <1>2 DEF DeliveryStep, DeliveryFault, Claim, StageGuard,
       ResolveContext, InputError, AuthorizeAttempt, ProviderReturns, Finish,
       Settle, Reject, Release, Fail, FailInput, FailBySignal, MarkForRetry,
       Requeue, Ack, ProviderFails, SoftTimeLimit, Interrupted, HardTimeLimit, WorkerLost,
       KillRevoked, StatementFails, storeVars
  <2>2. \A v \in Workers \ {w} : wk'[v] = wk[v]
    BY <1>0, <1>2 DEF DeliveryStep, DeliveryFault, Claim, StageGuard,
       ResolveContext, InputError, AuthorizeAttempt, ProviderReturns, Finish,
       Settle, Reject, Release, Fail, FailInput, FailBySignal, MarkForRetry,
       Requeue, Ack, ProviderFails, SoftTimeLimit, Interrupted, HardTimeLimit, WorkerLost,
       KillRevoked, StatementFails, Go
  <2>3. wk[w].phase \notin {"idle", "down"}
    BY <1>2 DEF DeliveryStep, DeliveryFault, Claim, StageGuard,
       ResolveContext, InputError, AuthorizeAttempt, ProviderReturns, Finish,
       Settle, Reject, Release, Fail, FailInput, FailBySignal, MarkForRetry,
       Requeue, Ack, ProviderFails, SoftTimeLimit, Interrupted, HardTimeLimit, WorkerLost,
       KillRevoked, StatementFails, ClaimPhases, WorkerPhases
  <2>4. wk'[w].task = wk[w].task \/ wk'[w].phase \in {"idle", "down"}
    <3>1. CASE Ack(w) \/ WorkerLost(w) \/ KillRevoked(w)
      BY <1>0, <3>1 DEF Ack, WorkerLost, KillRevoked, IdleWorker, DownWorker
    <3>2. CASE AuthorizeAttempt(w) \/ ProviderReturns(w)
      BY <1>0, <3>2 DEF AuthorizeAttempt, ProviderReturns, Go, WorkerRecords
    <3>3. CASE wk' = wk \/ \E phase : Go(w, phase)
      BY <1>0, <3>3 DEF Go, WorkerRecords
    <3>4. \/ Ack(w) \/ WorkerLost(w) \/ KillRevoked(w)
          \/ AuthorizeAttempt(w) \/ ProviderReturns(w)
          \/ wk' = wk \/ \E phase : Go(w, phase)
      BY <1>2 DEF DeliveryStep, DeliveryFault, Claim, StageGuard, ResolveContext,
         InputError, Finish, Settle, Reject, Release, Fail, FailInput, FailBySignal,
         MarkForRetry, Requeue, ProviderFails, SoftTimeLimit, Interrupted, HardTimeLimit,
         StatementFails
    <3> QED BY <3>1, <3>2, <3>3, <3>4
  <2> QED BY <2>1, <2>2, <2>3, <2>4
<1>3. ASSUME NEW w \in Workers, NEW m \in broker, Deliver(w, m)
      PROVE  revoked' = revoked /\ \A v \in Workers \ {w} : wk'[v] = wk[v]
  BY <1>0, <1>3 DEF Deliver, storeVars
<1>4. ASSUME NEW w \in Workers, NEW m \in broker, ShutdownDrop(w, m)
      PROVE  wk' = wk /\ revoked' = revoked
  BY <1>4 DEF ShutdownDrop
<1>5. ASSUME NEW m \in broker, DiscardRevoked(m)
      PROVE  wk' = wk /\ revoked' = revoked
  BY <1>5 DEF DiscardRevoked
<1>6. \/ \E m \in broker : DiscardRevoked(m)
      \/ \E w \in Workers, m \in broker : ShutdownDrop(w, m)
      \/ \E w \in Workers, m \in broker : Deliver(w, m)
      \/ \E w \in Workers : DeliveryStep(w) \/ DeliveryFault(w)
  BY DEF DelivererNext, WorkerNext
<1>7. CASE \/ \E m \in broker : DiscardRevoked(m)
           \/ \E w \in Workers, m \in broker : ShutdownDrop(w, m)
  BY <1>1, <1>4, <1>5, <1>7
<1>8. CASE \E w \in Workers, m \in broker : Deliver(w, m)
  <2>1. PICK w \in Workers, m \in broker : Deliver(w, m)
    BY <1>8
  <2> QED BY <1>1, <1>3, <2>1
<1>9. CASE \E w \in Workers : DeliveryStep(w) \/ DeliveryFault(w)
  <2>1. PICK w \in Workers : DeliveryStep(w) \/ DeliveryFault(w)
    BY <1>9
  <2> QED BY <1>0, <1>1, <1>2, <2>1
<1> QED BY <1>6, <1>7, <1>8, <1>9

(* A message is published by a request or by the retry of a delivery.      *)
LEMMA NewMessage ==
  ASSUME IndInv, [Next]_vars, NEW m \in broker', m \notin broker
  PROVE  \/ disp[m[1]].phase = "recorded"
         \/ \E w \in Workers : Has(w, m[1]) /\ wk[w].phase = "requeue"
<1>1. CASE DispatcherNext
  <2>1. PICK t \in Tasks : \/ \E kind \in Kinds : Trigger(t, kind)
                           \/ DispatchStep(t)
                           \/ DispatchFault(t)
    BY <1>1, RequestSteps
  <2>2. m = <<t, 0>> /\ disp[t].phase = "recorded"
    BY SMTT(30), <2>1 DEF DispatchStep, DispatchFault, Trigger, RecordPending,
       RecordConflict, Enqueue, Promote, Accept, FoundCancelled, UndoOne,
       UndoDone, BrokerUnreadable, EnqueueFails, GenerationChanged,
       PromoteFails, UndoFails, DispatchCrash, storeVars
  <2> QED BY <2>2
<1>2. CASE DelivererNext
  <2>1. broker' \subseteq broker \/ \E w \in Workers : Requeue(w)
    BY <1>2 DEF DelivererNext, WorkerNext, Deliver, ShutdownDrop, DiscardRevoked,
       DeliveryStep, DeliveryFault, Claim, StageGuard, ResolveContext, InputError,
       AuthorizeAttempt, ProviderReturns, Finish, Settle, Reject, Release, Fail,
       FailInput, FailBySignal, MarkForRetry, Ack, ProviderFails, SoftTimeLimit, Interrupted,
       HardTimeLimit, WorkerLost, KillRevoked, StatementFails, storeVars
  <2>2. PICK w \in Workers : Requeue(w)
    BY <2>1
  <2>3. m = <<wk[w].task, wk[w].try + 1>> /\ wk[w].phase = "requeue"
    BY <2>2 DEF Requeue
  <2> QED BY <2>3 DEF Has
<1>3. CASE ReconcilerNext
  BY <1>3 DEF ReconcilerNext, Find, FindStalePending, FindStuck, FindUnfinishedCleanup,
     Reconcile, Mark, TakeLease, CleanupOne, EndCleanup, ReconcilerFault,
     CleanupFails, FinishFails, ReconcilerCrash, storeVars
<1>4. CASE ControlNext
  BY <1>4 DEF ControlNext, Stop, Resume, Restart, Back, Approval, StopRun,
     ResumeRun, RestartRun, GoBack, Approve, StopStep, StopAborts,
     CollectActive, NextStopPass, BroadcastRevoke, BroadcastFails,
     MarkRevoked, FinalizeRevoked, storeVars
<1> QED BY <1>1, <1>2, <1>3, <1>4 DEF Next, vars

(* A worker that has a message of a task was handed one.                   *)
LEMMA NewDelivery ==
  ASSUME IndInv, [Next]_vars, NEW w \in Workers, NEW t \in Tasks, Has(w, t)'
  PROVE  \/ Has(w, t)
         \/ \E m \in broker : m[1] = t /\ Deliver(w, m)
<1>1. CASE wk' = wk
  BY <1>1 DEF Has
<1>2. CASE DelivererNext /\ wk' # wk
  <2>1. PICK v \in Workers :
          /\ \A u \in Workers \ {v} : wk'[u] = wk[u]
          /\ \/ \E m \in broker : Deliver(v, m)
             \/ /\ wk[v].phase \notin {"idle", "down"} /\ wk[v].task \in Tasks
                /\ DeliveryStep(v) \/ DeliveryFault(v)
                /\ wk'[v].task = wk[v].task \/ wk'[v].phase \in {"idle", "down"}
    BY <1>2, WorkerSteps
  <2>2. CASE v # w
    BY <2>1, <2>2 DEF Has
  <2>3. CASE v = w
    <3>1. CASE \E m \in broker : Deliver(w, m)
      <4>1. PICK m \in broker : Deliver(w, m)
        BY <3>1
      <4>2. wk'[w].task = m[1]
        BY <4>1 DEF Deliver, IndInv, TypeOK, WorkerTypeOK
      <4> QED BY <4>1, <4>2 DEF Has
    <3>2. CASE ~\E m \in broker : Deliver(w, m)
      BY <2>1, <2>3, <3>2 DEF Has
    <3> QED BY <3>1, <3>2
  <2> QED BY <2>2, <2>3
<1>3. CASE DispatcherNext \/ ControlNext \/ ReconcilerNext
  BY <1>1, <1>3 DEF DispatcherNext, ControlNext, ReconcilerNext
<1> QED BY <1>1, <1>2, <1>3 DEF Next, vars

(* A revocation is broadcast by a request that takes its dispatch back or  *)
(* by a stop.                                                              *)
LEMMA NewRevocation ==
  ASSUME IndInv, [Next]_vars, NEW t \in revoked', t \notin revoked
  PROVE  \/ disp[t].phase = "undo" /\ UndoOne(t) /\ Head(disp[t].todo) = "revoke"
         \/ stop.phase = "revoke" /\ t \in stop.left /\ BroadcastRevoke(t)
<1>1. CASE DispatcherNext
  <2>1. PICK u \in Tasks : \/ \E kind \in Kinds : Trigger(u, kind)
                           \/ DispatchStep(u)
                           \/ DispatchFault(u)
    BY <1>1, RequestSteps
  <2>2. UndoOne(u) /\ revoked' # revoked
    BY <2>1 DEF DispatchStep, DispatchFault, Trigger, RecordPending,
       RecordConflict, Enqueue, Promote, Accept, FoundCancelled,
       UndoDone, BrokerUnreadable, EnqueueFails, GenerationChanged,
       PromoteFails, UndoFails, DispatchCrash, storeVars
  <2>3. u = t /\ disp[t].phase = "undo" /\ Head(disp[t].todo) = "revoke"
    BY <2>2 DEF UndoOne
  <2> QED BY <2>2, <2>3
<1>2. CASE DelivererNext
  BY <1>2, WorkerSteps
<1>3. CASE ReconcilerNext
  BY <1>3 DEF ReconcilerNext, Find, FindStalePending, FindStuck, FindUnfinishedCleanup,
     Reconcile, Mark, TakeLease, CleanupOne, EndCleanup, ReconcilerFault,
     CleanupFails, FinishFails, ReconcilerCrash, storeVars
<1>4. CASE ControlNext
  BY <1>4 DEF ControlNext, Stop, Resume, Restart, Back, Approval, StopRun,
     ResumeRun, RestartRun, GoBack, Approve, StopStep, StopAborts,
     CollectActive, NextStopPass, BroadcastRevoke, BroadcastFails,
     MarkRevoked, FinalizeRevoked, storeVars
<1> QED BY <1>1, <1>2, <1>3, <1>4 DEF Next, vars

(* A stop takes rows that exist in hand, and works them off.               *)
LEMMA StopIds ==
  ASSUME IndInv, [Next]_vars, stop.left \subseteq stop.ids
  PROVE  /\ stop'.left \subseteq stop'.ids
         /\ \A t \in Tasks : t \in stop'.ids => t \in stop.ids \/ task[t].status # "none"
<1>0. stop \in [phase : StopPhases, ids : SUBSET Tasks, left : SUBSET Tasks]
  BY DEF IndInv, TypeOK, StopTypeOK
<1>1. CASE stop' = stop
  BY <1>1
<1>2. CASE CollectActive
  BY <1>2 DEF CollectActive, ActiveTasks, ActiveStatuses
<1>3. CASE StopRun \/ StopAborts \/ NextStopPass
  <2>1. \/ stop' = IdleStop \/ stop' = [stop EXCEPT !.phase = "collect"]
        \/ \E phase : stop' = [stop EXCEPT !.phase = phase, !.left = stop.ids]
    BY <1>3 DEF StopRun, StopAborts, NextStopPass, NextPass
  <2>2. CASE \E phase : stop' = [stop EXCEPT !.phase = phase, !.left = stop.ids]
    <3> PICK phase : stop' = [stop EXCEPT !.phase = phase, !.left = stop.ids]
      BY <2>2
    <3>1. stop'.ids = stop.ids /\ stop'.left = stop.ids
      BY <1>0
    <3> QED BY <3>1
  <2>3. CASE stop' = [stop EXCEPT !.phase = "collect"]
    BY <1>0, <2>3
  <2>4. CASE stop' = IdleStop
    BY <2>4 DEF IdleStop
  <2> QED BY <2>1, <2>2, <2>3, <2>4
<1>4. CASE \E t \in Tasks : \/ BroadcastRevoke(t) \/ MarkRevoked(t)
                            \/ FinalizeRevoked(t) \/ BroadcastFails(t)
  BY ZenonT(60), <1>0, <1>4 DEF BroadcastRevoke, MarkRevoked, FinalizeRevoked, BroadcastFails, Handled
<1>5. CASE ControlNext
  BY <1>1, <1>2, <1>3, <1>4, <1>5 DEF ControlNext, Stop, Resume, Restart, Back, Approval,
     ResumeRun, RestartRun, GoBack, Approve, StopStep
<1> QED BY <1>1, <1>5 DEF Next, vars, DispatcherNext, DelivererNext, ReconcilerNext

-----------------------------------------------------------------------------
(* WaitingInv is inductive as long as no statement fails. *)

(* A request whose row does not exist inserts it or ends without. *)
LEMMA BeforeTheRow ==
  ASSUME IndInv, [Next]_vars, NEW t \in Tasks,
         disp[t].phase \in {"new", "reserved", "refused", "crashed"}
  PROVE  \/ disp'[t].phase \in {"new", "reserved", "refused", "crashed"}
         \/ RecordPending(t)
<1>1. CASE DispatcherNext
  <2>1. PICK u \in Tasks :
          /\ \/ \E kind \in Kinds : Trigger(u, kind)
             \/ DispatchStep(u)
             \/ DispatchFault(u)
          /\ \A v \in Tasks \ {u} : disp'[v] = disp[v]
    BY <1>1, RequestSteps
  <2>2. CASE u # t
    BY <2>1, <2>2
  <2>3. CASE u = t
    BY <2>1, <2>3 DEF IndInv, TypeOK, DispTypeOK, DispatchStep, DispatchFault,
       Trigger, RecordConflict, Enqueue, Promote, Accept, FoundCancelled,
       UndoOne, UndoDone, BrokerUnreadable, EnqueueFails, GenerationChanged,
       PromoteFails, UndoFails, DispatchCrash, Goto
  <2> QED BY <2>2, <2>3
<1>2. CASE disp' = disp
  BY <1>2
<1> QED BY <1>1, <1>2 DEF Next, vars, DelivererNext, ReconcilerNext, ControlNext

(* Nobody learns of a task whose row is not inserted. *)
LEMMA UnknownStep ==
  ASSUME IndInv, WaitingInv, [Next]_vars, NEW t \in Tasks, task'[t].status = "none"
  PROVE  /\ t \notin revoked' /\ t \notin stop'.ids
         /\ \A m \in broker' : m[1] # t
         /\ \A w \in Workers : ~Has(w, t)'
         /\ disp'[t].phase \in {"new", "reserved", "refused", "crashed"}
<1>1. task[t].status = "none"
  <2>1. task[t] \in Rows
    BY RowsAndQuotas
  <2>2. RowChange(task[t], task'[t]) \/ Inserted(task[t], task'[t])
    BY StepChanges DEF IndInv, RowsChange
  <2> QED BY <2>1, <2>2, RowRemains
<1>2. /\ t \notin revoked /\ t \notin stop.ids /\ t \notin stop.left
      /\ \A m \in broker : m[1] # t
      /\ \A w \in Workers : ~Has(w, t)
      /\ disp[t].phase \in {"new", "reserved", "refused", "crashed"}
  BY <1>1 DEF WaitingInv, Unknown
<1>3. t \notin revoked'
  BY <1>2, NewRevocation
<1>4. t \notin stop'.ids
  BY <1>1, <1>2, StopIds DEF WaitingInv
<1>5. \A m \in broker' : m[1] # t
  BY <1>2, NewMessage
<1>6. \A w \in Workers : ~Has(w, t)'
  BY <1>2, NewDelivery
<1>7. ~RecordPending(t)
  BY RowsAndQuotas DEF RecordPending, PendingRow, NoRow
<1> QED BY <1>2, <1>3, <1>4, <1>5, <1>6, <1>7, BeforeTheRow

(* What a worker makes of a message whose row waits. *)
LEMMA ObservedStep ==
  ASSUME IndInv, WaitingInv, [Next]_vars, {"db", "timeout"} \cap Faults = {},
         NEW t \in Tasks, Waits(t), Waits(t)',
         NEW w \in Workers, Has(w, t)'
  PROVE  wk'[w].phase = "observed" /\ wk'[w].seen = NoToken
<1>0. /\ task[t].token = NoToken /\ task[t].code = "none"
      /\ Has(w, t) => wk[w].phase = "observed" /\ wk[w].seen = NoToken
  BY DEF WaitingInv, Unclaimed
<1>1. /\ wk \in [Workers -> WorkerRecords]
      /\ task \in [Tasks -> Rows]
  BY RowsAndQuotas DEF IndInv, TypeOK, WorkerTypeOK
<1>2. CASE \E m \in broker : m[1] = t /\ Deliver(w, m)
  BY <1>0, <1>1, <1>2 DEF Deliver, Waits
<1>3. CASE Has(w, t) /\ wk'[w] = wk[w]
  BY <1>0, <1>3
<1>4. CASE Has(w, t) /\ wk'[w] # wk[w]
  <2>1. wk[w].phase = "observed" /\ wk[w].seen = NoToken /\ wk[w].task = t
    BY <1>0, <1>4 DEF Has
  <2>2. DelivererNext
    BY <1>4 DEF Next, vars, DispatcherNext, ReconcilerNext, ControlNext
  <2>3. (\E m \in broker : Deliver(w, m)) \/ DeliveryStep(w) \/ DeliveryFault(w)
    BY <1>4, <2>2, WorkerSteps
  <2>4. Claim(w) \/ WorkerLost(w) \/ KillRevoked(w)
    BY <2>1, <2>3 DEF Deliver, DeliveryStep, DeliveryFault, StageGuard,
       ResolveContext, InputError, AuthorizeAttempt, ProviderReturns, Finish,
       Settle, Reject, Release, Fail, FailInput, FailBySignal, MarkForRetry,
       Requeue, Ack, ProviderFails, SoftTimeLimit, Interrupted, HardTimeLimit, StatementFails,
       ClaimPhases
  <2>5. ~Claim(w)
    <3>1. Claimable(task[t], NoToken)
      BY <1>0 DEF Waits, Claimable, BlockedCodes, CleanupMarkers
    <3>2. Claimed(task[t], w).status = "running"
      BY <1>1 DEF Claimed, Rows
    <3> QED BY <1>1, <2>1, <3>1, <3>2 DEF Claim, Waits
  <2>6. ~WorkerLost(w) /\ ~KillRevoked(w)
    BY <1>1 DEF WorkerLost, KillRevoked, Has, DownWorker, IdleWorker
  <2> QED BY <2>4, <2>5, <2>6
<1> QED BY <1>2, <1>3, <1>4, NewDelivery

(* The invariant is preserved by every step. *)
LEMMA WaitingStep ==
  ASSUME IndInv, WaitingInv, [Next]_vars, {"db", "timeout"} \cap Faults = {}
  PROVE  WaitingInv'
<1>1. Unknown'
  BY UnknownStep DEF Unknown
<1>2. stop'.left \subseteq stop'.ids
  BY StopIds DEF WaitingInv
<1>3. ASSUME NEW t \in Tasks, Waits(t)'
      PROVE  /\ task'[t].token = NoToken /\ task'[t].code = "none"
             /\ \A w \in Workers :
                  Has(w, t)' => wk'[w].phase = "observed" /\ wk'[w].seen = NoToken
  <2>1. task[t] \in Rows
    BY RowsAndQuotas
  <2>2. RowChange(task[t], task'[t]) \/ Inserted(task[t], task'[t])
    BY StepChanges DEF IndInv, RowsChange
  <2>3. CASE task[t].status = "none"
    <3>1. Inserted(task[t], task'[t])
      BY <1>3, <2>1, <2>2, <2>3, NoRowStays DEF Waits
    <3>2. \A w \in Workers : ~Has(w, t)'
      BY <2>3, NewDelivery DEF WaitingInv, Unknown
    <3> QED BY <3>1, <3>2 DEF Inserted, PendingRow, NoRow
  <2>4. CASE task[t].status # "none"
    <3>1. RowChange(task[t], task'[t])
      BY <2>2, <2>4 DEF Inserted
    <3>2. task'[t].status \in {"pending", "queued"}
      BY <1>3 DEF Waits
    <3>3. Waits(t) /\ task'[t].token = NoToken /\ task'[t].code = "none"
      BY <2>1, <3>1, <3>2, WaitingRow DEF Waits, WaitingInv, Unclaimed
    <3> QED BY <1>3, <3>3, ObservedStep
  <2> QED BY <2>3, <2>4
<1> QED BY <1>1, <1>2, <1>3 DEF WaitingInv, Unclaimed

(* The invariant holds initially. *)
LEMMA WaitingInit == Init => WaitingInv
BY DEF Init, StoreInit, DispInit, WorkerInit, StopInit, IdleStop, IdleWorker,
   NotDispatched, NoRow, WaitingInv, Unknown, Unclaimed, Waits, Has

-----------------------------------------------------------------------------
(* Where the message of a waiting row may go. *)

(* A row that waits has waited, or its request has just inserted it. *)
LEMMA WaitsAfter ==
  ASSUME IndInv, [Next]_vars, NEW t \in Tasks, Waits(t)'
  PROVE  Waits(t) \/ (task[t].status = "none" /\ RecordPending(t))
<1>0. task'[t].status \in {"pending", "queued"}
  BY DEF Waits
<1>1. task[t] \in Rows
  BY RowsAndQuotas
<1>2. CASE RowChange(task[t], task'[t])
  <2>1. task[t].status \in {"pending", "queued"}
    BY <1>0, <1>1, <1>2, WaitingRow
  <2> QED BY <2>1 DEF Waits
<1>3. CASE /\ Inserted(task[t], task'[t])
           /\ disp[t].phase = "reserved" /\ disp'[t].phase = "recorded"
  <2>1. task[t].status = "none"
    BY <1>3 DEF Inserted
  <2>2. RecordPending(t)
    BY <1>3, BeforeTheRow
  <2> QED BY <2>1, <2>2
<1> QED BY <1>2, <1>3, StepChanges DEF IndInv, RowsChange

(* Only the promotion queues a row. *)
LEMMA QueuedByPromotion ==
  ASSUME IndInv, [Next]_vars, NEW t \in Tasks, task'[t].status = "queued"
  PROVE  task[t].status = "queued" \/ Promote(t)
<1>0. task \in [Tasks -> Rows]
  BY RowsAndQuotas
<1> DEFINE Quiet(old, new) == new.status = "queued" => old.status = "queued"
           OneQuiet == \/ task' = task
                       \/ \E u \in Tasks : \E new :
                            /\ task' = [task EXCEPT ![u] = new]
                            /\ Quiet(task[u], new)
<1>1. \A u \in Tasks :
        /\ \A kind, n : Quiet(task[u], PendingRow(kind, n))
        /\ Quiet(task[u], MarkedRevoked(task[u]))
        /\ Quiet(task[u], FailedIfPending(task[u]))
        /\ Quiet(task[u], FailedIfRunning(task[u]))
        /\ \A w : Quiet(task[u], Claimed(task[u], w))
        /\ \A w : \A status \in {"success", "failed", "rejected"} : \A code :
             Quiet(task[u], FinishedIfClaimed(task[u], w, status, code))
        /\ \A r : Quiet(task[u], CleanupClaimed(task[u], r))
        /\ \A r, code : Quiet(task[u], CleanupFinished(task[u], r, code))
        /\ \A r : Quiet(task[u], CleanupReleased(task[u], r))
  BY <1>0 DEF Rows, PendingRow, NoRow, MarkedRevoked, FailedIfPending,
     FailedIfRunning, Claimed, FinishedIfClaimed, CleanupClaimed,
     CleanupFinished, CleanupReleased
<1>2. OneQuiet => task[t].status = "queued"
  BY <1>0
<1> HIDE DEF Quiet
<1>3. CASE DispatcherNext
  <2>1. PICK u \in Tasks :
          /\ \/ \E kind \in Kinds : Trigger(u, kind)
             \/ DispatchStep(u)
             \/ DispatchFault(u)
          /\ \A v \in Tasks \ {u} : task'[v] = task[v]
    BY <1>3, RequestSteps
  <2>2. CASE Promote(u)
    BY <2>1, <2>2
  <2>3. CASE ~Promote(u)
    <3>1. OneQuiet
      BY <1>1, <2>1, <2>3 DEF DispatchStep, DispatchFault, Trigger,
         RecordPending, RecordConflict, Enqueue, Accept, FoundCancelled, UndoOne,
         UndoDone, BrokerUnreadable, EnqueueFails, GenerationChanged,
         PromoteFails, UndoFails, DispatchCrash, storeVars
    <3> QED BY <1>2, <3>1
  <2> QED BY <2>2, <2>3
<1>4. CASE DelivererNext
  <2>1. ASSUME NEW w \in Workers, DeliveryStep(w) \/ DeliveryFault(w)
        PROVE  OneQuiet
    <3>1. wk[w].phase \notin {"idle", "down"} => wk[w].task \in Tasks
      BY DEF IndInv, TypeOK, WorkerTypeOK
    <3> DEFINE t2 == wk[w].task
               Ended == \E status \in {"success", "failed", "rejected"} : \E code :
                          task' = [task EXCEPT ![t2] =
                                     FinishedIfClaimed(task[t2], w, status, code)]
    <3>2. CASE /\ wk[w].phase \notin {"idle", "down"}
               /\ Ended \/ task' = [task EXCEPT ![t2] = Claimed(task[t2], w)]
      BY SMTT(30), <1>1, <3>1, <3>2
    <3>3. CASE task' = task
      BY <3>3
    <3>4. CASE Claim(w)
      BY <3>2, <3>3, <3>4 DEF Claim
    <3>5. CASE Finish(w) \/ Reject(w) \/ Fail(w) \/ FailInput(w)
               \/ FailBySignal(w) \/ MarkForRetry(w) \/ HardTimeLimit(w)
      <4>1. (Ended \/ task' = task) /\ wk[w].phase \notin {"idle", "down"}
        BY <3>5 DEF Finish, Reject, Fail, FailInput, FailBySignal, MarkForRetry,
           HardTimeLimit, ClaimPhases
      <4> QED BY <3>2, <3>3, <4>1
    <3> QED BY <2>1, <3>3, <3>4, <3>5 DEF DeliveryStep, DeliveryFault, StageGuard,
         ResolveContext, InputError, AuthorizeAttempt, ProviderReturns,
         Settle, Release, Requeue, Ack, ProviderFails, SoftTimeLimit, Interrupted,
         WorkerLost, KillRevoked, StatementFails, storeVars
  <2>2. CASE task' = task
    BY <2>2
  <2> QED BY <1>2, <1>4, <2>1, <2>2 DEF DelivererNext, WorkerNext, Deliver,
          ShutdownDrop, DiscardRevoked, storeVars
<1>5. CASE ReconcilerNext
  <2>1. \A r \in Reconcilers : rec[r].phase # "idle" => rec[r].task \in Tasks
    BY DEF IndInv, TypeOK, RecTypeOK
  <2>2. ASSUME NEW r \in Reconcilers, Mark(r) PROVE OneQuiet
    <3>1. rec[r].task \in Tasks
      BY <2>1, <2>2 DEF Mark
    <3>2. \/ task' = [task EXCEPT ![rec[r].task] = FailedIfPending(task[rec[r].task])]
          \/ task' = [task EXCEPT ![rec[r].task] = FailedIfRunning(task[rec[r].task])]
      BY <2>2 DEF Mark
    <3> QED BY <1>1, <3>1, <3>2
  <2>3. ASSUME NEW r \in Reconcilers, TakeLease(r) PROVE OneQuiet
    BY <1>1, <2>1, <2>3 DEF TakeLease
  <2>4. ASSUME NEW r \in Reconcilers, EndCleanup(r) PROVE OneQuiet
    <3>1. rec[r].task \in Tasks
      BY <2>1, <2>4 DEF EndCleanup
    <3>2. \/ task' = [task EXCEPT ![rec[r].task]
                            = CleanupFinished(task[rec[r].task], r, rec[r].final)]
          \/ task' = [task EXCEPT ![rec[r].task]
                            = CleanupReleased(task[rec[r].task], r)]
      BY <2>4 DEF EndCleanup
    <3>3. CASE task' = [task EXCEPT ![rec[r].task]
                                 = CleanupFinished(task[rec[r].task], r, rec[r].final)]
      BY <1>1, <3>1, <3>3
    <3>4. CASE task' = [task EXCEPT ![rec[r].task]
                                 = CleanupReleased(task[rec[r].task], r)]
      BY <1>1, <3>1, <3>4
    <3> QED BY <3>2, <3>3, <3>4
  <2>5. \/ \E r \in Reconcilers : Mark(r) \/ TakeLease(r) \/ EndCleanup(r)
        \/ task' = task
    BY <1>5 DEF ReconcilerNext, Find, FindStalePending, FindStuck,
       FindUnfinishedCleanup, Reconcile, CleanupOne,
       ReconcilerFault, CleanupFails, FinishFails, ReconcilerCrash, storeVars
  <2> QED BY <1>2, <2>2, <2>3, <2>4, <2>5
<1>6. CASE ControlNext
  <2>1. OneQuiet
    BY <1>1, <1>6 DEF ControlNext, Stop, Resume, Restart, Back, Approval, StopRun,
       ResumeRun, RestartRun, GoBack, Approve, StopStep, StopAborts,
       CollectActive, NextStopPass, BroadcastRevoke, BroadcastFails,
       MarkRevoked, FinalizeRevoked, storeVars
  <2> QED BY <1>2, <2>1
<1> QED BY <1>3, <1>4, <1>5, <1>6 DEF Next, vars

(* A request that comes to have published has just sent the message. *)
LEMMA NewlyPublished ==
  ASSUME IndInv, [Next]_vars, NEW t \in Tasks, Published(t)'
  PROVE  Published(t) \/ <<t, 0>> \in broker'
<1>0. /\ task[t] \in Rows
      /\ disp \in [Tasks -> [phase : DispPhases, kind : {"none"} \cup Kinds,
                             from : {"none"} \cup RunStages, todo : Seq(UndoSteps)]]
  BY RowsAndQuotas DEF IndInv, TypeOK, DispTypeOK
<1>1. CASE task'[t].status = "queued"
  <2>1. task[t].status = "queued" \/ Promote(t)
    BY <1>1, QueuedByPromotion
  <2>2. CASE Promote(t) /\ task[t].status # "queued"
    <3>1. task'[t] = PromotedToQueued(task[t]) /\ disp[t].phase = "enqueued"
      BY <2>2, RowsAndQuotas DEF Promote
    <3> QED BY <1>0, <1>1, <2>2, <3>1 DEF PromotedToQueued, Published
  <2> QED BY <2>1, <2>2 DEF Published
<1>2. CASE task'[t].status = "pending" /\ disp'[t].phase = "enqueued"
  <2>1. CASE disp[t].phase = "enqueued"
    <3>1. task[t].status = "pending" \/ RecordPending(t)
      <4>1. task[t].status \in {"pending", "none"} \/ RecordPending(t)
        <5>1. RowChange(task[t], task'[t]) \/ Inserted(task[t], task'[t])
          BY StepChanges DEF IndInv, RowsChange
        <5> QED BY <1>0, <1>2, <5>1, WaitingRow DEF Inserted
      <4> QED BY <1>2, <4>1, WaitsAfter DEF Waits
    <3> QED BY <2>1, <3>1 DEF Published, RecordPending
  <2>2. CASE disp[t].phase # "enqueued"
    <3>1. DispatcherNext
      BY <1>2, <2>2 DEF Next, vars, DelivererNext, ReconcilerNext, ControlNext
    <3>2. PICK u \in Tasks :
            /\ \/ \E kind \in Kinds : Trigger(u, kind)
               \/ DispatchStep(u)
               \/ DispatchFault(u)
            /\ \A v \in Tasks \ {u} : disp'[v] = disp[v]
      BY <3>1, RequestSteps
    <3>3. u = t
      BY <1>2, <2>2, <3>2
    <3>4. Enqueue(t)
      BY <1>0, <1>2, <2>2, <3>2, <3>3 DEF DispatchStep, DispatchFault,
         Trigger, RecordPending, RecordConflict, Promote, Accept,
         FoundCancelled, UndoOne, UndoDone, BrokerUnreadable, EnqueueFails,
         GenerationChanged, PromoteFails, UndoFails, DispatchCrash, Goto,
         Compensate, NextUndo
    <3> QED BY <3>4 DEF Enqueue
  <2> QED BY <2>1, <2>2
<1> QED BY <1>1, <1>2 DEF Published

(* A message leaves the broker when a delivery that has it ends, when it   *)
(* is discarded for a revocation, or when a shutdown drops it.             *)
LEMMA LostMessage ==
  ASSUME IndInv, [Next]_vars, NEW m \in broker, m \notin broker'
  PROVE  \/ \E w \in Workers : m = Message(w) /\ Ack(w)
         \/ \E w \in Workers : m = Message(w) /\ HardTimeLimit(w)
         \/ \E w \in Workers : m = Message(w) /\ KillRevoked(w)
         \/ DiscardRevoked(m)
         \/ \E w \in Workers : ShutdownDrop(w, m)
<1>1. CASE DelivererNext
  <2>1. ASSUME NEW w \in Workers, DeliveryStep(w) \/ DeliveryFault(w)
        PROVE  m = Message(w) /\ (Ack(w) \/ HardTimeLimit(w) \/ KillRevoked(w))
    <3>1. Ack(w) \/ HardTimeLimit(w) \/ KillRevoked(w)
      BY <2>1 DEF DeliveryStep, DeliveryFault, Claim, StageGuard,
         ResolveContext, InputError, AuthorizeAttempt, ProviderReturns, Finish,
         Settle, Reject, Release, Fail, FailInput, FailBySignal,
         MarkForRetry, Requeue, ProviderFails, SoftTimeLimit, Interrupted,
         WorkerLost, StatementFails, storeVars
    <3> QED BY <3>1 DEF Ack, HardTimeLimit, KillRevoked
  <2>2. ASSUME NEW n \in broker, DiscardRevoked(n) PROVE DiscardRevoked(m)
    <3>1. n = m
      BY <2>2 DEF DiscardRevoked
    <3> QED BY <2>2, <3>1
  <2>3. ASSUME NEW w \in Workers, NEW n \in broker, ShutdownDrop(w, n)
        PROVE  ShutdownDrop(w, m)
    <3>1. n = m
      BY <2>3 DEF ShutdownDrop
    <3> QED BY <2>3, <3>1
  <2>4. ~\E w \in Workers, n \in broker : Deliver(w, n)
    BY DEF Deliver, storeVars
  <2> QED BY <1>1, <2>1, <2>2, <2>3, <2>4 DEF DelivererNext, WorkerNext
<1>2. CASE DispatcherNext
  BY <1>2 DEF DispatcherNext, DispatchNext, DispatchStep, DispatchFault, Trigger,
     RecordPending, RecordConflict, Enqueue, Promote, Accept, FoundCancelled,
     UndoOne, UndoDone, BrokerUnreadable, EnqueueFails, GenerationChanged,
     PromoteFails, UndoFails, DispatchCrash, storeVars
<1>3. CASE broker' = broker
  BY <1>3
<1>4. ReconcilerNext => broker' = broker
  BY DEF ReconcilerNext, Find, FindStalePending, FindStuck, FindUnfinishedCleanup,
     Reconcile, Mark, TakeLease, CleanupOne, EndCleanup, ReconcilerFault,
     CleanupFails, FinishFails, ReconcilerCrash, storeVars
<1>5. ControlNext => broker' = broker
  BY DEF ControlNext, Stop, Resume, Restart, Back, Approval, StopRun,
     ResumeRun, RestartRun, GoBack, Approve, StopStep, StopAborts,
     CollectActive, NextStopPass, BroadcastRevoke, BroadcastFails,
     MarkRevoked, FinalizeRevoked, storeVars
<1> QED BY <1>1, <1>2, <1>3, <1>4, <1>5 DEF Next, vars

-----------------------------------------------------------------------------
(* DeliveryInv is inductive as long as neither the broker nor a statement  *)
(* fails, no stop is interrupted, and no shutdown drops a message.         *)

(* No revocation is taken back. *)
LEMMA RevokedStays ==
  ASSUME IndInv, [Next]_vars
  PROVE  revoked \subseteq revoked'
<1>1. CASE DispatcherNext
  BY <1>1 DEF DispatcherNext, DispatchNext, DispatchStep, DispatchFault, Trigger,
     RecordPending, RecordConflict, Enqueue, Promote, Accept, FoundCancelled,
     UndoOne, UndoDone, BrokerUnreadable, EnqueueFails, GenerationChanged,
     PromoteFails, UndoFails, DispatchCrash, storeVars
<1>2. CASE DelivererNext
  BY <1>2, WorkerSteps
<1>3. CASE ReconcilerNext
  BY <1>3 DEF ReconcilerNext, Find, FindStalePending, FindStuck, FindUnfinishedCleanup,
     Reconcile, Mark, TakeLease, CleanupOne, EndCleanup, ReconcilerFault,
     CleanupFails, FinishFails, ReconcilerCrash, storeVars
<1>4. CASE ControlNext
  BY <1>4 DEF ControlNext, Stop, Resume, Restart, Back, Approval, StopRun,
     ResumeRun, RestartRun, GoBack, Approve, StopStep, StopAborts,
     CollectActive, NextStopPass, BroadcastRevoke, BroadcastFails,
     MarkRevoked, FinalizeRevoked, storeVars
<1> QED BY <1>1, <1>2, <1>3, <1>4 DEF Next, vars

(* A dispatch is taken back when the run is found cancelled, or when its   *)
(* message cannot be published.                                            *)
LEMMA NewUndo ==
  ASSUME IndInv, [Next]_vars, "db" \notin Faults, NEW t \in Tasks,
         "broker" \notin Faults \/ disp[t].phase \notin {"recorded", "enqueued"},
         disp'[t].phase = "undo", disp[t].phase # "undo"
  PROVE  run.status = "cancelled" /\ run' = run
<1>1. DispatcherNext
  BY DEF Next, vars, DelivererNext, ReconcilerNext, ControlNext
<1>2. PICK u \in Tasks :
        /\ \/ \E kind \in Kinds : Trigger(u, kind)
           \/ DispatchStep(u)
           \/ DispatchFault(u)
        /\ \A v \in Tasks \ {u} : disp'[v] = disp[v]
  BY <1>1, RequestSteps
<1>3. u = t
  BY <1>2
<1>4. FoundCancelled(t)
  BY <1>2, <1>3 DEF IndInv, TypeOK, DispTypeOK, DispatchStep, DispatchFault,
     Trigger, RecordPending, RecordConflict, Enqueue, Promote, Accept,
     UndoOne, UndoDone, BrokerUnreadable, EnqueueFails, GenerationChanged,
     PromoteFails, UndoFails, DispatchCrash, Goto, NextUndo
<1> QED BY <1>4 DEF FoundCancelled, storeVars

(* Only a stop cancels the run. *)
LEMMA NewCancellation ==
  ASSUME IndInv, [Next]_vars, run'.status = "cancelled", run.status # "cancelled"
  PROVE  StopRun
<1>0. run \in RunRows
  BY DEF IndInv, TypeOK, StoreTypeOK, RunRows
<1>1. /\ \A kind : RunAdvanced(run, kind).status # "cancelled"
      /\ \A stages : RunFailed(run, stages).status # "cancelled"
  BY DEF RunAdvanced, AdvancedTo, RunFailed
<1>2. ASSUME NEW t \in Tasks, DispatchStep(t) \/ DispatchFault(t)
      PROVE  run'.status = run.status
  BY <1>0, <1>2 DEF DispatchStep, DispatchFault, RecordPending,
     RecordConflict, Enqueue, Promote, Accept, FoundCancelled, UndoOne,
     UndoDone, BrokerUnreadable, EnqueueFails, GenerationChanged,
     PromoteFails, UndoFails, DispatchCrash, StageRolledBack, storeVars,
     RunRows
<1>3. ~DispatcherNext
  BY <1>2 DEF DispatcherNext, DispatchNext, Trigger
<1>4. ASSUME NEW w \in Workers, DeliveryStep(w) \/ DeliveryFault(w)
      PROVE  run'.status # "cancelled"
  BY <1>1, <1>4 DEF DeliveryStep, DeliveryFault, Claim, StageGuard,
     ResolveContext, InputError, AuthorizeAttempt, ProviderReturns, Finish,
     Settle, Reject, Release, Fail, FailInput, FailBySignal, MarkForRetry,
     Requeue, Ack, ProviderFails, SoftTimeLimit, Interrupted, HardTimeLimit, WorkerLost,
     KillRevoked, StatementFails, storeVars
<1>5. ~DelivererNext
  BY <1>4 DEF DelivererNext, WorkerNext, Deliver, ShutdownDrop, DiscardRevoked,
     storeVars
<1>6. ~ReconcilerNext
  <2>1. \A t : RunRolledBack(t).status # "cancelled"
    BY <1>1 DEF RunRolledBack
  <2> QED BY <2>1 DEF ReconcilerNext, Find, FindStalePending, FindStuck,
          FindUnfinishedCleanup, Reconcile, ReconcilerFault, Mark, TakeLease,
          CleanupOne, EndCleanup, CleanupFails, FinishFails, ReconcilerCrash, storeVars
<1>7. CASE ControlNext
  BY <1>0, <1>7 DEF ControlNext, Stop, Resume, Restart, Back, Approval,
     ResumeRun, RestartRun, GoBack, Approve, StopStep, StopAborts,
     CollectActive, NextStopPass, BroadcastRevoke, BroadcastFails,
     MarkRevoked, FinalizeRevoked, storeVars, RunRows
<1> QED BY <1>3, <1>5, <1>6, <1>7 DEF Next, vars

(* A stop that is not interrupted marks the rows it covers. *)
LEMMA CoverStays ==
  ASSUME IndInv, [Next]_vars, {"broker", "db", "stop"} \cap Faults = {},
         stop.left \subseteq stop.ids,
         NEW t \in Tasks, Waits(t), Waits(t)', StopCovers(t)
  PROVE  StopCovers(t)'
<1>0. stop \in [phase : StopPhases, ids : SUBSET Tasks, left : SUBSET Tasks]
  BY DEF IndInv, TypeOK, StopTypeOK
<1>1. CASE stop' = stop
  BY <1>1 DEF StopCovers
<1>2. CASE CollectActive
  <2>1. t \in ActiveTasks
    BY DEF ActiveTasks, ActiveStatuses, Waits
  <2>2. stop'.phase = "revoke" /\ stop'.ids = ActiveTasks
    BY <1>2 DEF CollectActive
  <2> QED BY <2>1, <2>2 DEF StopCovers
<1>3. CASE NextStopPass
  <2>1. stop.phase = "revoke" /\ t \in stop.ids
    BY <1>3 DEF NextStopPass, StopCovers
  <2>2. stop' = [stop EXCEPT !.phase = "mark", !.left = stop.ids]
    BY <1>3, <2>1 DEF NextStopPass, NextPass
  <2>3. stop'.phase = "mark" /\ stop'.left = stop.ids
    BY <1>0, <2>2
  <2> QED BY <2>1, <2>3 DEF StopCovers
<1>4. CASE \E u \in Tasks : BroadcastRevoke(u)
  BY <1>0, <1>4 DEF BroadcastRevoke, Handled, StopCovers
<1>5. CASE \E u \in Tasks : MarkRevoked(u)
  <2>1. PICK u \in Tasks : MarkRevoked(u)
    BY <1>5
  <2>2. u # t
    <3>1. task'[u] = MarkedRevoked(task[u]) /\ task[u] \in Rows
      BY <2>1, RowsAndQuotas DEF MarkRevoked
    <3> QED BY <3>1 DEF MarkedRevoked, Rows, Waits
  <2> QED BY <1>0, <2>1, <2>2 DEF MarkRevoked, Handled, StopCovers
<1>6. ~StopRun /\ ~StopAborts /\ \A u \in Tasks : ~FinalizeRevoked(u) /\ ~BroadcastFails(u)
  BY DEF StopRun, StopAborts, FinalizeRevoked, BroadcastFails, StopCovers
<1>7. CASE ControlNext
  BY <1>1, <1>2, <1>3, <1>4, <1>5, <1>6, <1>7 DEF ControlNext, Stop, Resume, Restart,
     Back, Approval, ResumeRun, RestartRun, GoBack, Approve, StopStep
<1> QED BY <1>1, <1>7 DEF Next, vars, DispatcherNext, DelivererNext, ReconcilerNext

(* The faults under which a waiting row keeps its message. *)
NothingDropped ==
  {"broker", "db", "stop", "shutdown", "timeout"} \cap Faults = {}

(* The message of a published row stays until somebody claims the row or   *)
(* its revocation is known.                                                *)
LEMMA MessageStays ==
  ASSUME IndInv, WaitingInv, [Next]_vars, {"shutdown", "timeout"} \cap Faults = {},
         NEW t \in Tasks, Waits(t), <<t, 0>> \in broker
  PROVE  <<t, 0>> \in broker' \/ t \in revoked
<1> SUFFICES ASSUME <<t, 0>> \notin broker', t \notin revoked PROVE FALSE
  OBVIOUS
<1>1. \A w \in Workers : Has(w, t) => wk[w].phase = "observed"
  BY DEF WaitingInv, Unclaimed
<1>2. \A w \in Workers : <<t, 0>> = Message(w) => wk[w].task = t
  BY DEF Message
<1>3. ~\E w \in Workers : <<t, 0>> = Message(w) /\ Ack(w)
  BY <1>1, <1>2 DEF Ack, Has
<1>4. ~\E w \in Workers : <<t, 0>> = Message(w) /\ HardTimeLimit(w)
  BY DEF HardTimeLimit
<1>5. ~\E w \in Workers : <<t, 0>> = Message(w) /\ KillRevoked(w)
  BY <1>1, <1>2 DEF KillRevoked, Has
<1>6. ~DiscardRevoked(<<t, 0>>)
  BY DEF DiscardRevoked
<1>7. ~\E w \in Workers : ShutdownDrop(w, <<t, 0>>)
  BY DEF ShutdownDrop
<1> QED BY <1>3, <1>4, <1>5, <1>6, <1>7, LostMessage

(* The invariant is preserved by every step. *)
LEMMA DeliveryStaysPossible ==
  ASSUME IndInv, WaitingInv, DeliveryInv, [Next]_vars, NothingDropped
  PROVE  DeliveryInv'
<1> DEFINE Threat(t) == \/ t \in revoked \/ disp[t].phase = "undo"
                        \/ run.status = "cancelled"
<1>1. ASSUME NEW t \in Tasks, Published(t)'
      PROVE  <<t, 0>> \in broker' \/ t \in revoked'
  <2>1. CASE Published(t)
    <3>1. Waits(t)
      BY <2>1 DEF Published, Waits
    <3>2. <<t, 0>> \in broker \/ t \in revoked
      BY <2>1 DEF DeliveryInv
    <3> QED BY <3>1, <3>2, MessageStays, RevokedStays DEF NothingDropped
  <2> QED BY <1>1, <2>1, NewlyPublished
<1>2. ASSUME NEW t \in Tasks, Waits(t)', Threat(t)'
      PROVE  StopCovers(t)'
  <2>1. CASE task[t].status = "none" /\ RecordPending(t)
    <3>1. t \notin revoked
      BY <2>1 DEF WaitingInv, Unknown
    <3>2. /\ revoked' = revoked /\ disp'[t].phase = "recorded"
          /\ run'.status = run.status /\ run.status # "cancelled"
      BY <2>1 DEF RecordPending, MayTransition, Goto, IndInv, TypeOK, DispTypeOK,
         StoreTypeOK
    <3> QED BY <1>2, <3>1, <3>2
  <2>2. CASE Waits(t)
    <3>1. Threat(t) => StopCovers(t)
      BY <2>2 DEF DeliveryInv
    <3>2. CASE StopCovers(t)
      BY <1>2, <2>2, <3>2, CoverStays DEF NothingDropped, WaitingInv
    <3>3. CASE t \in revoked' /\ t \notin revoked
      <4>1. CASE disp[t].phase = "undo"
        BY <3>1, <3>2, <4>1
      <4>2. CASE stop.phase = "revoke" /\ t \in stop.left
        <5>1. StopCovers(t)
          BY <4>2 DEF StopCovers, WaitingInv
        <5> QED BY <3>2, <5>1
      <4> QED BY <3>3, <4>1, <4>2, NewRevocation
    <3>4. CASE disp'[t].phase = "undo" /\ disp[t].phase # "undo"
      <4>1. run.status = "cancelled"
        BY <3>4, NewUndo DEF NothingDropped
      <4> QED BY <3>1, <3>2, <4>1
    <3>5. CASE run'.status = "cancelled" /\ run.status # "cancelled"
      <4>1. StopRun
        BY <3>5, NewCancellation
      <4>2. stop'.phase = "collect"
        BY <4>1 DEF StopRun, IndInv, TypeOK, StopTypeOK
      <4> QED BY <4>2 DEF StopCovers
    <3> QED BY <1>2, <3>1, <3>2, <3>3, <3>4, <3>5
  <2> QED BY <1>2, <2>1, <2>2, WaitsAfter
<1> QED BY <1>1, <1>2 DEF DeliveryInv

(* The invariant holds initially. *)
LEMMA DeliveryInit == Init => DeliveryInv
BY DEF Init, StoreInit, NoRow, DeliveryInv, Published, Waits

(* A queued row is never left without a message, for any number of tasks,  *)
(* workers, passes and retries: a delivery is on its way, its request is   *)
(* still at work, or a stop has it in hand.  The broker and the database   *)
(* are up, a stop is not interrupted, no shutting worker drops what it is  *)
(* handed, and no time limit cuts a delivery off; workers and requests may *)
(* die, and deliveries be duplicated.                                      *)
THEOREM QueuedRowsAreDelivered ==
  ASSUME NothingDropped
  PROVE  Spec => []QueuedIsDeliverable
<1>1. IndInv /\ WaitingInv /\ DeliveryInv => QueuedIsDeliverable
  <2> SUFFICES ASSUME IndInv, WaitingInv, DeliveryInv,
                      NEW t \in Tasks, task[t].status = "queued"
               PROVE  OnItsWay(t) \/ Stopping(t)
    BY DEF QueuedIsDeliverable
  <2>1. Published(t) /\ Waits(t)
    BY DEF Published, Waits
  <2>2. CASE <<t, 0>> \in broker
    <3>1. <<t, 0>>[1] = t
      OBVIOUS
    <3> QED BY <2>2, <3>1 DEF OnItsWay, Messages
  <2>3. CASE t \in revoked
    BY <2>1, <2>3 DEF DeliveryInv, StopCovers, Stopping, WaitingInv
  <2> QED BY <2>1, <2>2, <2>3 DEF DeliveryInv
<1>2. {"db", "timeout"} \cap Faults = {}
  BY DEF NothingDropped
<1>3. IndInv /\ WaitingInv /\ [Next]_vars => WaitingInv'
  BY <1>2, WaitingStep
<1>4. IndInv /\ WaitingInv /\ DeliveryInv /\ [Next]_vars => DeliveryInv'
  BY DeliveryStaysPossible
<1> QED BY <1>1, <1>3, <1>4, WaitingInit, DeliveryInit, Inductive, PTL DEF Spec

-----------------------------------------------------------------------------
(* Who writes what, for the reservations. *)

(* A worker changes by a step of its own. *)
LEMMA WorkerActs ==
  ASSUME IndInv, [Next]_vars, NEW w \in Workers, wk'[w] # wk[w]
  PROVE  \/ \E m \in broker : Deliver(w, m)
         \/ /\ DeliveryStep(w) \/ DeliveryFault(w)
            /\ wk[w].task \in Tasks
            /\ wk'[w].task = wk[w].task \/ wk'[w].phase \in {"idle", "down"}
<1>1. DelivererNext
  BY DEF Next, vars, DispatcherNext, ReconcilerNext, ControlNext
<1> QED BY <1>1, WorkerSteps

(* The statements that write the row of t, and whose they are. *)
RowWrittenBy(t) ==
  \/ RecordPending(t) \/ Promote(t)
  \/ /\ UndoOne(t) /\ Head(disp[t].todo) = "row" /\ task'[t] = MarkedRevoked(task[t])
  \/ MarkRevoked(t) /\ task'[t] = MarkedRevoked(task[t])
  \/ \E w \in Workers :
       /\ wk[w].task = t
       /\ \/ Claim(w) /\ task'[t] = Claimed(task[t], w)
          \/ /\ HoldsClaim(task[t], w)
             /\ \/ Finish(w) /\ task'[t] = FinishedIfClaimed(task[t], w, "success", "none")
                \/ Reject(w) /\ task'[t] = FinishedIfClaimed(task[t], w, "rejected", "error")
                \/ /\ \/ Fail(w) \/ FailInput(w) \/ FailBySignal(w)
                      \/ MarkForRetry(w) \/ HardTimeLimit(w)
                   /\ task'[t] = FinishedIfClaimed(task[t], w, "failed", "error")
  \/ \E r \in Reconcilers :
       /\ rec[r].task = t
       /\ \/ /\ Mark(r)
             /\ task'[t] \in {FailedIfPending(task[t]), FailedIfRunning(task[t])}
          \/ TakeLease(r) /\ CleanupClaimable(task[t])
                          /\ task'[t] = CleanupClaimed(task[t], r)
          \/ /\ EndCleanup(r)
             /\ \/ rec[r].ok
                \/ ~rec[r].ok /\ task'[t] = CleanupReleased(task[t], r)

(* Nothing else does. *)
LEMMA RowWriters ==
  ASSUME IndInv, [Next]_vars, NEW t \in Tasks, task'[t] # task[t]
  PROVE  RowWrittenBy(t)
<1>0. task \in [Tasks -> Rows]
  BY RowsAndQuotas
<1>1. CASE DispatcherNext
  <2>1. PICK u \in Tasks :
          /\ \/ \E kind \in Kinds : Trigger(u, kind)
             \/ DispatchStep(u)
             \/ DispatchFault(u)
          /\ \A v \in Tasks \ {u} : task'[v] = task[v]
    BY <1>1, RequestSteps
  <2>2. u = t
    BY <2>1
  <2>3. RecordPending(t) \/ Promote(t) \/ UndoOne(t)
    BY <2>1, <2>2 DEF DispatchStep, DispatchFault, Trigger,
       RecordConflict, Enqueue, Accept, FoundCancelled, UndoDone,
       BrokerUnreadable, EnqueueFails, GenerationChanged,
       PromoteFails, UndoFails, DispatchCrash, storeVars
  <2>4. CASE UndoOne(t)
    <3>1. Head(disp[t].todo) = "row" /\ task'[t] = MarkedRevoked(task[t])
      BY <1>0, <2>4 DEF UndoOne
    <3> QED BY <2>4, <3>1 DEF RowWrittenBy
  <2> QED BY <2>3, <2>4 DEF RowWrittenBy
<1>2. CASE DelivererNext
  <2>1. PICK w \in Workers : DeliveryStep(w) \/ DeliveryFault(w)
    BY <1>2 DEF DelivererNext, WorkerNext, Deliver, ShutdownDrop, DiscardRevoked,
       storeVars
  <2>2. \/ Claim(w) \/ Finish(w) \/ Reject(w) \/ Fail(w) \/ FailInput(w)
        \/ FailBySignal(w) \/ MarkForRetry(w) \/ HardTimeLimit(w)
    BY <2>1 DEF DeliveryStep, DeliveryFault, StageGuard, ResolveContext,
       InputError, AuthorizeAttempt, ProviderReturns, Settle, Release,
       Requeue, Ack, ProviderFails, SoftTimeLimit, Interrupted, WorkerLost, KillRevoked,
       StatementFails, storeVars
  <2>3. wk[w].task = t
    <3>1. task' = task \/ \E new : task' = [task EXCEPT ![wk[w].task] = new]
      BY <2>2 DEF Claim, Finish, Reject, Fail, FailInput, FailBySignal,
         MarkForRetry, HardTimeLimit
    <3> QED BY <1>0, <3>1
  <2>4. CASE Claim(w)
    <3>1. task'[t] = Claimed(task[t], w)
      BY <1>0, <2>3, <2>4 DEF Claim
    <3> QED BY <2>3, <2>4, <3>1 DEF RowWrittenBy
  <2>5. CASE Finish(w)
    <3>1. task'[t] = FinishedIfClaimed(task[t], w, "success", "none")
      BY <1>0, <2>3, <2>5 DEF Finish
    <3>2. HoldsClaim(task[t], w)
      BY <3>1 DEF FinishedIfClaimed
    <3> QED BY <2>3, <2>5, <3>1, <3>2 DEF RowWrittenBy
  <2>6. CASE Reject(w)
    <3>1. task'[t] = FinishedIfClaimed(task[t], w, "rejected", "error")
      BY <1>0, <2>3, <2>6 DEF Reject
    <3>2. HoldsClaim(task[t], w)
      BY <3>1 DEF FinishedIfClaimed
    <3> QED BY <2>3, <2>6, <3>1, <3>2 DEF RowWrittenBy
  <2>7. CASE \/ Fail(w) \/ FailInput(w) \/ FailBySignal(w)
             \/ MarkForRetry(w) \/ HardTimeLimit(w)
    <3>1. task'[t] = FinishedIfClaimed(task[t], w, "failed", "error")
      <4>1. \/ task' = [task EXCEPT ![t] = FinishedIfClaimed(task[t], w, "failed", "error")]
            \/ task' = task
        <5>1. CASE FailInput(w) \/ MarkForRetry(w)
          BY <2>3, <5>1 DEF FailInput, MarkForRetry
        <5>2. CASE Fail(w)
          BY <2>3, <5>2 DEF Fail
        <5>3. CASE FailBySignal(w)
          BY <2>3, <5>3 DEF FailBySignal
        <5>4. CASE HardTimeLimit(w)
          BY <2>3, <5>4 DEF HardTimeLimit
        <5> QED BY <2>7, <5>1, <5>2, <5>3, <5>4
      <4> QED BY <1>0, <4>1
    <3>2. HoldsClaim(task[t], w)
      BY <3>1 DEF FinishedIfClaimed
    <3> QED BY <2>3, <2>7, <3>1, <3>2 DEF RowWrittenBy
  <2> QED BY <2>2, <2>4, <2>5, <2>6, <2>7
<1>3. CASE ReconcilerNext
  <2>1. PICK r \in Reconcilers : Mark(r) \/ TakeLease(r) \/ EndCleanup(r)
    BY <1>3 DEF ReconcilerNext, Find, FindStalePending, FindStuck,
       FindUnfinishedCleanup, Reconcile, CleanupOne,
       ReconcilerFault, CleanupFails, FinishFails, ReconcilerCrash, storeVars
  <2>2. rec[r].task = t
    BY <1>0, <2>1 DEF Mark, TakeLease, EndCleanup
  <2>3. CASE Mark(r)
    <3>1. task'[t] \in {FailedIfPending(task[t]), FailedIfRunning(task[t])}
      BY <1>0, <2>2, <2>3 DEF Mark
    <3> QED BY <2>2, <2>3, <3>1 DEF RowWrittenBy
  <2>4. CASE TakeLease(r)
    <3>1. CleanupClaimable(task[t]) /\ task'[t] = CleanupClaimed(task[t], r)
      BY <1>0, <2>2, <2>4 DEF TakeLease
    <3> QED BY <2>2, <2>4, <3>1 DEF RowWrittenBy
  <2>5. CASE EndCleanup(r)
    <3>1. rec[r].ok \/ task'[t] = CleanupReleased(task[t], r)
      BY <1>0, <2>2, <2>5 DEF EndCleanup
    <3> QED BY <2>2, <2>5, <3>1 DEF RowWrittenBy
  <2> QED BY <2>1, <2>3, <2>4, <2>5
<1>4. CASE ControlNext
  <2>1. PICK u \in Tasks : MarkRevoked(u)
    BY <1>4 DEF ControlNext, Stop, Resume, Restart, Back, Approval, StopRun,
       ResumeRun, RestartRun, GoBack, Approve, StopStep, StopAborts,
       CollectActive, NextStopPass, BroadcastRevoke, BroadcastFails,
       FinalizeRevoked, storeVars
  <2>2. u = t /\ task'[t] = MarkedRevoked(task[t])
    BY <1>0, <2>1 DEF MarkRevoked
  <2> QED BY <2>1, <2>2 DEF RowWrittenBy
<1> QED BY <1>1, <1>2, <1>3, <1>4 DEF Next, vars

(* A held reservation was held before, or its dispatch has just begun. *)
LEMMA HeldAfter ==
  ASSUME IndInv, [Next]_vars, NEW t \in Tasks, Held(t)'
  PROVE  \/ Held(t) /\ disp[t].phase # "new"
         \/ disp[t].phase = "new" /\ disp'[t].phase = "reserved"
<1>1. quota'[t].status = "reserved"
  BY DEF Held
<1>2. CASE disp[t].phase # "new"
  BY <1>1, <1>2, ReleasedStays DEF Held
<1>3. CASE disp[t].phase = "new"
  <2>1. quota[t] \in Quotas
    BY RowsAndQuotas
  <2>2. /\ quota[t].status = "none"
        /\ \A k \in Attempts : quota[t].attempt[k] = "none"
    BY <1>3 DEF IndInv, Fresh
  <2>3. ~QuotaChange(quota[t], quota'[t])
    BY <1>1, <2>1, <2>2, NoQuotaStays
  <2> QED BY <1>3, <2>3, StepChanges DEF IndInv, QuotasChange
<1> QED BY <1>2, <1>3

(* A release gives the reservation up. *)
LEMMA Releases ==
  ASSUME NEW q \in Quotas
  PROVE  /\ QuotaCancelled(q).status # "reserved"
         /\ QuotaFinalized(q).status # "reserved"
         /\ QuotaSettled(q, TRUE).status # "reserved"
<1>1. QuotaCancelled(q).status # "reserved"
  BY DEF QuotaCancelled, Quotas
<1>2. QuotaSettled(q, TRUE).status # "reserved"
  BY DEF QuotaSettled
<1>3. HasAttempt(q, "authorized") \/ HasAttempt(q, "accounted")
        => QuotaSettled(q, FALSE).status # "reserved"
  BY DEF QuotaSettled
<1> QED BY <1>1, <1>2, <1>3 DEF QuotaFinalized

-----------------------------------------------------------------------------
(* OwnersInv is inductive as long as no process dies, nothing times out,   *)
(* no statement fails, and no delivery is retried.                         *)

(* The faults under which every held reservation has an owner. *)
NobodyDies ==
  /\ {"api", "stop", "worker", "db", "timeout", "shutdown"} \cap Faults = {}
  /\ "provider" \in Faults => MaxRetries = 0

(* A dispatch that has just begun. *)
LEMMA JustReserved ==
  ASSUME IndInv, WaitingInv, [Next]_vars, NobodyDies, NEW t \in Tasks,
         disp'[t].phase = "reserved"
  PROVE  /\ RequestAhead(t)' /\ RowOwned(t)' /\ NothingBilled(t)'
         /\ ~Published(t)'
<1>1. IndInv' /\ WaitingInv'
  BY StepIndInv, WaitingStep DEF NobodyDies
<1>2. task'[t].status = "none"
  BY <1>1 DEF IndInv, Fresh
<1>3. RequestAhead(t)'
  BY DEF RequestAhead
<1>4. RowOwned(t)' /\ ~Published(t)'
  BY <1>2 DEF RowOwned, Published
<1>5. NothingBilled(t)'
  BY <1>1, <1>2 DEF NothingBilled, WaitingInv, Unknown
<1> QED BY <1>3, <1>4, <1>5

(* A compensation that has its release before it still has it when another *)
(* step is done.                                                           *)
LEMMA TailReleases ==
  ASSUME NEW s \in Seq(UndoSteps), s # <<>>, Head(s) # "quota",
         \E i \in DOMAIN s : s[i] = "quota"
  PROVE  \E i \in DOMAIN Tail(s) : Tail(s)[i] = "quota"
<1>1. PICK i \in DOMAIN s : s[i] = "quota"
  OBVIOUS
<1>2. i \in 1 .. Len(s) /\ i # 1
  BY <1>1
<1>3. i - 1 \in 1 .. Len(Tail(s)) /\ Tail(s)[i - 1] = s[i]
  BY <1>2
<1> QED BY <1>1, <1>3

(* Every compensation releases the reservation. *)
LEMMA PlansRelease ==
  /\ \E i \in DOMAIN AfterEnqueueError : AfterEnqueueError[i] = "quota"
  /\ \E i \in DOMAIN AfterUncertainty : AfterUncertainty[i] = "quota"
  /\ \E i \in DOMAIN AfterCancellation : AfterCancellation[i] = "quota"
<1>1. 1 \in DOMAIN AfterEnqueueError /\ AfterEnqueueError[1] = "quota"
  BY DEF AfterEnqueueError
<1>2. 3 \in DOMAIN AfterUncertainty /\ AfterUncertainty[3] = "quota"
  BY DEF AfterUncertainty
<1>3. 4 \in DOMAIN AfterCancellation /\ AfterCancellation[4] = "quota"
  BY DEF AfterCancellation
<1> QED BY <1>1, <1>2, <1>3

(* While the reservation is held its request ends neither refused nor      *)
(* crashed, and takes the dispatch back only with the release before it.   *)
LEMMA RequestGoesOn ==
  ASSUME IndInv, [Next]_vars, NobodyDies, NEW t \in Tasks,
         disp[t].phase # "crashed"
  PROVE  /\ disp'[t].phase # "crashed"
         /\ Held(t) /\ Held(t)' /\ RequestAhead(t) => RequestAhead(t)'
<1>0. /\ disp \in [Tasks -> [phase : DispPhases, kind : {"none"} \cup Kinds,
                             from : {"none"} \cup RunStages, todo : Seq(UndoSteps)]]
      /\ quota \in [Tasks -> Quotas]
      /\ "api" \notin Faults /\ "db" \notin Faults
  BY RowsAndQuotas DEF IndInv, TypeOK, DispTypeOK, NobodyDies
<1>1. CASE disp'[t] = disp[t]
  BY <1>1 DEF RequestAhead, RequestReleases
<1>2. CASE disp'[t] # disp[t]
  <2>1. DispatcherNext
    BY <1>2 DEF Next, vars, DelivererNext, ReconcilerNext, ControlNext
  <2>2. (\E kind \in Kinds : Trigger(t, kind)) \/ DispatchStep(t) \/ DispatchFault(t)
    BY <1>2, <2>1, RequestSteps
  <2>3. CASE \/ \E kind \in Kinds : Trigger(t, kind)
             \/ RecordPending(t) \/ Enqueue(t) \/ Promote(t) \/ Accept(t)
    <3>1. disp'[t].phase \in {"reserved", "recorded", "enqueued", "promoted", "accepted"}
      BY <1>0, <2>3 DEF Trigger, RecordPending, Enqueue, Promote, Accept, Goto
    <3> QED BY <3>1 DEF RequestAhead
  <2>4. CASE RecordConflict(t) \/ BrokerUnreadable(t)
    <3>1. disp'[t].phase = "refused" /\ quota'[t] = QuotaCancelled(quota[t])
      BY <1>0, <2>4 DEF RecordConflict, BrokerUnreadable, Goto
    <3> QED BY <1>0, <3>1, Releases DEF Held
  <2>5. CASE FoundCancelled(t) \/ EnqueueFails(t) \/ GenerationChanged(t) \/ PromoteFails(t)
    <3>1. /\ disp'[t].phase = "undo"
          /\ disp'[t].todo \in {AfterEnqueueError, AfterUncertainty, AfterCancellation}
      BY <1>0, <2>5 DEF FoundCancelled, EnqueueFails, GenerationChanged, PromoteFails,
         Compensate
    <3> QED BY <3>1, PlansRelease DEF RequestAhead, RequestReleases
  <2>6. CASE UndoOne(t) \/ UndoFails(t)
    <3>1. /\ disp[t].phase = "undo" /\ disp[t].todo # <<>>
          /\ disp'[t].phase = "undo" /\ disp'[t].todo = Tail(disp[t].todo)
      BY ZenonT(60), <1>0, <2>6 DEF UndoOne, UndoFails, NextUndo
    <3>2. Head(disp[t].todo) = "quota" => quota'[t] = QuotaCancelled(quota[t])
      BY <1>0, <2>6 DEF UndoOne, UndoFails
    <3>3. Held(t)' => Head(disp[t].todo) # "quota"
      BY <1>0, <3>2, Releases DEF Held
    <3>4. disp[t].todo \in Seq(UndoSteps)
      BY <1>0
    <3> QED BY <3>1, <3>3, <3>4, TailReleases DEF RequestAhead, RequestReleases
  <2>7. CASE UndoDone(t)
    <3>1. disp[t].phase = "undo" /\ disp[t].todo = <<>> /\ disp'[t].phase = "refused"
      BY <1>0, <2>7 DEF UndoDone, Goto
    <3>2. ~RequestReleases(t)
      BY <3>1 DEF RequestReleases
    <3> QED BY <3>1, <3>2 DEF RequestAhead
  <2> QED BY <1>0, <2>2, <2>3, <2>4, <2>5, <2>6, <2>7
          DEF DispatchStep, DispatchFault, DispatchCrash
<1> QED BY <1>1, <1>2

(* A published message stays while the reservation is held: whatever drops *)
(* the message of a waiting row finalizes its reservation.                 *)
LEMMA HeldMessageStays ==
  ASSUME IndInv, WaitingInv, [Next]_vars, NobodyDies, NEW t \in Tasks,
         Held(t)', Waits(t), <<t, 0>> \in broker
  PROVE  <<t, 0>> \in broker'
<1> SUFFICES ASSUME <<t, 0>> \notin broker' PROVE FALSE
  OBVIOUS
<1>0. quota \in [Tasks -> Quotas]
  BY RowsAndQuotas
<1>1. \A w \in Workers : Has(w, t) => wk[w].phase = "observed"
  BY DEF WaitingInv, Unclaimed
<1>2. \A w \in Workers : <<t, 0>> = Message(w) => wk[w].task = t
  BY DEF Message
<1>3. ~\E w \in Workers : <<t, 0>> = Message(w) /\ Ack(w)
  BY <1>1, <1>2 DEF Ack, Has
<1>4. ~\E w \in Workers : <<t, 0>> = Message(w) /\ HardTimeLimit(w)
  BY DEF HardTimeLimit, NobodyDies
<1>5. ASSUME NEW w \in Workers, <<t, 0>> = Message(w), KillRevoked(w) PROVE FALSE
  <2>1. quota'[t] = QuotaFinalized(quota[t])
    BY <1>0, <1>2, <1>5 DEF KillRevoked
  <2> QED BY <1>0, <2>1, Releases DEF Held
<1>6. ASSUME DiscardRevoked(<<t, 0>>) PROVE FALSE
  <2>1. quota'[t] = QuotaFinalized(quota[t])
    BY <1>0, <1>6 DEF DiscardRevoked
  <2> QED BY <1>0, <2>1, Releases DEF Held
<1>7. ~\E w \in Workers : ShutdownDrop(w, <<t, 0>>)
  BY DEF ShutdownDrop, NobodyDies
<1> QED BY <1>3, <1>4, <1>5, <1>6, <1>7, LostMessage

(* A worker that goes to a phase keeps the rest of its record. *)
LEMMA Goes ==
  ASSUME IndInv, NEW w \in Workers, NEW phase, Go(w, phase)
  PROVE  wk'[w].phase = phase /\ wk'[w].outcome = wk[w].outcome
<1>1. wk \in [Workers -> WorkerRecords] /\ wk[w] \in WorkerRecords
  BY DEF IndInv, TypeOK, WorkerTypeOK
<1>2. wk'[w] = [wk[w] EXCEPT !.phase = phase]
  BY <1>1 DEF Go
<1> QED BY <1>1, <1>2 DEF WorkerRecords

(* A delivery bills something only when it consumes the reservation. *)
LEMMA NothingBilledStays ==
  ASSUME IndInv, SpendIsKept, [Next]_vars, NEW t \in Tasks,
         Held(t), Held(t)', NothingBilled(t)
  PROVE  NothingBilled(t)'
<1> SUFFICES ASSUME NEW w \in Workers, Has(w, t)'
             PROVE  wk'[w].phase # "finishing" /\ wk'[w].outcome # "accounted"
  BY DEF NothingBilled
<1>0. /\ wk \in [Workers -> WorkerRecords]
      /\ wk[w] \in WorkerRecords
      /\ quota \in [Tasks -> Quotas]
  BY RowsAndQuotas DEF IndInv, TypeOK, WorkerTypeOK
<1>1. CASE wk'[w] = wk[w]
  BY <1>1 DEF NothingBilled, Has
<1>2. CASE \E m \in broker : Deliver(w, m)
  BY <1>0, <1>2 DEF Deliver
<1>3. CASE /\ DeliveryStep(w) \/ DeliveryFault(w)
           /\ wk'[w].task = wk[w].task
  <2>1. wk[w].task = t
    BY <1>3 DEF Has
  <2>2. wk[w].phase \notin {"idle", "down"}
    BY <1>3 DEF DeliveryStep, DeliveryFault, Claim, StageGuard,
       ResolveContext, InputError, AuthorizeAttempt, ProviderReturns, Finish,
       Settle, Reject, Release, Fail, FailInput, FailBySignal, MarkForRetry,
       Requeue, Ack, ProviderFails, SoftTimeLimit, Interrupted, HardTimeLimit, WorkerLost,
       KillRevoked, StatementFails, ClaimPhases, WorkerPhases
  <2>3. wk[w].outcome # "accounted" /\ wk[w].phase # "finishing"
    BY <2>1, <2>2 DEF NothingBilled, Has
  <2>4. CASE ProviderReturns(w)
    <3>1. CASE ~Recordable(quota[t], wk[w].try)
      <4>1. Go(w, "failing")
        BY <2>1, <2>4, <3>1 DEF ProviderReturns
      <4> QED BY <2>3, <4>1, Goes
    <3>2. CASE Recordable(quota[t], wk[w].try)
      <4>1. quota'[t] = Recorded(quota[t], wk[w].try)
        BY <1>0, <2>1, <2>4, <3>2 DEF ProviderReturns
      <4>2. ~HasAttempt(quota[t], "accounted")
        BY DEF SpendIsKept, Held
      <4>3. quota'[t].status # "reserved"
        BY <4>1, <4>2 DEF Recorded
      <4> QED BY <4>3 DEF Held
    <3> QED BY <3>1, <3>2
  <2>5. CASE AuthorizeAttempt(w)
    <3>1. \/ wk' = [wk EXCEPT ![w].phase = "calling", ![w].outcome = "unknown"]
          \/ Go(w, "failing")
      BY <2>5 DEF AuthorizeAttempt
    <3>2. CASE Go(w, "failing")
      BY <2>3, <3>2, Goes
    <3> QED BY <1>0, <2>3, <3>1, <3>2 DEF WorkerRecords
  <2>6. CASE wk' = wk \/ \E phase : phase # "finishing" /\ Go(w, phase)
    BY <2>3, <2>6, Goes
  <2>7. CASE Ack(w) \/ WorkerLost(w) \/ KillRevoked(w)
    BY <1>0, <2>7 DEF Ack, WorkerLost, KillRevoked, IdleWorker, DownWorker
  <2>8. \/ ProviderReturns(w) \/ AuthorizeAttempt(w)
        \/ Ack(w) \/ WorkerLost(w) \/ KillRevoked(w)
        \/ wk' = wk \/ \E phase : phase # "finishing" /\ Go(w, phase)
    BY <1>3 DEF DeliveryStep, DeliveryFault, Claim, StageGuard, ResolveContext,
       InputError, Finish, Settle, Reject, Release, Fail, FailInput, FailBySignal,
       MarkForRetry, Requeue, ProviderFails, SoftTimeLimit, Interrupted, HardTimeLimit,
       StatementFails
  <2> QED BY <2>4, <2>5, <2>6, <2>7, <2>8
<1>4. wk'[w].phase \notin {"idle", "down"}
  BY DEF Has
<1> QED BY <1>1, <1>2, <1>3, <1>4, WorkerActs

(* No delivery comes to a retry, or to the signal of an unstored failure. *)
LEMMA NoRetries ==
  ASSUME IndInv, [Next]_vars, NobodyDies, NEW w \in Workers,
         wk[w].phase \notin {"retrying", "requeue", "signal", "unrejected"}
  PROVE  wk'[w].phase \notin {"retrying", "requeue", "signal", "unrejected"}
<1>0. /\ wk \in [Workers -> WorkerRecords]
      /\ wk[w] \in WorkerRecords
      /\ wk[w].try \in Attempts
  BY DEF IndInv, TypeOK, WorkerTypeOK, WorkerRecords
<1>1. CASE wk'[w] = wk[w]
  BY <1>1
<1>2. CASE \E m \in broker : Deliver(w, m)
  BY <1>0, <1>2 DEF Deliver
<1>3. CASE DeliveryStep(w) \/ DeliveryFault(w)
  <2>1. ~StatementFails(w) /\ ~SoftTimeLimit(w) /\ ~MarkForRetry(w)
    BY DEF StatementFails, SoftTimeLimit, MarkForRetry, NobodyDies
  <2>2. CASE ProviderFails(w)
    <3>1. ~(wk[w].try < MaxRetries)
      BY <1>0, <2>2 DEF ProviderFails, NobodyDies, Attempts
    <3>2. Go(w, "failing")
      BY <2>2, <3>1 DEF ProviderFails
    <3> QED BY <1>0, <3>2 DEF Go
  <2>3. CASE ProviderReturns(w) \/ AuthorizeAttempt(w)
    <3>1. \/ wk' = [wk EXCEPT ![w].phase = "calling", ![w].outcome = "unknown"]
          \/ wk' = [wk EXCEPT ![w].phase = "finishing", ![w].outcome = "accounted"]
          \/ Go(w, "failing")
      BY <2>3 DEF AuthorizeAttempt, ProviderReturns
    <3>2. CASE Go(w, "failing")
      BY <3>2, Goes
    <3> QED BY <1>0, <3>1, <3>2 DEF WorkerRecords
  <2>4. CASE \/ wk' = wk
             \/ \E phase : phase \notin {"retrying", "requeue", "signal", "unrejected"} /\ Go(w, phase)
    BY <2>4, Goes
  <2>5. CASE Ack(w) \/ WorkerLost(w) \/ KillRevoked(w)
    BY <1>0, <2>5 DEF Ack, WorkerLost, KillRevoked, IdleWorker, DownWorker
  <2> QED BY <1>3, <2>1, <2>2, <2>3, <2>4, <2>5
          DEF DeliveryStep, DeliveryFault, Claim, StageGuard, ResolveContext,
          InputError, Finish, Settle, Reject, Release, Fail, FailInput, FailBySignal,
          Requeue, HardTimeLimit
<1> QED BY <1>1, <1>2, <1>3, WorkerActs

(* A compensation goes on until it is done. *)
LEMMA UndoGoesOn ==
  ASSUME IndInv, [Next]_vars, NEW t \in Tasks, disp[t].phase = "undo"
  PROVE  disp'[t].phase \in {"undo", "refused", "crashed"}
<1>1. CASE disp'[t] = disp[t]
  BY <1>1
<1>2. CASE disp'[t] # disp[t]
  <2>1. DispatcherNext
    BY <1>2 DEF Next, vars, DelivererNext, ReconcilerNext, ControlNext
  <2>2. (\E kind \in Kinds : Trigger(t, kind)) \/ DispatchStep(t) \/ DispatchFault(t)
    BY <1>2, <2>1, RequestSteps
  <2> QED BY <2>2 DEF IndInv, TypeOK, DispTypeOK, DispatchStep, DispatchFault,
          Trigger, RecordPending, RecordConflict, Enqueue, Promote, Accept,
          FoundCancelled, UndoOne, UndoDone, BrokerUnreadable, EnqueueFails,
          GenerationChanged, PromoteFails, UndoFails, DispatchCrash, Goto, NextUndo
<1> QED BY <1>1, <1>2

(* A stop that is to finalize a reservation still is, unless it has done   *)
(* so.                                                                     *)
LEMMA FinalizingStays ==
  ASSUME IndInv, [Next]_vars, NobodyDies, NEW t \in Tasks, Held(t)', StopFinalizes(t)
  PROVE  StopFinalizes(t)'
<1>0. /\ stop \in [phase : StopPhases, ids : SUBSET Tasks, left : SUBSET Tasks]
      /\ quota \in [Tasks -> Quotas]
  BY RowsAndQuotas DEF IndInv, TypeOK, StopTypeOK
<1>1. CASE stop' = stop
  BY <1>1 DEF StopFinalizes
<1>2. CASE NextStopPass
  <2>1. stop.phase = "mark" /\ t \in stop.ids
    BY <1>2 DEF NextStopPass, StopFinalizes
  <2>2. stop' = [stop EXCEPT !.phase = "finalize", !.left = stop.ids]
    BY <1>2, <2>1 DEF NextStopPass, NextPass
  <2>3. stop'.phase = "finalize" /\ stop'.left = stop.ids
    BY <1>0, <2>2
  <2> QED BY <2>1, <2>3 DEF StopFinalizes
<1>3. CASE \E u \in Tasks : MarkRevoked(u)
  BY <1>0, <1>3 DEF MarkRevoked, Handled, StopFinalizes
<1>4. CASE \E u \in Tasks : FinalizeRevoked(u)
  <2>1. PICK u \in Tasks : FinalizeRevoked(u)
    BY <1>4
  <2>2. u # t
    <3>1. quota'[u] = QuotaFinalized(quota[u])
      BY <1>0, <2>1 DEF FinalizeRevoked
    <3> QED BY <1>0, <3>1, Releases DEF Held
  <2> QED BY <1>0, <2>1, <2>2 DEF FinalizeRevoked, Handled, StopFinalizes
<1>5. /\ ~StopRun /\ ~StopAborts /\ ~CollectActive
      /\ \A u \in Tasks : ~BroadcastRevoke(u) /\ ~BroadcastFails(u)
  BY DEF StopRun, StopAborts, CollectActive, BroadcastRevoke, BroadcastFails,
     StopFinalizes, NobodyDies
<1>6. CASE ControlNext
  BY <1>1, <1>2, <1>3, <1>4, <1>5, <1>6 DEF ControlNext, Stop, Resume, Restart,
     Back, Approval, ResumeRun, RestartRun, GoBack, Approve, StopStep
<1> QED BY <1>1, <1>6 DEF Next, vars, DispatcherNext, DelivererNext, ReconcilerNext

(* A delivery that is to release a reservation does so before it ends. *)
LEMMA ReleasingStays ==
  ASSUME IndInv, [Next]_vars, NobodyDies, NEW t \in Tasks, Held(t)',
         NEW w \in Workers, wk[w].task = t, wk[w].phase = "releasing"
  PROVE  wk'[w] = wk[w]
<1> SUFFICES ASSUME wk'[w] # wk[w] PROVE FALSE
  OBVIOUS
<1>0. quota \in [Tasks -> Quotas]
  BY RowsAndQuotas
<1>1. (\E m \in broker : Deliver(w, m)) \/ DeliveryStep(w) \/ DeliveryFault(w)
  BY WorkerActs
<1>2. Release(w) \/ KillRevoked(w)
  BY <1>1 DEF Deliver, DeliveryStep, DeliveryFault, Claim, StageGuard,
     ResolveContext, InputError, AuthorizeAttempt, ProviderReturns, Finish,
     Settle, Reject, Fail, FailInput, FailBySignal, MarkForRetry, Requeue, Ack,
     ProviderFails, SoftTimeLimit, Interrupted, HardTimeLimit, WorkerLost, StatementFails,
     ClaimPhases, NobodyDies
<1>3. quota'[t] \in {QuotaCancelled(quota[t]), QuotaFinalized(quota[t])}
  BY <1>0, <1>2 DEF Release, KillRevoked
<1> QED BY <1>0, <1>3, Releases DEF Held

(* The row of a held reservation that nobody writes keeps its owner. *)
LEMMA OwnedRowWaits ==
  ASSUME IndInv, OwnersInv, [Next]_vars, NobodyDies, NEW t \in Tasks,
         Held(t), Held(t)', task'[t] = task[t]
  PROVE  RowOwned(t)'
<1>1. RowOwned(t)
  BY DEF OwnersInv
<1>2. ASSUME task[t].status = "revoked"
      PROVE  RequestReleases(t)' \/ StopFinalizes(t)'
  <2>1. CASE RequestReleases(t)
    <3>1. RequestAhead(t)' /\ disp'[t].phase # "crashed"
      BY RequestGoesOn DEF OwnersInv
    <3>2. disp'[t].phase \in {"undo", "refused", "crashed"}
      BY <2>1, UndoGoesOn DEF RequestReleases
    <3> QED BY <3>1, <3>2 DEF RequestAhead
  <2>2. CASE StopFinalizes(t)
    BY <2>2, FinalizingStays
  <2> QED BY <1>1, <1>2, <2>1, <2>2 DEF RowOwned
<1>3. ASSUME task[t].status \in {"failed", "rejected"}, task[t].code \notin BlockedCodes
      PROVE  \E w \in Workers : wk'[w].task = t /\ wk'[w].phase = "releasing"
  <2>1. PICK w \in Workers : wk[w].task = t /\ wk[w].phase = "releasing"
    BY <1>1, <1>3 DEF RowOwned
  <2>2. wk'[w] = wk[w]
    BY <2>1, ReleasingStays
  <2> QED BY <2>1, <2>2
<1> QED BY <1>1, <1>2, <1>3 DEF RowOwned

(* What ends a row whose reservation is still held leaves an owner behind. *)
LEMMA OwnedRowWritten ==
  ASSUME IndInv, WaitingInv, OwnersInv, FinalInv, ClaimDiscipline, [Next]_vars, NobodyDies,
         NEW t \in Tasks, Held(t), Held(t)', task'[t] # task[t]
  PROVE  RowOwned(t)'
<1>0. /\ task[t] \in Rows /\ task \in [Tasks -> Rows] /\ quota \in [Tasks -> Quotas]
      /\ wk \in [Workers -> WorkerRecords]
      /\ stop \in [phase : StopPhases, ids : SUBSET Tasks, left : SUBSET Tasks]
  BY RowsAndQuotas DEF IndInv, TypeOK, WorkerTypeOK, StopTypeOK
<1>1. CASE RecordPending(t) \/ Promote(t)
  <2>1. task'[t].status \in {"pending", "queued"}
    <3>1. CASE RecordPending(t)
      BY <1>0, <3>1 DEF RecordPending, PendingRow, NoRow
    <3>2. CASE Promote(t)
      <4>1. task'[t] = PromotedToQueued(task[t])
        BY <1>0, <3>2 DEF Promote
      <4> QED BY <1>0, <4>1 DEF PromotedToQueued, Rows
    <3> QED BY <1>1, <3>1, <3>2
  <2> QED BY <2>1 DEF RowOwned
<1>2. ASSUME task'[t] = MarkedRevoked(task[t]) PROVE task'[t].status = "revoked"
  BY <1>0, <1>2 DEF MarkedRevoked, Rows
<1>3. CASE UndoOne(t) /\ task'[t] = MarkedRevoked(task[t])
  <2>1. disp'[t].phase = "undo"
    BY <1>3 DEF UndoOne, NextUndo, IndInv, TypeOK, DispTypeOK
  <2>2. RequestAhead(t)'
    BY RequestGoesOn DEF OwnersInv
  <2> QED BY <1>2, <1>3, <2>1, <2>2 DEF RowOwned, RequestAhead
<1>4. CASE MarkRevoked(t) /\ task'[t] = MarkedRevoked(task[t])
  <2>1. StopFinalizes(t)'
    <3>1. stop.phase = "mark" /\ t \in stop.left
      BY <1>4 DEF MarkRevoked
    <3>2. stop'.phase = "mark" /\ stop'.ids = stop.ids
      BY <1>0, <1>4 DEF MarkRevoked, Handled
    <3>3. t \in stop'.ids
      BY <3>1, <3>2 DEF WaitingInv
    <3> QED BY <3>2, <3>3 DEF StopFinalizes
  <2> QED BY <1>2, <1>4, <2>1 DEF RowOwned
<1>5. ASSUME NEW w \in Workers, wk[w].task = t, Claim(w),
             task'[t] = Claimed(task[t], w)
      PROVE  RowOwned(t)'
  BY <1>0, <1>5 DEF RowOwned, Claimed, Rows
<1>6. ASSUME NEW w \in Workers, wk[w].task = t, Finish(w) PROVE FALSE
  BY <1>6 DEF Finish, OwnersInv, NothingBilled, Has
<1>7. ASSUME NEW w \in Workers, wk[w].task = t, HoldsClaim(task[t], w),
             Reject(w) \/ FailInput(w)
      PROVE  RowOwned(t)'
  <2>1. task'[t].status \in {"failed", "rejected"}
    <3>1. \/ task'[t] = FinishedIfClaimed(task[t], w, "rejected", "error")
          \/ task'[t] = FinishedIfClaimed(task[t], w, "failed", "error")
      BY <1>0, <1>7 DEF Reject, FailInput
    <3> QED BY <1>0, <1>7, <3>1 DEF FinishedIfClaimed, Rows
  <2>2. Go(w, "releasing")
    BY <1>7 DEF Reject, FailInput
  <2>3. wk'[w].task = t /\ wk'[w].phase = "releasing"
    <3>1. wk'[w] = [wk[w] EXCEPT !.phase = "releasing"]
      BY <1>0, <2>2 DEF Go
    <3>2. wk[w] \in WorkerRecords
      BY <1>0
    <3> QED BY <1>7, <3>1, <3>2 DEF WorkerRecords
  <2> QED BY <2>1, <2>3 DEF RowOwned
<1>8. ASSUME NEW w \in Workers, wk[w].task = t, HoldsClaim(task[t], w), Fail(w)
      PROVE  FALSE
  <2>1. quota'[t] = QuotaAfterFailure(quota[t], wk[w].outcome)
    BY <1>0, <1>8 DEF Fail
  <2>2. wk[w].outcome \in {"not_started", "unknown"}
    BY <1>0, <1>8 DEF Fail, OwnersInv, NothingBilled, Has, WorkerRecords, Outcomes
  <2>3. quota'[t] = QuotaCancelled(quota[t]) \/ quota'[t] = QuotaSettled(quota[t], TRUE)
    BY <2>1, <2>2 DEF QuotaAfterFailure
  <2> QED BY <1>0, <2>3, Releases DEF Held
<1>9. ASSUME NEW w \in Workers PROVE ~FailBySignal(w) /\ ~MarkForRetry(w) /\ ~HardTimeLimit(w)
  BY DEF FailBySignal, MarkForRetry, HardTimeLimit, OwnersInv, NobodyDies
<1>10. CASE task'[t] \in {FailedIfPending(task[t]), FailedIfRunning(task[t])}
  <2>1. task'[t].status = "failed" /\ task'[t].code \in BlockedCodes
    BY <1>0, <1>10 DEF FailedIfPending, FailedIfRunning, Rows, BlockedCodes, CleanupMarkers
  <2> QED BY <2>1 DEF RowOwned
<1>11. ASSUME NEW r \in Reconcilers, CleanupClaimable(task[t]),
              task'[t] = CleanupClaimed(task[t], r)
       PROVE  RowOwned(t)'
  <2>1. task'[t].status = "failed" /\ task'[t].code \in BlockedCodes
    BY <1>0, <1>11 DEF CleanupClaimable, CleanupClaimed, Rows, BlockedCodes
  <2> QED BY <2>1 DEF RowOwned
<1>12. ASSUME NEW r \in Reconcilers, rec[r].task = t, EndCleanup(r), rec[r].ok
       PROVE  FALSE
  BY <1>12 DEF EndCleanup, FinalInv, ReleaseBeforeFinal, Held
<1>13. ASSUME NEW r \in Reconcilers, task'[t] = CleanupReleased(task[t], r)
       PROVE  RowOwned(t)'
  <2>1. HoldsLease(task[t], r)
    BY <1>13 DEF CleanupReleased
  <2>2. task[t].status = "failed"
    BY <2>1 DEF HoldsLease, ClaimDiscipline, BlockedCodes
  <2>3. task'[t].status = "failed" /\ task'[t].code \in BlockedCodes
    BY <1>0, <1>13, <2>2 DEF CleanupReleased, Rows, BlockedCodes
  <2> QED BY <2>3 DEF RowOwned
<1> QED BY <1>1, <1>3, <1>4, <1>5, <1>6, <1>7, <1>8, <1>9, <1>10, <1>11, <1>12, <1>13,
        RowWriters DEF RowWrittenBy

(* The invariant is preserved by every step. *)
LEMMA OwnersStep ==
  ASSUME IndInv, WaitingInv, OwnersInv, FinalInv, ClaimDiscipline, SpendIsKept,
         [Next]_vars, NobodyDies
  PROVE  OwnersInv'
<1>1. ASSUME NEW t \in Tasks PROVE disp'[t].phase # "crashed"
  BY RequestGoesOn DEF OwnersInv
<1>2. ASSUME NEW w \in Workers
      PROVE  wk'[w].phase \notin {"retrying", "requeue", "signal", "unrejected"}
  BY NoRetries DEF OwnersInv
<1>3. ASSUME NEW t \in Tasks, Held(t)'
      PROVE  /\ RequestAhead(t)' /\ RowOwned(t)' /\ NothingBilled(t)'
             /\ Published(t)' => <<t, 0>> \in broker'
  <2>1. CASE disp'[t].phase = "reserved" /\ disp[t].phase = "new"
    BY <2>1, JustReserved
  <2>2. CASE Held(t)
    <3>1. RequestAhead(t) /\ RowOwned(t) /\ NothingBilled(t) /\ disp[t].phase # "crashed"
      BY <2>2 DEF OwnersInv
    <3>2. RequestAhead(t)'
      BY <1>3, <2>2, <3>1, RequestGoesOn
    <3>3. RowOwned(t)'
      BY <1>3, <2>2, OwnedRowWaits, OwnedRowWritten
    <3>4. NothingBilled(t)'
      BY <1>3, <2>2, <3>1, NothingBilledStays
    <3>5. ASSUME Published(t)' PROVE <<t, 0>> \in broker'
      <4>1. CASE Published(t)
        <5>1. Waits(t) /\ <<t, 0>> \in broker
          BY <2>2, <4>1 DEF OwnersInv, Published, Waits
        <5> QED BY <1>3, <5>1, HeldMessageStays
      <4> QED BY <3>5, <4>1, NewlyPublished
    <3> QED BY <3>2, <3>3, <3>4, <3>5
  <2> QED BY <1>3, <2>1, <2>2, HeldAfter
<1> QED BY <1>1, <1>2, <1>3 DEF OwnersInv

(* The invariant holds initially. *)
LEMMA OwnersInit == Init => OwnersInv
BY DEF Init, StoreInit, DispInit, WorkerInit, NotDispatched, NoQuota, IdleWorker,
   OwnersInv, Held

(* Somebody still has to release a reservation that is held, for any       *)
(* number of tasks, workers and passes, however slow they are, whatever is *)
(* delivered twice, revoked and killed, and however often the broker fails *)
(* a dispatch or a pass fails or dies.  Nobody else dies, nothing times    *)
(* out, no statement fails, and a failing provider is not retried.         *)
THEOREM ReservationsAreOwned ==
  ASSUME NobodyDies
  PROVE  Spec => []ReservationHasOwner
<1>1. IndInv /\ WaitingInv /\ OwnersInv => ReservationHasOwner
  <2> SUFFICES ASSUME IndInv, WaitingInv, OwnersInv, NEW t \in Tasks, Held(t)
               PROVE  \/ disp[t].phase \in InProgress
                      \/ OnItsWay(t)
                      \/ task[t].status \in {"pending", "running"}
                      \/ task[t].code \in BlockedCodes
                      \/ Stopping(t)
    BY DEF ReservationHasOwner, Held
  <2>1. RequestAhead(t) /\ RowOwned(t) /\ disp[t].phase # "crashed"
    BY DEF OwnersInv
  <2>2. disp[t].phase \in InProgress \cup {"accepted"}
    <3>1. disp[t].phase \in DispPhases /\ disp[t].phase # "new"
      BY DEF IndInv, TypeOK, DispTypeOK, Fresh, Held
    <3> QED BY <2>1, <3>1 DEF RequestAhead, DispPhases, InProgress
  <2>3. task[t].status \in TaskStatuses
    BY RowsAndQuotas DEF Rows
  <2>4. CASE task[t].status = "none"
    BY <2>2, <2>4 DEF WaitingInv, Unknown, InProgress
  <2>5. CASE task[t].status = "queued"
    <3>1. <<t, 0>> \in broker
      BY <2>5 DEF OwnersInv, Published
    <3>2. <<t, 0>>[1] = t
      OBVIOUS
    <3> QED BY <3>1, <3>2 DEF OnItsWay, Messages
  <2>6. CASE task[t].status = "revoked"
    <3>1. CASE RequestReleases(t)
      BY <3>1 DEF RequestReleases, InProgress
    <3>2. CASE StopFinalizes(t)
      BY <3>2 DEF StopFinalizes, Stopping, WaitingInv
    <3> QED BY <2>1, <2>6, <3>1, <3>2 DEF RowOwned
  <2>7. CASE task[t].status \in {"failed", "rejected"} /\ task[t].code \notin BlockedCodes
    <3>1. PICK w \in Workers : wk[w].task = t /\ wk[w].phase = "releasing"
      BY <2>1, <2>7 DEF RowOwned
    <3> QED BY <3>1 DEF OnItsWay
  <2> QED BY <2>1, <2>3, <2>4, <2>5, <2>6, <2>7 DEF TaskStatuses, RowOwned
<1>2. {"db", "timeout"} \cap Faults = {}
  BY DEF NobodyDies
<1>3. IndInv /\ WaitingInv /\ [Next]_vars => WaitingInv'
  BY <1>2, WaitingStep
<1>4. IndInv /\ WaitingInv /\ OwnersInv /\ FinalInv /\ ClaimDiscipline /\ SpendIsKept
        /\ [Next]_vars => OwnersInv'
  BY OwnersStep
<1> QED BY <1>1, <1>3, <1>4, WaitingInit, OwnersInit, FinalInit, FinalStep,
        ClaimsAreDisciplined, SpendKept, Inductive, PTL DEF Spec
-----------------------------------------------------------------------------
(* Broker recovery. *)
PassRecords ==
  [phase : PassPhases, epoch : 0 .. MaxEpoch, evidence : BOOLEAN,
   seen : SUBSET Epochs, durable : 0 .. MaxEpoch,
   obsolete : SUBSET Epochs, todo : SUBSET Tasks,
   task : Tasks \cup {NoToken}, died : BOOLEAN]

Compensating(p) == pass[p].phase \in {"rollback", "cancel", "final"}

(* A pass compensates for a row that exists. *)
PassesHaveRows ==
  \A p \in Recoverers :
    Compensating(p) => pass[p].task \in Tasks /\ task[pass[p].task].status # "none"

(* The generations of rows, passes and the database are of the past.       *)
Generations ==
  /\ observed <= epoch
  /\ \A t \in Tasks : /\ generation[t] <= epoch
                      /\ disp[t].phase # "new" => generation[t] # 0
  /\ \A p \in Recoverers :
       pass[p].phase # "idle" =>
         /\ pass[p].epoch \in 1 .. epoch
         /\ \A g \in pass[p].seen : g <= pass[p].epoch
         /\ pass[p].phase = "observed" => pass[p].durable # 0

RecoveryInv == IndInv /\ RecoveryTypeOK /\ PassesHaveRows /\ Generations

(* What mark_failed leaves of a row. *)
Lost(row) == [row EXCEPT !.status = "failed", !.code = "message_lost",
                         !.saved = "none"]

(* A pass gives the row up: it fences an active one, and fails one that    *)
(* it has fenced.                                                          *)
GivenUp(old, new) ==
  \/ old.status \in ActiveStatuses /\ new = Fenced(old)
  \/ old.status \notin {"none", "success"} /\ new = Lost(old)

(* What a pass does to the pipeline when it does anything to it. *)
Repair ==
  /\ UNCHANGED <<broker, revoked, disp, wk, rec, stop>>
  /\ \/ \E p \in Recoverers : /\ run' = RunRolledBack(pass[p].task)
                              /\ UNCHANGED <<task, quota>>
     \/ \E t \in Tasks : \E new : /\ GivenUp(task[t], new)
                                  /\ task' = [task EXCEPT ![t] = new]
                                  /\ UNCHANGED <<run, quota>>
     \/ \E t \in Tasks : /\ task[t].status # "none"
                         /\ quota' = [quota EXCEPT ![t] = QuotaCancelled(@)]
                         /\ UNCHANGED <<run, task>>

-----------------------------------------------------------------------------
(* What a step may be. *)

(* The moves of a pass, as far as they are its own. *)
PassMoves(p) ==
  \/ TakeSnapshot(p) \/ Confirm(p) \/ ReadObserved(p) \/ Persist(p)
  \/ ListLost(p) \/ CompleteCleanup(p) \/ CompensationFails(p) \/ PassEnds(p)

PassRepairs(p) ==
  (\E t \in Tasks : FenceLost(p, t)) \/ RollbackLost(p) \/ CancelLost(p)
  \/ FinishLost(p)

(* The repairs of a pass are what Repair says, or find nothing to do.      *)
LEMMA RepairingSteps ==
  ASSUME RecoveryInv, NEW p \in Recoverers, PassRepairs(p)
  PROVE  Repair \/ UNCHANGED vars
<1>0. task \in [Tasks -> Rows] /\ quota \in [Tasks -> Quotas]
  BY RowsAndQuotas DEF RecoveryInv
<1>1. ASSUME NEW t \in Tasks, FenceLost(p, t)
      PROVE  Repair \/ UNCHANGED vars
  <2>1. CASE t \in ActiveTasks
    <3>1. task' = [task EXCEPT ![t] = Fenced(task[t])]
      BY <1>0, <1>1, <2>1 DEF FenceLost
    <3>2. GivenUp(task[t], Fenced(task[t]))
      BY <2>1 DEF ActiveTasks, GivenUp
    <3> QED BY <1>1, <3>1, <3>2 DEF FenceLost, Repair
  <2>2. CASE t \notin ActiveTasks
    <3>1. task' = task
      BY <1>0, <1>1, <2>2 DEF FenceLost
    <3> QED BY <1>1, <3>1 DEF FenceLost, vars
  <2> QED BY <2>1, <2>2
<1>2. CASE FinishLost(p)
  <2> DEFINE t == pass[p].task
  <2>1. t \in Tasks /\ task[t].status # "none"
    BY <1>2 DEF FinishLost, RecoveryInv, PassesHaveRows, Compensating
  <2>2. CASE task[t].status = "success"
    <3>1. task' = task
      BY <1>0, <1>2, <2>1, <2>2 DEF FinishLost
    <3> QED BY <1>2, <3>1 DEF FinishLost, vars
  <2>3. CASE task[t].status # "success"
    <3>1. task' = [task EXCEPT ![t] = Lost(task[t])]
      BY <1>0, <1>2, <2>1, <2>3 DEF FinishLost, Lost
    <3>2. GivenUp(task[t], Lost(task[t]))
      BY <2>1, <2>3 DEF GivenUp
    <3> QED BY <1>2, <2>1, <3>1, <3>2 DEF FinishLost, Repair
  <2> QED BY <2>2, <2>3
<1>3. CASE RollbackLost(p)
  BY <1>3 DEF RollbackLost, Repair
<1>4. CASE CancelLost(p)
  <2>1. pass[p].task \in Tasks /\ task[pass[p].task].status # "none"
    BY <1>4 DEF CancelLost, RecoveryInv, PassesHaveRows, Compensating
  <2> QED BY <1>4, <2>1 DEF CancelLost, Repair
<1> QED BY <1>1, <1>2, <1>3, <1>4 DEF PassRepairs

(* The moves of a pass leave the pipeline alone. *)
LEMMA MovingSteps ==
  ASSUME NEW p \in Recoverers, PassMoves(p)
  PROVE  UNCHANGED vars
BY DEF PassMoves, TakeSnapshot, Confirm, ReadObserved, Persist, ListLost,
   CompleteCleanup, CompensationFails, PassEnds

(* The kinds of step there are. *)
LEMMA RecoveryCases ==
  ASSUME [RecoveryNext]_allVars
  PROVE  \/ UNCHANGED allVars \/ PipelineStep \/ LoseBroker
         \/ (\E t \in Tasks : FindOtherGeneration(t))
         \/ (\E p \in Recoverers : PassMoves(p) \/ PassRepairs(p))
BY DEF RecoveryNext, PassStep, PassMoves, PassRepairs

(* To the pipeline, every step is one of its own or one of three others.   *)
LEMMA RecoverySteps ==
  ASSUME RecoveryInv, [RecoveryNext]_allVars
  PROVE  [Next]_vars \/ LoseBroker \/ (\E t \in Tasks : FindOtherGeneration(t))
         \/ Repair
BY RecoveryCases, MovingSteps, RepairingSteps DEF allVars, PipelineStep

-----------------------------------------------------------------------------
(* RecoveryInv is inductive: the pipeline. *)

(* What a row becomes when it is given up. *)
LEMMA GivenUpRow ==
  ASSUME NEW old \in Rows, NEW new, GivenUp(old, new)
  PROVE  /\ new \in Rows /\ new.kind = old.kind /\ new.status = "failed"
         /\ old.status \notin {"none", "success"}
         /\ new.code \in {"recovery_cleanup", "message_lost"}
         /\ new.code = "recovery_cleanup" => old.status \in ActiveStatuses
<1>1. CASE old.status \in ActiveStatuses /\ new = Fenced(old)
  <2>1. new = [old EXCEPT !.status = "failed", !.token = NoToken,
                          !.code = "recovery_cleanup"]
    BY <1>1 DEF Fenced
  <2>2. /\ new.kind = old.kind /\ new.status = "failed" /\ new.code = "recovery_cleanup"
        /\ new.token = NoToken /\ new.saved = old.saved /\ new.seq = old.seq
        /\ new = [kind |-> new.kind, status |-> new.status, token |-> new.token,
                  code |-> new.code, saved |-> new.saved, seq |-> new.seq]
    BY <2>1 DEF Rows
  <2>3. new \in Rows
    BY <2>2 DEF Rows, TaskStatuses, ErrorCodes, CleanupMarkers
  <2> QED BY <1>1, <2>2, <2>3 DEF ActiveStatuses
<1>2. CASE old.status \notin {"none", "success"} /\ new = Lost(old)
  <2>1. new = [old EXCEPT !.status = "failed", !.code = "message_lost",
                          !.saved = "none"]
    BY <1>2 DEF Lost
  <2>2. /\ new.kind = old.kind /\ new.status = "failed" /\ new.code = "message_lost"
        /\ new.token = old.token /\ new.saved = "none" /\ new.seq = old.seq
        /\ new = [kind |-> new.kind, status |-> new.status, token |-> new.token,
                  code |-> new.code, saved |-> new.saved, seq |-> new.seq]
    BY <2>1 DEF Rows
  <2>3. new \in Rows
    BY <2>2 DEF Rows, TaskStatuses, ErrorCodes, FinalCodes
  <2> QED BY <1>2, <2>2, <2>3
<1> QED BY <1>1, <1>2 DEF GivenUp

(* What a repair does to a single row and a single reservation. *)
LEMMA RepairedRow ==
  ASSUME IndInv, Repair
  PROVE  /\ \A t \in Tasks :
              /\ task'[t] = task[t] \/ GivenUp(task[t], task'[t])
              /\ \/ quota'[t] = quota[t]
                 \/ /\ task[t].status # "none"
                    /\ quota'[t] = QuotaCancelled(quota[t])
         /\ task' \in [Tasks -> Rows] /\ quota' \in [Tasks -> Quotas]
         /\ UNCHANGED <<broker, revoked, disp, wk, rec, stop>>
<1>0. task \in [Tasks -> Rows] /\ quota \in [Tasks -> Quotas]
  BY RowsAndQuotas
<1>1. \A q \in Quotas : QuotaCancelled(q) \in Quotas
  BY DEF QuotaCancelled, Quotas, QuotaStatuses
<1>2. CASE task' = task /\ quota' = quota
  BY <1>0, <1>2 DEF Repair
<1>3. CASE \E u \in Tasks : \E new : /\ GivenUp(task[u], new)
                                     /\ task' = [task EXCEPT ![u] = new]
                                     /\ UNCHANGED <<run, quota>>
  <2>0. PICK u \in Tasks : \E new : /\ GivenUp(task[u], new)
                                     /\ task' = [task EXCEPT ![u] = new]
                                     /\ quota' = quota
    BY <1>3
  <2>1. PICK new : /\ GivenUp(task[u], new)
                   /\ task' = [task EXCEPT ![u] = new] /\ quota' = quota
    BY <2>0
  <2>2. new \in Rows
    BY <1>0, <2>1, GivenUpRow
  <2> QED BY <1>0, <2>1, <2>2 DEF Repair
<1>4. CASE \E u \in Tasks : /\ task[u].status # "none"
                            /\ quota' = [quota EXCEPT ![u] = QuotaCancelled(@)]
                            /\ UNCHANGED <<run, task>>
  <2>1. PICK u \in Tasks : /\ task[u].status # "none" /\ task' = task
                           /\ quota' = [quota EXCEPT ![u] = QuotaCancelled(quota[u])]
    BY <1>4
  <2> QED BY <1>0, <1>1, <2>1 DEF Repair
<1> QED BY <1>2, <1>3, <1>4 DEF Repair

(* The types of the pipeline and its fresh tasks survive recovery. *)
LEMMA PipelineStays ==
  ASSUME RecoveryInv, [RecoveryNext]_allVars
  PROVE  IndInv'
<1>0. IndInv /\ TypeOK /\ Fresh
  BY DEF RecoveryInv, IndInv
<1>1. CASE [Next]_vars
  BY <1>0, <1>1, StepIndInv
<1>2. CASE LoseBroker
  BY <1>0, <1>2 DEF LoseBroker, IndInv, TypeOK, Fresh, StoreTypeOK, DispTypeOK,
     WorkerTypeOK, RecTypeOK, StopTypeOK
<1>3. ASSUME NEW t \in Tasks, FindOtherGeneration(t) PROVE IndInv'
  <2>1. UNCHANGED <<run, task, quota, broker, revoked, wk, rec, stop>>
    BY <1>3 DEF FindOtherGeneration, storeVars
  <2>2. DispTypeOK' /\ disp' = [disp EXCEPT ![t].phase = "undo",
                                             ![t].todo = AfterUncertainty]
    BY <1>0, <1>3, DispUpdates, UndoPlans DEF FindOtherGeneration, TypeOK, Compensate
  <2>3. \A u \in Tasks : disp'[u].phase \in {"new", "reserved"}
                           => disp'[u].phase = disp[u].phase
    BY <1>0, <2>2 DEF TypeOK, DispTypeOK
  <2>4. Fresh'
    BY <1>0, <2>1, <2>3 DEF Fresh
  <2> QED BY <1>0, <2>1, <2>2, <2>4 DEF IndInv, TypeOK, StoreTypeOK,
          WorkerTypeOK, RecTypeOK, StopTypeOK
<1>4. CASE Repair
  <2>1. /\ task' \in [Tasks -> Rows] /\ quota' \in [Tasks -> Quotas]
        /\ UNCHANGED <<broker, revoked, disp, wk, rec, stop>>
        /\ \A t \in Tasks : /\ task'[t] = task[t] \/ GivenUp(task[t], task'[t])
                            /\ \/ quota'[t] = quota[t]
                               \/ /\ task[t].status # "none"
                                  /\ quota'[t] = QuotaCancelled(quota[t])
    BY <1>0, <1>4, RepairedRow
  <2>2. \A t \in Tasks :
          /\ task[t] \in Rows
          /\ GivenUp(task[t], task'[t]) =>
               /\ task'[t].kind = task[t].kind
               /\ task'[t].status = "failed" /\ task[t].status # "none"
    BY <1>0, RowsAndQuotas, GivenUpRow
  <2>3. run' \in RunRows
    <3>1. run \in RunRows
      BY <1>0 DEF TypeOK, StoreTypeOK, RunRows
    <3>2. \A stages : RunFailed(run, stages) \in RunRows
      BY <3>1, RunTypes
    <3>3. \A t : RunRolledBack(t) \in RunRows
      BY <3>1, <3>2 DEF RunRolledBack
    <3> QED BY <1>4, <3>1, <3>3 DEF Repair
  <2>4. \A t \in Tasks : task'[t].status # "none" => task'[t].kind \in Kinds
    BY <1>0, <2>1, <2>2 DEF TypeOK, StoreTypeOK
  <2>5. StoreTypeOK'
    BY <1>0, <2>1, <2>3, <2>4 DEF TypeOK, StoreTypeOK, RunRows, Quotas
  <2>6. DispTypeOK' /\ WorkerTypeOK' /\ RecTypeOK' /\ StopTypeOK'
    BY <1>0, <2>1 DEF TypeOK, DispTypeOK, WorkerTypeOK, RecTypeOK, StopTypeOK
  <2>7. Fresh'
    <3> SUFFICES ASSUME NEW t \in Tasks
                 PROVE  /\ quota'[t].status = "none"
                             => \A k \in Attempts : quota'[t].attempt[k] = "none"
                        /\ disp'[t].phase = "new" => quota'[t].status = "none"
                        /\ disp'[t].phase \in {"new", "reserved"}
                             => task'[t].status = "none"
      BY DEF Fresh
    <3>1. quota[t] \in Quotas
      BY <1>0, RowsAndQuotas
    <3>2. CASE quota'[t] = quota[t]
      BY <1>0, <2>1, <2>2, <3>2 DEF Fresh
    <3>3. CASE /\ task[t].status # "none"
               /\ quota'[t] = QuotaCancelled(quota[t])
      BY <1>0, <2>1, <2>2, <3>1, <3>3 DEF Fresh, QuotaCancelled, Quotas
    <3> QED BY <2>1, <3>2, <3>3
  <2> QED BY <2>5, <2>6, <2>7 DEF IndInv, TypeOK
<1> QED BY <1>1, <1>2, <1>3, <1>4, RecoverySteps

-----------------------------------------------------------------------------
(* RecoveryInv is inductive: the passes and the generations. *)

(* How a pass goes on, in what the invariants say of it. *)
PassGoes(p, new) ==
  \/ new.phase = "idle" /\ new.todo = {}
  \/ /\ TakeSnapshot(p)
     /\ new.phase = "snapshot" /\ new.epoch = epoch /\ new.todo = pass[p].todo
     /\ new.seen = {generation[t] : t \in ActiveTasks} \ {0}
  \/ /\ pass[p].phase # "idle"
     /\ new.epoch = pass[p].epoch /\ new.seen = pass[p].seen
     /\ \/ new.todo \subseteq pass[p].todo
        \/ ListLost(p) /\ new.todo = {t \in ActiveTasks : generation[t] \in obsolete}
     /\ \/ Confirm(p) /\ new.phase = "confirmed"
        \/ ReadObserved(p) /\ new.phase = "observed" /\ new.durable = observed'
        \/ new.phase \in {"list", "next"}
        \/ /\ new.phase = "rollback"
           /\ new.task \in ActiveTasks /\ FenceLost(p, new.task)
        \/ /\ new.task = pass[p].task
           /\ \/ RollbackLost(p) /\ new.phase = "cancel"
              \/ CancelLost(p) /\ new.phase = "final"

(* A record of a pass, and what is left of it when one field is replaced.  *)
LEMMA PassFields ==
  ASSUME NEW r \in PassRecords
  PROVE  /\ r.phase \in PassPhases /\ r.epoch \in 0 .. MaxEpoch
         /\ r.seen \subseteq Epochs /\ r.durable \in 0 .. MaxEpoch
         /\ r.todo \subseteq Tasks /\ r.died \in BOOLEAN
BY DEF PassRecords

(* The field phase of a pass is replaced. *)
LEMMA PassPhase ==
  ASSUME NEW r \in PassRecords, NEW phase \in PassPhases
  PROVE  LET n == [r EXCEPT !.phase = phase]
         IN /\ n \in PassRecords
            /\ n.phase = phase /\ n.epoch = r.epoch
            /\ n.seen = r.seen /\ n.todo = r.todo
            /\ n.durable = r.durable /\ n.task = r.task
BY ZenonT(60) DEF PassRecords

(* The field epoch of a pass is replaced. *)
LEMMA PassEpoch ==
  ASSUME NEW r \in PassRecords, NEW e \in 0 .. MaxEpoch
  PROVE  LET n == [r EXCEPT !.epoch = e]
         IN /\ n \in PassRecords
            /\ n.phase = r.phase /\ n.epoch = e
            /\ n.seen = r.seen /\ n.todo = r.todo
            /\ n.durable = r.durable /\ n.task = r.task
BY ZenonT(60) DEF PassRecords

(* The field evidence of a pass is replaced. *)
LEMMA PassEvidence ==
  ASSUME NEW r \in PassRecords, NEW b \in BOOLEAN
  PROVE  LET n == [r EXCEPT !.evidence = b]
         IN /\ n \in PassRecords
            /\ n.phase = r.phase /\ n.epoch = r.epoch
            /\ n.seen = r.seen /\ n.todo = r.todo
            /\ n.durable = r.durable /\ n.task = r.task
BY ZenonT(60) DEF PassRecords

(* The field seen of a pass is replaced. *)
LEMMA PassSeen ==
  ASSUME NEW r \in PassRecords, NEW seen \in SUBSET Epochs
  PROVE  LET n == [r EXCEPT !.seen = seen]
         IN /\ n \in PassRecords
            /\ n.phase = r.phase /\ n.epoch = r.epoch
            /\ n.seen = seen /\ n.todo = r.todo
            /\ n.durable = r.durable /\ n.task = r.task
BY ZenonT(60) DEF PassRecords

(* The field durable of a pass is replaced. *)
LEMMA PassDurable ==
  ASSUME NEW r \in PassRecords, NEW e \in 0 .. MaxEpoch
  PROVE  LET n == [r EXCEPT !.durable = e]
         IN /\ n \in PassRecords
            /\ n.phase = r.phase /\ n.epoch = r.epoch
            /\ n.seen = r.seen /\ n.todo = r.todo
            /\ n.durable = e /\ n.task = r.task
BY ZenonT(60) DEF PassRecords

(* The field obsolete of a pass is replaced. *)
LEMMA PassObsolete ==
  ASSUME NEW r \in PassRecords, NEW old \in SUBSET Epochs
  PROVE  LET n == [r EXCEPT !.obsolete = old]
         IN /\ n \in PassRecords
            /\ n.phase = r.phase /\ n.epoch = r.epoch
            /\ n.seen = r.seen /\ n.todo = r.todo
            /\ n.durable = r.durable /\ n.task = r.task
BY ZenonT(60) DEF PassRecords

(* The field todo of a pass is replaced. *)
LEMMA PassTodo ==
  ASSUME NEW r \in PassRecords, NEW todo \in SUBSET Tasks
  PROVE  LET n == [r EXCEPT !.todo = todo]
         IN /\ n \in PassRecords
            /\ n.phase = r.phase /\ n.epoch = r.epoch
            /\ n.seen = r.seen /\ n.todo = todo
            /\ n.durable = r.durable /\ n.task = r.task
BY ZenonT(60) DEF PassRecords

(* The field task of a pass is replaced. *)
LEMMA PassTask ==
  ASSUME NEW r \in PassRecords, NEW t \in Tasks \cup {NoToken}
  PROVE  LET n == [r EXCEPT !.task = t]
         IN /\ n \in PassRecords
            /\ n.phase = r.phase /\ n.epoch = r.epoch
            /\ n.seen = r.seen /\ n.todo = r.todo
            /\ n.durable = r.durable /\ n.task = t
BY ZenonT(60) DEF PassRecords

(* The field died of a pass is replaced. *)
LEMMA PassDied ==
  ASSUME NEW r \in PassRecords, NEW d \in BOOLEAN
  PROVE  LET n == [r EXCEPT !.died = d]
         IN n \in PassRecords /\ n.phase = r.phase /\ n.todo = r.todo
BY ZenonT(60) DEF PassRecords

(* What a pass does to the database's record of the broker. *)
PassRecordsOnly(p) ==
  \/ UNCHANGED <<observed, obsolete>>
  \/ /\ ReadObserved(p) /\ observed = 0 /\ observed' = Witness
     /\ UNCHANGED obsolete
  \/ /\ Persist(p) /\ observed = pass[p].durable /\ observed' = pass[p].epoch
     /\ \/ pass[p].epoch = pass[p].durable /\ UNCHANGED obsolete
        \/ obsolete' = obsolete \cup ReplacedGenerations(p)
  \/ /\ CompleteCleanup(p) /\ UNCHANGED observed
     /\ obsolete' \subseteq obsolete
     /\ \A t \in ActiveTasks : generation[t] \in obsolete
                                 => generation[t] \in obsolete'

(* A row that is active has been given a generation by its dispatch, so    *)
(* that there is nothing left to adopt.                                    *)
LEMMA NothingAdopted ==
  ASSUME RecoveryInv, NEW e
  PROVE  Adopted(e) = generation
<1>1. \A t \in ActiveTasks : generation[t] # 0
  BY DEF RecoveryInv, IndInv, Fresh, Generations, ActiveTasks, ActiveStatuses
<1>2. generation = [t \in Tasks |-> generation[t]]
  BY DEF RecoveryInv, RecoveryTypeOK
<1>3. \A t \in Tasks :
        (IF generation[t] = 0 /\ t \in ActiveTasks THEN e ELSE generation[t])
          = generation[t]
  BY <1>1
<1> QED BY <1>2, <1>3 DEF Adopted

(* A pass leaves the broker and the generations of the rows alone.         *)
LEMMA PassKeeps ==
  ASSUME RecoveryInv, NEW p \in Recoverers, PassMoves(p) \/ PassRepairs(p)
  PROVE  /\ epoch' = epoch /\ generation' = generation
         /\ PassRecordsOnly(p)
<1>1. CASE ReadObserved(p)
  <2>1. epoch' = epoch /\ obsolete' = obsolete
    BY <1>1 DEF ReadObserved
  <2>2. \/ observed = 0 /\ observed' = Witness /\ generation' = Adopted(Witness)
        \/ observed' = observed /\ generation' = generation
    BY <1>1 DEF ReadObserved
  <2> QED BY <1>1, <2>1, <2>2, NothingAdopted DEF PassRecordsOnly
<1>2. CASE Persist(p)
  <2>1. epoch' = epoch /\ pass[p].phase = "observed"
    BY <1>2 DEF Persist
  <2>2. pass[p].durable # 0
    BY <2>1 DEF RecoveryInv, Generations
  <2>3. \/ observed = pass[p].durable /\ StoreEpoch(p)
        \/ UNCHANGED <<observed, obsolete, generation>>
    BY <1>2 DEF Persist
  <2> QED BY <1>2, <2>1, <2>2, <2>3 DEF PassRecordsOnly, StoreEpoch
<1>3. CASE CompleteCleanup(p)
  <2>1. /\ epoch' = epoch /\ generation' = generation /\ observed' = observed
        /\ obsolete' = obsolete \ {g \in pass[p].obsolete :
                                     \A t \in ActiveTasks : generation[t] # g}
    BY <1>3 DEF CompleteCleanup
  <2> QED BY <1>3, <2>1 DEF PassRecordsOnly
<1>4. CASE TakeSnapshot(p) \/ Confirm(p) \/ ListLost(p)
  BY <1>4 DEF TakeSnapshot, Confirm, ListLost, PassRecordsOnly
<1>5. CASE CompensationFails(p) \/ PassEnds(p)
  BY <1>5 DEF CompensationFails, PassEnds, PassRecordsOnly
<1>6. ASSUME NEW t \in Tasks, FenceLost(p, t)
      PROVE  UNCHANGED <<epoch, generation, observed, obsolete>>
  BY <1>6 DEF FenceLost
<1>7. CASE RollbackLost(p) \/ CancelLost(p) \/ FinishLost(p)
  BY <1>7 DEF RollbackLost, CancelLost, FinishLost, PassRecordsOnly
<1> QED BY <1>1, <1>2, <1>3, <1>4, <1>5, <1>6, <1>7
        DEF PassMoves, PassRepairs, PassRecordsOnly

(* Every move and every repair of a pass goes on in one of these ways.     *)
LEMMA PassAfter ==
  ASSUME RecoveryInv, NEW p \in Recoverers, PassMoves(p) \/ PassRepairs(p)
  PROVE  \E new \in PassRecords :
           pass' = [pass EXCEPT ![p] = new] /\ PassGoes(p, new)
<1>0. /\ pass \in [Recoverers -> PassRecords] /\ pass[p] \in PassRecords
      /\ epoch \in Epochs /\ obsolete \subseteq Epochs
      /\ generation \in [Tasks -> 0 .. MaxEpoch]
      /\ observed' \in 0 .. MaxEpoch
  <2>1. PassRecordsOnly(p)
    BY PassKeeps
  <2> QED BY <2>1, RecoveryAssumption
          DEF RecoveryInv, RecoveryTypeOK, PassRecords, PassRecordsOnly, Witness
<1> DEFINE r == pass[p]
<1>1. ASSUME Rest(p) \/ pass' = [pass EXCEPT ![p] = [IdlePass EXCEPT !.died = TRUE]]
      PROVE  \E new \in PassRecords :
               /\ pass' = [pass EXCEPT ![p] = new]
               /\ new.phase = "idle" /\ new.todo = {}
  <2>1. PICK d \in BOOLEAN : pass' = [pass EXCEPT ![p] = [IdlePass EXCEPT !.died = d]]
    BY <1>0, <1>1, PassFields DEF Rest
  <2> DEFINE new == [IdlePass EXCEPT !.died = d]
  <2>2. 0 \in 0 .. MaxEpoch
    BY RecoveryAssumption
  <2>3. IdlePass \in PassRecords /\ IdlePass.phase = "idle" /\ IdlePass.todo = {}
    BY <2>2 DEF IdlePass, PassRecords, PassPhases
  <2>4. new \in PassRecords /\ new.phase = "idle" /\ new.todo = {}
    BY <2>3, PassDied
  <2> QED BY <2>1, <2>4
<1>2. ASSUME NEW phase \in PassPhases, To(p, phase)
      PROVE  LET new == [r EXCEPT !.phase = phase]
             IN /\ pass' = [pass EXCEPT ![p] = new] /\ new \in PassRecords
                /\ new.phase = phase /\ new.epoch = r.epoch /\ new.seen = r.seen
                /\ new.todo = r.todo /\ new.task = r.task
  BY <1>0, <1>2, PassPhase DEF To
<1>3. CASE TakeSnapshot(p)
  <2> DEFINE seen == {generation[t] : t \in ActiveTasks} \ {0}
             e == QueuesEmpty /\ WorkersOnline
             n1 == [r EXCEPT !.phase = "snapshot"]
             n2 == [n1 EXCEPT !.epoch = epoch]
             n3 == [n2 EXCEPT !.evidence = e]
             n4 == [n3 EXCEPT !.seen = seen]
  <2>1. pass' = [pass EXCEPT ![p] = n4]
    BY <1>3 DEF TakeSnapshot
  <2>2. seen \subseteq Epochs
    BY <1>0 DEF ActiveTasks, Epochs
  <2>3. e \in BOOLEAN
    BY DEF QueuesEmpty, WorkersOnline
  <2> HIDE DEF seen, e
  <2>4. n1 \in PassRecords /\ n1.phase = "snapshot" /\ n1.todo = r.todo
    BY <1>0, PassPhase DEF PassPhases
  <2> HIDE DEF n1
  <2>5. n2 \in PassRecords /\ n2.phase = "snapshot" /\ n2.todo = r.todo /\ n2.epoch = epoch
    BY <1>0, <2>4, PassEpoch DEF Epochs
  <2> HIDE DEF n2
  <2>6. n3 \in PassRecords /\ n3.phase = "snapshot" /\ n3.todo = r.todo /\ n3.epoch = epoch
    BY <2>3, <2>5, PassEvidence
  <2> HIDE DEF n3
  <2>7. n4 \in PassRecords /\ n4.phase = "snapshot" /\ n4.todo = r.todo
        /\ n4.epoch = epoch /\ n4.seen = seen
    BY <2>2, <2>6, PassSeen
  <2> HIDE DEF n4
  <2> QED BY <1>3, <2>1, <2>7 DEF PassGoes, seen
<1>4. CASE Confirm(p)
  <2>1. (To(p, "confirmed") \/ Rest(p)) /\ r.phase = "snapshot"
    BY <1>4 DEF Confirm
  <2>2. CASE Rest(p)
    BY <1>1, <2>2 DEF PassGoes
  <2>3. CASE To(p, "confirmed")
    <3> DEFINE new == [r EXCEPT !.phase = "confirmed"]
    <3>1. /\ pass' = [pass EXCEPT ![p] = new] /\ new \in PassRecords
          /\ new.phase = "confirmed" /\ new.epoch = r.epoch /\ new.seen = r.seen
          /\ new.todo = r.todo
      BY <1>2, <2>3 DEF PassPhases
    <3> HIDE DEF new
    <3> QED BY <1>4, <2>1, <3>1 DEF PassGoes
  <2> QED BY <2>1, <2>2, <2>3
<1>5. CASE ReadObserved(p)
  <2> DEFINE n1 == [r EXCEPT !.phase = "observed"]
             n2 == [n1 EXCEPT !.durable = observed']
  <2>1. pass' = [pass EXCEPT ![p] = n2] /\ r.phase = "confirmed"
    BY <1>0, <1>5 DEF ReadObserved
  <2>2. /\ n1 \in PassRecords /\ n1.phase = "observed" /\ n1.todo = r.todo
        /\ n1.epoch = r.epoch /\ n1.seen = r.seen
    BY <1>0, PassPhase DEF PassPhases
  <2> HIDE DEF n1
  <2>3. /\ n2 \in PassRecords /\ n2.phase = "observed" /\ n2.todo = r.todo
        /\ n2.epoch = r.epoch /\ n2.seen = r.seen /\ n2.durable = observed'
    BY <1>0, <2>2, PassDurable
  <2> HIDE DEF n2
  <2> QED BY <1>5, <2>1, <2>3 DEF PassGoes
<1>6. CASE Persist(p)
  <2>1. (To(p, "list") \/ Rest(p)) /\ r.phase = "observed"
    BY <1>6 DEF Persist
  <2>2. CASE Rest(p)
    BY <1>1, <2>2 DEF PassGoes
  <2>3. CASE To(p, "list")
    <3> DEFINE new == [r EXCEPT !.phase = "list"]
    <3>1. /\ pass' = [pass EXCEPT ![p] = new] /\ new \in PassRecords
          /\ new.phase = "list" /\ new.epoch = r.epoch /\ new.seen = r.seen
          /\ new.todo = r.todo
      BY <1>2, <2>3 DEF PassPhases
    <3> HIDE DEF new
    <3> QED BY <2>1, <3>1 DEF PassGoes
  <2> QED BY <2>1, <2>2, <2>3
<1>7. CASE ListLost(p)
  <2> DEFINE todo == {t \in ActiveTasks : generation[t] \in obsolete}
             n1 == [r EXCEPT !.phase = "next"]
             n2 == [n1 EXCEPT !.obsolete = obsolete]
             n3 == [n2 EXCEPT !.todo = todo]
  <2>1. pass' = [pass EXCEPT ![p] = n3] /\ r.phase = "list"
    BY <1>0, <1>7 DEF ListLost
  <2>2. todo \subseteq Tasks
    BY DEF ActiveTasks
  <2> HIDE DEF todo
  <2>3. /\ n1 \in PassRecords /\ n1.phase = "next" /\ n1.epoch = r.epoch
        /\ n1.seen = r.seen
    BY <1>0, PassPhase DEF PassPhases
  <2> HIDE DEF n1
  <2>4. /\ n2 \in PassRecords /\ n2.phase = "next" /\ n2.epoch = r.epoch
        /\ n2.seen = r.seen
    BY <1>0, <2>3, PassObsolete
  <2> HIDE DEF n2
  <2>5. /\ n3 \in PassRecords /\ n3.phase = "next" /\ n3.epoch = r.epoch
        /\ n3.seen = r.seen /\ n3.todo = todo
    BY <2>2, <2>4, PassTodo
  <2> HIDE DEF n3
  <2> QED BY <1>7, <2>1, <2>5 DEF PassGoes, todo
<1>8. ASSUME NEW t \in Tasks, FenceLost(p, t)
      PROVE  \E new \in PassRecords :
               pass' = [pass EXCEPT ![p] = new] /\ PassGoes(p, new)
  <2> DEFINE ph == IF t \in ActiveTasks THEN "rollback" ELSE "next"
             u == IF t \in ActiveTasks THEN t ELSE NoToken
             todo == r.todo \ {t}
             n1 == [r EXCEPT !.todo = todo]
             n2 == [n1 EXCEPT !.phase = ph]
             n3 == [n2 EXCEPT !.task = u]
  <2>1. pass' = [pass EXCEPT ![p] = n3] /\ r.phase = "next"
    BY <1>0, <1>8 DEF FenceLost
  <2>2. todo \subseteq Tasks /\ todo \subseteq r.todo
    BY <1>0, PassFields
  <2>3. u \in Tasks \cup {NoToken} /\ ph \in PassPhases
    BY DEF PassPhases
  <2>4. \/ ph = "next"
        \/ ph = "rollback" /\ u \in ActiveTasks /\ u = t
    OBVIOUS
  <2> HIDE DEF todo, u, ph
  <2>5. n1 \in PassRecords /\ n1.epoch = r.epoch /\ n1.seen = r.seen /\ n1.todo = todo
    BY <1>0, <2>2, PassTodo
  <2> HIDE DEF n1
  <2>6. /\ n2 \in PassRecords /\ n2.epoch = r.epoch /\ n2.seen = r.seen
        /\ n2.todo = todo /\ n2.phase = ph
    BY <2>3, <2>5, PassPhase
  <2> HIDE DEF n2
  <2>7. /\ n3 \in PassRecords /\ n3.epoch = r.epoch /\ n3.seen = r.seen
        /\ n3.todo = todo /\ n3.phase = ph /\ n3.task = u
    BY <2>3, <2>6, PassTask
  <2> HIDE DEF n3
  <2> QED BY <1>8, <2>1, <2>2, <2>4, <2>7 DEF PassGoes
<1>9. CASE RollbackLost(p) \/ CancelLost(p)
  <2>1. \/ RollbackLost(p) /\ To(p, "cancel") /\ r.phase = "rollback"
        \/ CancelLost(p) /\ To(p, "final") /\ r.phase = "cancel"
    BY <1>9 DEF RollbackLost, CancelLost
  <2>2. PICK ph \in {"cancel", "final"} :
          /\ To(p, ph) /\ r.phase # "idle"
          /\ \/ RollbackLost(p) /\ ph = "cancel"
             \/ CancelLost(p) /\ ph = "final"
    BY <2>1
  <2> DEFINE new == [r EXCEPT !.phase = ph]
  <2>3. /\ pass' = [pass EXCEPT ![p] = new] /\ new \in PassRecords
        /\ new.phase = ph /\ new.epoch = r.epoch /\ new.seen = r.seen
        /\ new.todo = r.todo /\ new.task = r.task
    BY <1>2, <2>2 DEF PassPhases
  <2> HIDE DEF new
  <2> QED BY <2>2, <2>3 DEF PassGoes
<1>10. CASE FinishLost(p) \/ CompensationFails(p)
  <2> DEFINE n1 == [r EXCEPT !.phase = "next"]
             n2 == [n1 EXCEPT !.task = NoToken]
  <2>1. pass' = [pass EXCEPT ![p] = n2] /\ r.phase # "idle"
    BY <1>0, <1>10 DEF FinishLost, CompensationFails, Compensated
  <2>2. /\ n1 \in PassRecords /\ n1.phase = "next" /\ n1.todo = r.todo
        /\ n1.epoch = r.epoch /\ n1.seen = r.seen
    BY <1>0, PassPhase DEF PassPhases
  <2> HIDE DEF n1
  <2>3. /\ n2 \in PassRecords /\ n2.phase = "next" /\ n2.todo = r.todo
        /\ n2.epoch = r.epoch /\ n2.seen = r.seen
    BY <2>2, PassTask
  <2> HIDE DEF n2
  <2> QED BY <2>1, <2>3 DEF PassGoes
<1>11. CASE CompleteCleanup(p) \/ PassEnds(p)
  <2>1. Rest(p) \/ pass' = [pass EXCEPT ![p] = [IdlePass EXCEPT !.died = TRUE]]
    BY <1>11 DEF CompleteCleanup, PassEnds
  <2> QED BY <1>1, <2>1 DEF PassGoes
<1> QED BY <1>3, <1>4, <1>5, <1>6, <1>7, <1>8, <1>9, <1>10, <1>11
        DEF PassMoves, PassRepairs

(* A request begins by reserving. *)
LEMMA BeginsReserved ==
  ASSUME IndInv, [Next]_vars, NEW t \in Tasks,
         disp[t].phase = "new", disp'[t].phase # "new"
  PROVE  disp'[t].phase = "reserved"
<1>1. CASE disp' = disp
  BY <1>1
<1>2. CASE DispatcherNext
  <2>1. PICK u \in Tasks :
          /\ (\E kind \in Kinds : Trigger(u, kind)) \/ DispatchStep(u) \/ DispatchFault(u)
          /\ \A v \in Tasks \ {u} : disp'[v] = disp[v]
    BY <1>2, RequestSteps
  <2>2. t = u
    BY <2>1
  <2>3. disp \in [Tasks -> [phase : DispPhases, kind : {"none"} \cup Kinds,
                            from : {"none"} \cup RunStages,
                            todo : Seq(UndoSteps)]]
    BY DEF IndInv, TypeOK, DispTypeOK
  <2>4. ~DispatchStep(t) /\ ~DispatchFault(t)
    BY DEF DispatchStep, DispatchFault, RecordPending,
       RecordConflict, Enqueue, Promote, Accept, FoundCancelled, UndoOne,
       UndoDone, BrokerUnreadable, EnqueueFails, GenerationChanged,
       PromoteFails, UndoFails, DispatchCrash, InProgress
  <2> QED BY <2>1, <2>2, <2>3, <2>4 DEF Trigger
<1> QED BY <1>1, <1>2 DEF Next, vars, DelivererNext, ReconcilerNext, ControlNext

(* Requests that have begun and rows that exist do not go away again.      *)
LEMMA BegunOn ==
  ASSUME RecoveryInv, [RecoveryNext]_allVars, NEW t \in Tasks
  PROVE  /\ disp[t].phase # "new" => disp'[t].phase # "new"
         /\ task[t].status # "none" => task'[t].status # "none"
<1>0. IndInv /\ task[t] \in Rows
  BY RowsAndQuotas DEF RecoveryInv
<1>1. CASE [Next]_vars
  <2>1. RowChange(task[t], task'[t]) \/ Inserted(task[t], task'[t])
    BY <1>0, <1>1, StepChanges DEF IndInv, RowsChange
  <2> QED BY <1>0, <1>1, <2>1, BegunStays, RowRemains
<1>2. CASE LoseBroker
  BY <1>2 DEF LoseBroker
<1>3. ASSUME NEW u \in Tasks, FindOtherGeneration(u)
      PROVE  disp'[t].phase # "new" \/ disp'[t].phase = disp[t].phase
  BY <1>0, <1>3 DEF FindOtherGeneration, Compensate, IndInv, TypeOK, DispTypeOK
<1>4. ASSUME NEW u \in Tasks, FindOtherGeneration(u)
      PROVE  task' = task
  BY <1>4 DEF FindOtherGeneration, storeVars
<1>5. CASE Repair
  <2>1. disp' = disp /\ (task'[t] = task[t] \/ GivenUp(task[t], task'[t]))
    BY <1>0, <1>5, RepairedRow
  <2> QED BY <1>0, <2>1, GivenUpRow
<1> QED BY <1>1, <1>2, <1>3, <1>4, <1>5, RecoverySteps

(* What the records of recovery become without a pass. *)
LEMMA OutsidePasses ==
  ASSUME RecoveryInv,
         \/ UNCHANGED allVars \/ PipelineStep \/ LoseBroker
         \/ (\E t \in Tasks : FindOtherGeneration(t))
  PROVE  /\ UNCHANGED <<pass, observed, obsolete>>
         /\ epoch' \in Epochs /\ epoch <= epoch'
         /\ generation' \in [Tasks -> 0 .. MaxEpoch]
         /\ \A t \in Tasks :
              \/ generation'[t] = generation[t]
              \/ /\ generation'[t] = epoch /\ epoch' = epoch
                 /\ disp[t].phase = "new" /\ disp'[t].phase # "new"
<1>0. epoch \in Epochs /\ generation \in [Tasks -> 0 .. MaxEpoch]
  BY DEF RecoveryInv, RecoveryTypeOK
<1>1. CASE UNCHANGED allVars \/ \E t \in Tasks : FindOtherGeneration(t)
  BY <1>0, <1>1, RecoveryAssumption DEF allVars, recoveryVars, FindOtherGeneration, Epochs
<1>2. CASE LoseBroker
  BY <1>0, <1>2, RecoveryAssumption DEF LoseBroker, Epochs
<1>3. CASE PipelineStep
  BY <1>0, <1>3, RecoveryAssumption DEF PipelineStep, Epochs
<1> QED BY <1>1, <1>2, <1>3

(* The generations stay of the past. *)
LEMMA GenerationsStay ==
  ASSUME RecoveryInv, [RecoveryNext]_allVars
  PROVE  RecoveryTypeOK' /\ PassesHaveRows' /\ Generations'
<1>0. /\ pass \in [Recoverers -> PassRecords] /\ epoch \in Epochs
      /\ obsolete \subseteq Epochs /\ generation \in [Tasks -> 0 .. MaxEpoch]
      /\ observed \in 0 .. MaxEpoch /\ observed <= epoch
      /\ MaxEpoch \in Nat \ {0} /\ IndInv
  BY RecoveryAssumption DEF RecoveryInv, RecoveryTypeOK, PassRecords, Generations
<1>1. CASE \/ UNCHANGED allVars \/ PipelineStep \/ LoseBroker
           \/ (\E t \in Tasks : FindOtherGeneration(t))
  <2>1. /\ UNCHANGED <<pass, observed, obsolete>>
        /\ epoch' \in Epochs /\ epoch <= epoch'
        /\ generation' \in [Tasks -> 0 .. MaxEpoch]
        /\ \A t \in Tasks :
             \/ generation'[t] = generation[t]
             \/ /\ generation'[t] = epoch /\ epoch' = epoch
                /\ disp[t].phase = "new" /\ disp'[t].phase # "new"
    BY <1>1, OutsidePasses
  <2>2. RecoveryTypeOK'
    BY <2>1 DEF RecoveryInv, RecoveryTypeOK
  <2>3. PassesHaveRows'
    BY <2>1, BegunOn DEF RecoveryInv, PassesHaveRows, Compensating
  <2>4. ASSUME NEW t \in Tasks
        PROVE  generation'[t] <= epoch' /\ (disp'[t].phase # "new" => generation'[t] # 0)
    <3>1. generation[t] \in 0 .. MaxEpoch /\ generation[t] <= epoch
          /\ (disp[t].phase # "new" => generation[t] # 0)
      BY <1>0 DEF RecoveryInv, Generations
    <3>2. CASE generation'[t] = epoch
      BY <1>0, <2>1, <3>2 DEF Epochs
    <3>3. CASE /\ generation'[t] = generation[t] /\ generation'[t] # epoch
               /\ disp[t].phase = "new" /\ disp'[t].phase # "new"
      <4>1. ~PipelineStep
        <5>1. SUFFICES ASSUME PipelineStep PROVE FALSE
          OBVIOUS
        <5>2. disp'[t].phase = "reserved"
          BY <1>0, <3>3, <5>1, BeginsReserved DEF PipelineStep
        <5> QED BY <3>3, <5>1, <5>2 DEF PipelineStep
      <4>2. \/ disp' = disp
            \/ \E u \in Tasks : FindOtherGeneration(u)
        BY <1>1, <4>1 DEF allVars, vars, LoseBroker
      <4>3. PICK u \in Tasks : FindOtherGeneration(u)
        BY <3>3, <4>2
      <4> QED BY <1>0, <3>3, <4>3
              DEF FindOtherGeneration, Compensate, IndInv, TypeOK, DispTypeOK
    <3>4. generation'[t] <= epoch'
      BY <1>0, <2>1, <3>1 DEF Epochs
    <3> QED BY <2>1, <3>1, <3>2, <3>3, <3>4
  <2>5. \A p \in Recoverers : pass[p].epoch \in 1 .. epoch => pass[p].epoch \in 1 .. epoch'
    BY <1>0, <2>1 DEF Epochs
  <2>6. observed' <= epoch'
    BY <1>0, <2>1 DEF Epochs
  <2>7. Generations'
    BY <2>1, <2>4, <2>5, <2>6 DEF RecoveryInv, Generations
  <2> QED BY <2>2, <2>3, <2>7
<1>2. ASSUME NEW p \in Recoverers, PassMoves(p) \/ PassRepairs(p)
      PROVE  RecoveryTypeOK' /\ PassesHaveRows' /\ Generations'
  <2>1. epoch' = epoch /\ generation' = generation /\ PassRecordsOnly(p)
    BY <1>2, PassKeeps
  <2>2. PICK new \in PassRecords :
          pass' = [pass EXCEPT ![p] = new] /\ PassGoes(p, new)
    BY <1>2, PassAfter
  <2>3. /\ pass' \in [Recoverers -> PassRecords] /\ pass'[p] = new
        /\ \A q \in Recoverers \ {p} : pass'[q] = pass[q]
    BY <1>0, <2>2
  <2>4. /\ pass[p] \in PassRecords /\ pass[p].durable \in 0 .. MaxEpoch
        /\ pass[p].seen \subseteq Epochs /\ pass[p].epoch \in 0 .. MaxEpoch
    BY <1>0, PassFields
  <2>5. pass[p].phase # "idle" => pass[p].epoch \in 1 .. epoch
    BY DEF RecoveryInv, Generations
  <2>6. observed' \in 0 .. epoch
    BY <1>0, <2>1, <2>5 DEF PassRecordsOnly, Epochs, Witness, Persist
  <2>7. obsolete' \subseteq Epochs
    <3>1. CASE obsolete' = obsolete \cup ReplacedGenerations(p) /\ Persist(p)
      <4>1. pass[p].durable # 0
        BY <3>1 DEF Persist, RecoveryInv, Generations
      <4>2. pass[p].durable \in 1 .. MaxEpoch
        BY <1>0, <2>4, <4>1
      <4>3. ReplacedGenerations(p) \subseteq 1 .. MaxEpoch
        BY <2>4, <4>2 DEF ReplacedGenerations, Epochs
      <4> QED BY <1>0, <3>1, <4>3 DEF Epochs
    <3> QED BY <1>0, <2>1, <3>1 DEF PassRecordsOnly
  <2>8. RecoveryTypeOK'
    BY <1>0, <2>1, <2>3, <2>6, <2>7 DEF RecoveryTypeOK, PassRecords, Epochs
  <2>9. UNCHANGED disp
    BY <1>2, MovingSteps, RepairingSteps DEF Repair, vars
  <2>10. PassesHaveRows'
    <3> SUFFICES ASSUME NEW q \in Recoverers, Compensating(q)'
                 PROVE  pass'[q].task \in Tasks /\ task'[pass'[q].task].status # "none"
      BY DEF PassesHaveRows
    <3>1. pass'[q].task \in Tasks /\ task[pass'[q].task].status # "none"
      <4>1. CASE q # p
        BY <2>3, <4>1 DEF RecoveryInv, PassesHaveRows, Compensating
      <4>2. CASE q = p /\ new.phase = "rollback"
        BY <2>2, <2>3, <4>2 DEF PassGoes, ActiveTasks, ActiveStatuses
      <4>3. CASE q = p /\ new.phase # "rollback"
        <5>1. new.task = pass[p].task /\ Compensating(p)
          BY <2>2, <2>3, <4>3 DEF PassGoes, Compensating, RollbackLost, CancelLost
        <5> QED BY <2>3, <4>3, <5>1 DEF RecoveryInv, PassesHaveRows
      <4> QED BY <4>1, <4>2, <4>3
    <3> QED BY <3>1, BegunOn
  <2>11. Generations'
    <3>1. ASSUME NEW q \in Recoverers, pass'[q].phase # "idle"
          PROVE  /\ pass'[q].epoch \in 1 .. epoch
                 /\ \A g \in pass'[q].seen : g <= pass'[q].epoch
                 /\ pass'[q].phase = "observed" => pass'[q].durable # 0
      <4>1. CASE q # p
        BY <2>3, <3>1, <4>1 DEF RecoveryInv, Generations
      <4>2. CASE q = p /\ TakeSnapshot(p) /\ new.phase = "snapshot"
        <5>1. new.epoch = epoch /\ new.seen = {generation[t] : t \in ActiveTasks} \ {0}
          BY <2>2, <4>2 DEF PassGoes, TakeSnapshot
        <5>2. \A g \in new.seen : g <= epoch
          BY <5>1 DEF ActiveTasks, RecoveryInv, Generations
        <5> QED BY <1>0, <2>3, <4>2, <5>1, <5>2 DEF Epochs
      <4>3. CASE /\ q = p /\ pass[p].phase # "idle"
                 /\ new.epoch = pass[p].epoch /\ new.seen = pass[p].seen
        <5>1. /\ pass[p].epoch \in 1 .. epoch
              /\ \A g \in pass[p].seen : g <= pass[p].epoch
          BY <4>3 DEF RecoveryInv, Generations
        <5>2. new.phase = "observed" => new.durable # 0
          <6>1. new.phase = "observed" => ReadObserved(p) /\ new.durable = observed'
            BY <2>2, <4>3 DEF PassGoes, TakeSnapshot
          <6>2. ReadObserved(p) => observed' # 0
            BY DEF ReadObserved, Witness
          <6> QED BY <6>1, <6>2
        <5> QED BY <2>3, <4>3, <5>1, <5>2
      <4> QED BY <2>2, <2>3, <3>1, <4>1, <4>2, <4>3 DEF PassGoes
    <3> QED BY <1>0, <2>1, <2>6, <2>9, <3>1 DEF RecoveryInv, Generations, Epochs
  <2> QED BY <2>8, <2>10, <2>11
<1> QED BY <1>1, <1>2, RecoveryCases

(* RecoveryInv holds initially. *)
LEMMA RecoveryStart == RecoveryInitAll => RecoveryInv
<1> SUFFICES ASSUME RecoveryInitAll PROVE RecoveryInv
  OBVIOUS
<1>1. IndInv
  BY InitIndInv DEF RecoveryInitAll
<1>2. pass = [p \in Recoverers |-> IdlePass] /\ epoch = 1 /\ observed \in {0, 1}
      /\ obsolete = {} /\ generation = [t \in Tasks |-> 0]
      /\ \A t \in Tasks : disp[t].phase = "new"
  BY RecoveryAssumption
     DEF RecoveryInitAll, RecoveryInit, Witness, Init, DispInit, NotDispatched
<1>3. IdlePass \in PassRecords /\ IdlePass.phase = "idle"
  <2>1. 0 \in 0 .. MaxEpoch
    BY RecoveryAssumption
  <2> QED BY <2>1 DEF IdlePass, PassRecords, PassPhases
<1>4. RecoveryTypeOK
  BY <1>2, <1>3, RecoveryAssumption DEF RecoveryTypeOK, Epochs, PassRecords
<1>5. PassesHaveRows /\ Generations
  BY <1>2, <1>3 DEF PassesHaveRows, Compensating, Generations
<1> QED BY <1>1, <1>4, <1>5 DEF RecoveryInv

(* RecoveryInv is inductive. *)
LEMMA RecoveryInductive == RecoverySpec => []RecoveryInv
<1>1. RecoveryInv /\ [RecoveryNext]_allVars => RecoveryInv'
  BY PipelineStays, GenerationsStay DEF RecoveryInv
<1> QED BY RecoveryStart, <1>1, PTL DEF RecoverySpec

-----------------------------------------------------------------------------
(* A final code still means a released reservation. *)

(* What a pass is about to write its final code to is released. *)
PassesRelease ==
  \A p \in Recoverers :
    pass[p].phase = "final" => quota[pass[p].task].status # "reserved"

(* Once released, a reservation stays so with the help of recovery too.    *)
LEMMA ReleasedOn ==
  ASSUME RecoveryInv, [RecoveryNext]_allVars, NEW t \in Tasks,
         disp[t].phase # "new", quota[t].status # "reserved"
  PROVE  quota'[t].status # "reserved"
<1>0. IndInv /\ quota[t] \in Quotas
  BY RowsAndQuotas DEF RecoveryInv
<1>1. CASE [Next]_vars
  BY <1>0, <1>1, ReleasedStays
<1>2. CASE LoseBroker \/ \E u \in Tasks : FindOtherGeneration(u)
  BY <1>2 DEF LoseBroker, FindOtherGeneration, storeVars
<1>3. CASE Repair
  <2>1. quota'[t] = quota[t] \/ quota'[t] = QuotaCancelled(quota[t])
    BY <1>0, <1>3, RepairedRow
  <2> QED BY <1>0, <2>1 DEF QuotaCancelled, Quotas
<1> QED BY <1>1, <1>2, <1>3, RecoverySteps

(* PassesRelease is preserved: the phase before the last one releases.     *)
LEMMA PassesReleaseOn ==
  ASSUME RecoveryInv, PassesRelease, [RecoveryNext]_allVars
  PROVE  PassesRelease'
<1> SUFFICES ASSUME NEW q \in Recoverers, pass'[q].phase = "final"
             PROVE  quota'[pass'[q].task].status # "reserved"
  BY DEF PassesRelease
<1>1. CASE pass'[q] = pass[q]
  <2>1. pass[q].task \in Tasks /\ task[pass[q].task].status # "none"
    BY <1>1 DEF RecoveryInv, PassesHaveRows, Compensating
  <2>2. disp[pass[q].task].phase # "new"
    BY <2>1 DEF RecoveryInv, IndInv, Fresh
  <2> QED BY <1>1, <2>1, <2>2, ReleasedOn DEF PassesRelease
<1>2. CASE pass'[q] # pass[q]
  <2>1. PICK p \in Recoverers : PassMoves(p) \/ PassRepairs(p)
    BY <1>2, RecoveryCases, OutsidePasses DEF allVars, recoveryVars
  <2>2. PICK new \in PassRecords :
          pass' = [pass EXCEPT ![p] = new] /\ PassGoes(p, new)
    BY <2>1, PassAfter
  <2>3. p = q /\ pass'[p] = new
    BY <1>2, <2>2 DEF RecoveryInv, RecoveryTypeOK
  <2>4. CancelLost(p) /\ new.task = pass[p].task
    BY <2>2, <2>3 DEF PassGoes
  <2>5. /\ pass[p].task \in Tasks /\ quota \in [Tasks -> Quotas]
        /\ quota' = [quota EXCEPT ![pass[p].task] = QuotaCancelled(quota[pass[p].task])]
    BY <2>4, RowsAndQuotas
       DEF CancelLost, RecoveryInv, PassesHaveRows, Compensating
  <2> QED BY <2>3, <2>4, <2>5 DEF QuotaCancelled, Quotas
<1> QED BY <1>1, <1>2

(* Recovery writes a final code only at the end of its compensations.      *)
LEMMA FinalCodeOfPass ==
  ASSUME RecoveryInv, [RecoveryNext]_allVars, ~[Next]_vars, NEW t \in Tasks,
         task'[t].code \in FinalCodes, task'[t].code # task[t].code
  PROVE  \E p \in Recoverers : FinishLost(p) /\ pass[p].task = t
<1>0. task \in [Tasks -> Rows]
  BY RowsAndQuotas DEF RecoveryInv
<1>1. task' # task
  OBVIOUS
<1>2. PICK p \in Recoverers : PassMoves(p) \/ PassRepairs(p)
  BY <1>1, RecoveryCases
     DEF allVars, vars, PipelineStep, LoseBroker, FindOtherGeneration, storeVars
<1>3. PassRepairs(p)
  BY <1>1, <1>2, MovingSteps DEF vars
<1>4. ASSUME NEW u \in Tasks, FenceLost(p, u) PROVE FALSE
  <2>1. task' = [task EXCEPT ![u] = IF u \in ActiveTasks THEN Fenced(task[u]) ELSE task[u]]
    BY <1>4 DEF FenceLost
  <2>2. task'[t].code = task[t].code \/ task'[t] = Fenced(task[t])
    BY <1>0, <2>1
  <2>3. Fenced(task[t]).code = "recovery_cleanup"
    BY <1>0 DEF Fenced, Rows
  <2> QED BY <2>2, <2>3 DEF FinalCodes
<1>5. FinishLost(p)
  BY <1>1, <1>3, <1>4 DEF PassRepairs, RollbackLost, CancelLost
<1>6. pass[p].task = t
  BY <1>0, <1>5 DEF FinishLost
<1> QED BY <1>5, <1>6

(* FinalInv is preserved by the steps of recovery too. *)
LEMMA FinalOn ==
  ASSUME RecoveryInv, PassesRelease, FinalInv, [RecoveryNext]_allVars
  PROVE  FinalInv'
<1>0. IndInv /\ task \in [Tasks -> Rows]
  BY RowsAndQuotas DEF RecoveryInv
<1>1. CASE [Next]_vars
  BY <1>0, <1>1, FinalStep
<1>2. CASE LoseBroker
  BY <1>2 DEF LoseBroker, FinalInv, ReleaseBeforeFinal, FinalRowReleased
<1>3. CASE /\ (\E t \in Tasks : FindOtherGeneration(t)) \/ Repair
           /\ ~[Next]_vars
  <2>1. rec' = rec /\ \A t \in Tasks : disp[t].phase # "new" => disp'[t].phase # "new"
    BY <1>0, <1>3, BegunOn, RepairedRow DEF FindOtherGeneration
  <2>2. \A t \in Tasks :
          disp[t].phase # "new" /\ quota[t].status # "reserved"
            => quota'[t].status # "reserved"
    BY ReleasedOn
  <2>3. \A t \in Tasks : task'[t] = task[t] \/ GivenUp(task[t], task'[t])
    BY <1>0, <1>3, RepairedRow DEF FindOtherGeneration, storeVars
  <2>4. \A r \in Reconcilers : rec[r].phase # "idle" => rec[r].task \in Tasks
    BY <1>0 DEF IndInv, TypeOK, RecTypeOK
  <2>5. ReleaseBeforeFinal'
    <3>1. \A t \in Tasks : task'[t].status = "none" => task'[t].code = "none"
      BY <1>0, <2>3, GivenUpRow DEF FinalInv, ReleaseBeforeFinal
    <3> QED BY <2>1, <2>2, <2>4, <3>1 DEF FinalInv, ReleaseBeforeFinal
  <2>6. ASSUME NEW t \in Tasks, task'[t].code \in FinalCodes
        PROVE  quota'[t].status # "reserved"
    <3>1. CASE task'[t].code = task[t].code
      <4>1. task[t].status # "none" /\ quota[t].status # "reserved"
        BY <2>6, <3>1 DEF FinalInv, ReleaseBeforeFinal, FinalRowReleased, FinalCodes
      <4> QED BY <1>0, <2>2, <4>1 DEF IndInv, Fresh
    <3>2. CASE task'[t].code # task[t].code
      <4>1. ~[Next]_vars
        BY <1>3
      <4>2. PICK p \in Recoverers : /\ FinishLost(p) /\ pass[p].task = t
        BY <2>6, <3>2, <4>1, FinalCodeOfPass
      <4>3. quota' = quota /\ pass[p].phase = "final"
        BY <4>2 DEF FinishLost
      <4> QED BY <4>2, <4>3 DEF PassesRelease
    <3> QED BY <3>1, <3>2
  <2> QED BY <2>5, <2>6 DEF FinalInv, FinalRowReleased
<1> QED BY <1>1, <1>2, <1>3, RecoverySteps

(* A row with a final code never holds its reservation: the message that   *)
(* is declared lost has its quota released before, whatever fails, dies or *)
(* overlaps, in the passes of recovery and of the reconciler.              *)
THEOREM LostRowsReleased == RecoverySpec => []FinalRowReleased
<1>1. RecoveryInitAll => PassesRelease /\ FinalInv
  BY FinalInit DEF RecoveryInitAll, RecoveryInit, PassesRelease, IdlePass
<1>2. RecoveryInv /\ PassesRelease /\ FinalInv /\ [RecoveryNext]_allVars
        => (PassesRelease /\ FinalInv)'
  BY PassesReleaseOn, FinalOn
<1>3. FinalInv => FinalRowReleased
  BY DEF FinalInv
<1> QED BY <1>1, <1>2, <1>3, RecoveryInductive, PTL DEF RecoverySpec

-----------------------------------------------------------------------------
(* What the new broker has is not recovered. *)

(* ClaimDiscipline holds with recovery too.                                *)
LEMMA DisciplineOn ==
  ASSUME RecoveryInv, ClaimDiscipline, [RecoveryNext]_allVars
  PROVE  ClaimDiscipline'
<1>0. IndInv
  BY DEF RecoveryInv
<1>1. CASE [Next]_vars
  BY <1>0, <1>1, DisciplineStep
<1>2. CASE LoseBroker \/ \E t \in Tasks : FindOtherGeneration(t)
  BY <1>2 DEF LoseBroker, FindOtherGeneration, storeVars, ClaimDiscipline
<1>3. CASE Repair
  <2> SUFFICES ASSUME NEW t \in Tasks PROVE Disciplined(task'[t])
    BY DEF ClaimDiscipline, Disciplined
  <2>1. task[t] \in Rows /\ Disciplined(task[t])
    BY <1>0, RowsAndQuotas DEF ClaimDiscipline, Disciplined
  <2>2. task'[t] = task[t] \/ GivenUp(task[t], task'[t])
    BY <1>0, <1>3, RepairedRow
  <2>3. CASE GivenUp(task[t], task'[t])
    BY <2>1, <2>3, GivenUpRow DEF Disciplined, BlockedCodes, CleanupMarkers
  <2> QED BY <2>1, <2>2, <2>3
<1> QED BY <1>1, <1>2, <1>3, RecoverySteps

(* Only recovery marks an active row for recovery. *)
LEMMA MarkedByRecovery ==
  ASSUME NEW old \in Rows, NEW new, Disciplined(old),
         RowChange(old, new) \/ Inserted(old, new),
         old.status \in ActiveStatuses
  PROVE  new.code # "recovery_cleanup"
<1> USE DEF Disciplined, Rows, BlockedCodes, CleanupMarkers, FinalCodes, ActiveStatuses
<1>0. old.code \notin BlockedCodes
  OBVIOUS
<1>1. CASE Inserted(old, new)
  BY <1>1 DEF Inserted, NoRow
<1>2. CASE new = old \/ new = PromotedToQueued(old) \/ new = MarkedRevoked(old)
           \/ new = FailedIfPending(old) \/ new = FailedIfRunning(old)
  BY <1>0, <1>2 DEF PromotedToQueued, MarkedRevoked, FailedIfPending, FailedIfRunning
<1>3. CASE \E w \in Workers : Claimable(old, old.token) /\ new = Claimed(old, w)
  BY <1>3 DEF Claimable, Claimed
<1>4. CASE \E w \in Workers, status \in {"success", "failed", "rejected"},
             code \in {"none", "error"} :
             new = FinishedIfClaimed(old, w, status, code)
  BY <1>0, <1>4 DEF FinishedIfClaimed, HoldsClaim
<1>5. CASE \E r \in Reconcilers :
             CleanupClaimable(old) /\ new = CleanupClaimed(old, r)
  BY <1>5 DEF CleanupClaimable, CleanupClaimed
<1>6. CASE \E r \in Reconcilers, code \in {"none"} \cup FinalCodes :
             new = CleanupFinished(old, r, code)
  BY <1>0, <1>6 DEF CleanupFinished, HoldsLease
<1>7. CASE \E r \in Reconcilers : new = CleanupReleased(old, r)
  BY <1>0, <1>7 DEF CleanupReleased, HoldsLease
<1> QED BY <1>1, <1>2, <1>3, <1>4, <1>5, <1>6, <1>7 DEF RowChange

(* While passes do not overlap, the database lags behind the pass that is  *)
(* running, and obsolete generations and the rows listed by them are of    *)
(* brokers that are gone.                                                  *)
LastPass ==
  /\ \A g \in obsolete : g < epoch
  /\ \A p \in Recoverers :
       /\ pass[p].phase # "idle" => observed <= pass[p].epoch
       /\ pass[p].phase = "observed" => pass[p].durable <= pass[p].epoch
       /\ \A t \in pass[p].todo : generation[t] < epoch /\ disp[t].phase # "new"

(* LastPass is preserved. *)
LEMMA LastPassStays ==
  ASSUME RecoveryInv, LastPass, [RecoveryNext]_allVars,
         \A p, q \in Recoverers : p = q
  PROVE  LastPass'
<1>0. /\ pass \in [Recoverers -> PassRecords] /\ epoch \in Epochs
      /\ obsolete \subseteq Epochs /\ generation \in [Tasks -> 0 .. MaxEpoch]
      /\ observed \in 0 .. MaxEpoch /\ observed <= epoch
      /\ MaxEpoch \in Nat \ {0}
      /\ \A p \in Recoverers : pass[p].todo \subseteq Tasks
  BY RecoveryAssumption DEF RecoveryInv, RecoveryTypeOK, PassRecords, Generations
<1>1. \A t \in Tasks : disp[t].phase # "new" => disp'[t].phase # "new"
  BY BegunOn
<1>2. CASE \/ UNCHANGED allVars \/ PipelineStep \/ LoseBroker
           \/ (\E t \in Tasks : FindOtherGeneration(t))
  <2>1. /\ UNCHANGED <<pass, observed, obsolete>>
        /\ epoch' \in Epochs /\ epoch <= epoch'
        /\ \A t \in Tasks :
             disp[t].phase # "new" => generation'[t] = generation[t]
    BY <1>2, OutsidePasses
  <2>2. \A g \in obsolete : g < epoch'
    BY <1>0, <2>1 DEF LastPass, Epochs
  <2>3. \A p \in Recoverers : \A t \in pass[p].todo :
          generation'[t] < epoch' /\ disp'[t].phase # "new"
    <3> SUFFICES ASSUME NEW p \in Recoverers, NEW t \in pass[p].todo
                 PROVE  generation'[t] < epoch' /\ disp'[t].phase # "new"
      OBVIOUS
    <3>1. t \in Tasks /\ generation[t] < epoch /\ disp[t].phase # "new"
      BY <1>0 DEF LastPass
    <3> QED BY <1>0, <1>1, <2>1, <3>1 DEF Epochs
  <2> QED BY <2>1, <2>2, <2>3 DEF LastPass
<1>3. ASSUME NEW p \in Recoverers, PassMoves(p) \/ PassRepairs(p)
      PROVE  LastPass'
  <2>1. epoch' = epoch /\ generation' = generation /\ PassRecordsOnly(p)
    BY <1>3, PassKeeps
  <2>2. PICK new \in PassRecords :
          pass' = [pass EXCEPT ![p] = new] /\ PassGoes(p, new)
    BY <1>3, PassAfter
  <2>3. pass'[p] = new /\ \A q \in Recoverers : q = p
    BY <1>0, <2>2
  <2>4. /\ pass[p].seen \subseteq Epochs /\ pass[p].epoch \in 0 .. MaxEpoch
        /\ pass[p].durable \in 0 .. MaxEpoch
    BY <1>0, PassFields
  <2>5. pass[p].phase # "idle" =>
          /\ pass[p].epoch \in 1 .. epoch /\ observed <= pass[p].epoch
          /\ \A g \in pass[p].seen : g <= pass[p].epoch
          /\ pass[p].phase = "observed" => pass[p].durable <= pass[p].epoch
    BY DEF RecoveryInv, Generations, LastPass
  <2>6. \A g \in obsolete' : g < epoch
    <3>1. CASE obsolete' = obsolete \cup ReplacedGenerations(p) /\ Persist(p)
      <4>1. pass[p].phase = "observed"
        BY <3>1 DEF Persist
      <4>2. \A g \in ReplacedGenerations(p) : g < epoch
        BY <1>0, <2>4, <2>5, <4>1 DEF ReplacedGenerations, Epochs
      <4> QED BY <3>1, <4>2 DEF LastPass
    <3> QED BY <2>1, <3>1 DEF PassRecordsOnly, LastPass
  <2>7. pass[p].phase # "idle" => observed' <= pass[p].epoch
    BY <1>0, <2>1, <2>4, <2>5 DEF PassRecordsOnly, Witness, Epochs
  <2>8. new.phase # "idle" => observed' <= new.epoch
    <3>1. CASE new.epoch = pass[p].epoch /\ pass[p].phase # "idle"
      BY <2>7, <3>1
    <3>2. CASE TakeSnapshot(p) /\ new.epoch = epoch
      BY <1>0, <3>2 DEF TakeSnapshot
    <3> QED BY <2>2, <3>1, <3>2 DEF PassGoes
  <2>9. new.phase = "observed" => new.durable <= new.epoch
    <3>1. new.phase = "observed" => new.durable = observed'
      BY <2>2 DEF PassGoes
    <3> QED BY <2>8, <3>1
  <2>10. \A t \in new.todo : t \in Tasks /\ generation[t] < epoch /\ disp[t].phase # "new"
    <3>1. CASE new.todo \subseteq pass[p].todo
      BY <1>0, <3>1 DEF LastPass
    <3>2. CASE new.todo = {t \in ActiveTasks : generation[t] \in obsolete}
      BY <3>2 DEF LastPass, ActiveTasks, ActiveStatuses, RecoveryInv, IndInv, Fresh
    <3> QED BY <2>2, <3>1, <3>2 DEF PassGoes
  <2> QED BY <1>1, <2>1, <2>3, <2>6, <2>8, <2>9, <2>10 DEF LastPass
<1> QED BY <1>2, <1>3, RecoveryCases

(* A task that the present broker was given is left alone by recovery,     *)
(* whatever fails and however often the broker is lost, as long as passes  *)
(* do not overlap.                                                         *)
THEOREM RetriesUntouched ==
  ASSUME \A p, q \in Recoverers : p = q
  PROVE  RecoverySpec => CurrentGenerationUntouched
<1>1. RecoveryInitAll => LastPass /\ ClaimDiscipline
  BY DisciplineInit DEF RecoveryInitAll, RecoveryInit, LastPass, IdlePass
<1>2. RecoveryInv /\ LastPass /\ ClaimDiscipline /\ [RecoveryNext]_allVars
        => (LastPass /\ ClaimDiscipline)'
  BY LastPassStays, DisciplineOn
<1> DEFINE Untouched ==
      \A t \in Tasks :
         /\ task'[t].code = "recovery_cleanup"
         /\ task[t].status \in ActiveStatuses
         => generation[t] # epoch
<1>3. RecoveryInv /\ LastPass /\ ClaimDiscipline /\ [RecoveryNext]_allVars
        => [Untouched]_allVars
  <2> SUFFICES ASSUME RecoveryInv, LastPass, ClaimDiscipline, [RecoveryNext]_allVars,
                      NEW t \in Tasks, task'[t].code = "recovery_cleanup",
                      task[t].status \in ActiveStatuses
               PROVE  generation[t] # epoch
    OBVIOUS
  <2>0. /\ task \in [Tasks -> Rows] /\ Disciplined(task[t]) /\ IndInv
        /\ epoch \in Epochs
    BY RowsAndQuotas DEF RecoveryInv, RecoveryTypeOK, ClaimDiscipline, Disciplined
  <2>1. task[t].code # "recovery_cleanup"
    BY <2>0 DEF Disciplined, BlockedCodes, CleanupMarkers, ActiveStatuses
  <2>2. ~[Next]_vars
    <3>1. SUFFICES ASSUME [Next]_vars PROVE FALSE
      OBVIOUS
    <3>2. RowChange(task[t], task'[t]) \/ Inserted(task[t], task'[t])
      BY <2>0, <3>1, StepChanges DEF IndInv, RowsChange
    <3> QED BY <2>0, <3>2, MarkedByRecovery
  <2>3. PICK p \in Recoverers : PassRepairs(p)
    <3>1. task' # task
      BY <2>1
    <3>2. \A p \in Recoverers : ~PassMoves(p)
      BY <3>1, MovingSteps DEF vars
    <3> QED BY <2>2, <3>1, <3>2, RecoveryCases
            DEF allVars, PipelineStep, LoseBroker, FindOtherGeneration, storeVars
  <2>4. ~FinishLost(p)
    <3> SUFFICES ASSUME FinishLost(p) PROVE FALSE
      OBVIOUS
    <3>1. task'[t] = task[t] \/ task'[t] = Lost(task[t])
      BY <2>0 DEF FinishLost, Lost
    <3> QED BY <2>0, <2>1, <3>1 DEF Lost, Rows
  <2>5. PICK u \in Tasks : FenceLost(p, u)
    BY <2>1, <2>3, <2>4 DEF PassRepairs, RollbackLost, CancelLost
  <2>6. u = t /\ t \in pass[p].todo
    BY <2>0, <2>1, <2>5 DEF FenceLost
  <2>7. generation[t] < epoch
    BY <2>6 DEF LastPass
  <2> QED BY <2>0, <2>7 DEF Epochs, RecoveryInv, RecoveryTypeOK
<1> QED BY <1>1, <1>2, <1>3, RecoveryInductive, PTL
        DEF RecoverySpec, CurrentGenerationUntouched

-----------------------------------------------------------------------------
(* A lost message is found. *)

(* No statement fails and no shutting worker drops a message; where users  *)
(* may stop the run, a stop is not interrupted and publishing succeeds.    *)
StopsComplete ==
  /\ {"db", "shutdown", "timeout"} \cap Faults = {}
  /\ "stop" \in UserActions => {"broker", "stop"} \cap Faults = {}

Queued(t) == task[t].status = "queued"

(* The request of t may still queue its row, or has. *)
OnTheWay(t) ==
  Queued(t) \/ (task[t].status = "pending" /\ disp[t].phase \in {"recorded", "enqueued"})

Threatened(t) == t \in revoked \/ disp[t].phase = "undo" \/ run.status = "cancelled"

(* Somebody can tell that the row of t waits. *)
Noticed(t) ==
  \/ <<t, 0>> \in broker
  \/ t \in revoked
  \/ generation[t] \in obsolete
  \/ observed <= generation[t] /\ generation[t] < epoch

(* What is left of a stop where users may not stop. *)
NoStop == "stop" \notin UserActions => stop = IdleStop /\ run.status # "cancelled"

(* A queued row is noticed, and the message it has is of the present       *)
(* broker; what it takes to get there before the promotion; and that a     *)
(* pass which sees the new epoch has listed the rows of the old one before *)
(* it stores the new one.                                                  *)
NoticedInv ==
  /\ NoStop
  /\ \A t \in Tasks :
       /\ Queued(t) => /\ disp[t].phase \notin {"recorded", "enqueued"}
                       /\ Noticed(t)
                       /\ <<t, 0>> \in broker => generation[t] = epoch
       /\ task[t].status = "pending" /\ disp[t].phase = "enqueued"
            => <<t, 0>> \in broker \/ t \in revoked \/ generation[t] < epoch
       /\ OnTheWay(t) /\ Threatened(t) => StopCovers(t)
       /\ \A p \in Recoverers :
            /\ pass[p].phase \in {"snapshot", "confirmed", "observed"}
            /\ Queued(t) /\ generation[t] < pass[p].epoch
            => generation[t] \in pass[p].seen

(* WaitingInv holds with recovery too. *)
LEMMA WaitingOn ==
  ASSUME RecoveryInv, WaitingInv, [RecoveryNext]_allVars, {"db", "timeout"} \cap Faults = {}
  PROVE  WaitingInv'
<1>0. IndInv /\ task \in [Tasks -> Rows]
  BY RowsAndQuotas DEF RecoveryInv
<1>1. CASE [Next]_vars
  BY <1>0, <1>1, WaitingStep
<1>2. CASE LoseBroker
  BY <1>2 DEF LoseBroker, WaitingInv, Unknown, Unclaimed, Waits, Has
<1>3. ASSUME NEW t \in Tasks, FindOtherGeneration(t) PROVE WaitingInv'
  <2>1. UNCHANGED <<task, broker, revoked, wk, stop>> /\ disp[t].phase = "enqueued"
        /\ \A u \in Tasks \ {t} : disp'[u] = disp[u]
    BY <1>0, <1>3 DEF FindOtherGeneration, storeVars, Compensate, IndInv, TypeOK, DispTypeOK
  <2>2. task[t].status # "none"
    BY <2>1 DEF WaitingInv, Unknown
  <2>3. Unknown'
    BY <2>1, <2>2 DEF WaitingInv, Unknown, Has
  <2> QED BY <2>1, <2>3 DEF WaitingInv, Unclaimed, Waits, Has
<1>4. CASE Repair
  <2>1. /\ UNCHANGED <<broker, revoked, disp, wk, stop>>
        /\ \A t \in Tasks : task'[t] = task[t] \/ GivenUp(task[t], task'[t])
    BY <1>0, <1>4, RepairedRow
  <2>2. \A t \in Tasks :
          GivenUp(task[t], task'[t]) => task'[t].status = "failed"
    BY <1>0, GivenUpRow
  <2>3. Unknown'
    BY <2>1, <2>2 DEF WaitingInv, Unknown, Has
  <2>4. Unclaimed'
    BY <2>1, <2>2 DEF WaitingInv, Unclaimed, Waits, Has
  <2> QED BY <2>1, <2>3, <2>4 DEF WaitingInv
<1> QED BY <1>1, <1>2, <1>3, <1>4, RecoverySteps

(* Where users may not stop, nothing is stopped. *)
LEMMA NoStopStays ==
  ASSUME RecoveryInv, NoStop, [RecoveryNext]_allVars
  PROVE  NoStop'
<1> SUFFICES ASSUME "stop" \notin UserActions
             PROVE  stop' = IdleStop /\ run'.status # "cancelled"
  BY DEF NoStop
<1>0. stop = IdleStop /\ run.status # "cancelled" /\ IndInv /\ stop.phase = "idle"
  BY DEF NoStop, RecoveryInv, IdleStop
<1>1. CASE [Next]_vars
  <2>1. stop' = stop
    <3>1. ControlNext => stop' = stop
      BY <1>0 DEF ControlNext, Stop, Resume, Restart, Back, Approval,
         ResumeRun, RestartRun, GoBack, Approve, StopStep, StopAborts,
         CollectActive, NextStopPass, BroadcastRevoke, BroadcastFails,
         MarkRevoked, FinalizeRevoked
    <3> QED BY <1>1, <3>1 DEF Next, vars, DispatcherNext, DelivererNext, ReconcilerNext
  <2>2. ~StopRun
    BY <1>0, <2>1 DEF StopRun, IdleStop
  <2> QED BY <1>0, <1>1, <2>1, <2>2, NewCancellation
<1>2. CASE LoseBroker \/ \E t \in Tasks : FindOtherGeneration(t)
  BY <1>0, <1>2 DEF LoseBroker, FindOtherGeneration, storeVars
<1>3. CASE Repair
  <2>1. \A t : RunRolledBack(t).status # "cancelled"
    BY <1>0 DEF RunRolledBack, RunFailed
  <2> QED BY <1>0, <1>3, <2>1 DEF Repair
<1> QED BY <1>1, <1>2, <1>3, RecoverySteps

(* A request publishes after it has recorded its row. *)
LEMMA PublishingStarts ==
  ASSUME IndInv, [Next]_vars, NEW t \in Tasks,
         disp'[t].phase \in {"recorded", "enqueued"}
  PROVE  disp[t].phase \in {"reserved", "recorded", "enqueued"}
<1>1. CASE DispatcherNext
  <2>1. PICK u \in Tasks :
          /\ \/ \E kind \in Kinds : Trigger(u, kind)
             \/ DispatchStep(u)
             \/ DispatchFault(u)
          /\ \A v \in Tasks \ {u} : disp'[v] = disp[v]
    BY <1>1, RequestSteps
  <2>2. CASE u # t
    BY <2>1, <2>2
  <2>3. CASE u = t
    BY <2>1, <2>3 DEF IndInv, TypeOK, DispTypeOK, DispatchStep, DispatchFault,
       Trigger, RecordPending, RecordConflict, Enqueue, Promote, Accept,
       FoundCancelled, UndoOne, UndoDone, BrokerUnreadable, EnqueueFails,
       GenerationChanged, PromoteFails, UndoFails, DispatchCrash, Goto,
       Compensate, NextUndo
  <2> QED BY <2>2, <2>3
<1>2. CASE disp' = disp
  BY <1>2
<1> QED BY <1>1, <1>2 DEF Next, vars, DelivererNext, ReconcilerNext, ControlNext

(* A row on its way was on its way, or has just been inserted. *)
LEMMA OnTheWayAfter ==
  ASSUME IndInv, [Next]_vars, NEW t \in Tasks, OnTheWay(t)'
  PROVE  \/ OnTheWay(t) /\ Waits(t) /\ Waits(t)'
         \/ task[t].status = "none" /\ RecordPending(t)
<1>0. Waits(t)' /\ task[t] \in Rows
  BY RowsAndQuotas DEF OnTheWay, Queued, Waits
<1>1. CASE Waits(t)
  <2>1. CASE Queued(t)
    BY <1>0, <1>1, <2>1 DEF OnTheWay
  <2>2. CASE task[t].status = "pending" /\ task'[t].status = "queued"
    <3>1. disp[t].phase = "enqueued"
      BY <2>2, QueuedByPromotion DEF Promote
    <3> QED BY <1>0, <1>1, <2>2, <3>1 DEF OnTheWay
  <2>3. CASE task[t].status = "pending" /\ task'[t].status # "queued"
    <3>1. disp[t].phase \in {"reserved", "recorded", "enqueued"}
      BY <2>3, PublishingStarts DEF OnTheWay, Queued
    <3>2. disp[t].phase # "reserved"
      BY <2>3 DEF IndInv, Fresh
    <3> QED BY <1>0, <1>1, <2>3, <3>1, <3>2 DEF OnTheWay
  <2> QED BY <1>1, <2>1, <2>2, <2>3 DEF Waits, Queued
<1>2. CASE ~Waits(t)
  BY <1>0, <1>2, WaitsAfter
<1> QED BY <1>1, <1>2

(* What threatens a row on its way follows a stop that has still to mark   *)
(* it, in the steps of the pipeline.                                       *)
LEMMA ThreatIsCovered ==
  ASSUME IndInv, WaitingInv, NoticedInv, [Next]_vars, StopsComplete,
         NEW t \in Tasks, OnTheWay(t)', Threatened(t)'
  PROVE  StopCovers(t)'
<1>0. "db" \notin Faults
  BY DEF StopsComplete
<1>1. CASE task[t].status = "none" /\ RecordPending(t)
  <2>1. t \notin revoked
    BY <1>1 DEF WaitingInv, Unknown
  <2>2. /\ revoked' = revoked /\ disp'[t].phase = "recorded"
        /\ run'.status = run.status /\ run.status # "cancelled"
    BY <1>1 DEF RecordPending, MayTransition, Goto, IndInv, TypeOK, DispTypeOK,
       StoreTypeOK
  <2> QED BY <2>1, <2>2 DEF Threatened
<1>2. CASE OnTheWay(t) /\ Waits(t) /\ Waits(t)'
  <2>1. Threatened(t) => StopCovers(t)
    BY <1>2 DEF NoticedInv
  <2>2. CASE StopCovers(t)
    <3>1. "stop" \in UserActions
      BY <2>2 DEF NoticedInv, NoStop, IdleStop, StopCovers
    <3> QED BY <1>2, <2>2, <3>1, CoverStays DEF StopsComplete, WaitingInv
  <2>3. CASE t \in revoked' /\ t \notin revoked
    <3>1. CASE disp[t].phase = "undo"
      BY <2>1, <2>2, <3>1 DEF Threatened
    <3>2. CASE stop.phase = "revoke" /\ t \in stop.left
      <4>1. StopCovers(t)
        BY <3>2 DEF StopCovers, WaitingInv
      <4> QED BY <2>2, <4>1
    <3> QED BY <2>3, <3>1, <3>2, NewRevocation
  <2>4. CASE disp'[t].phase = "undo" /\ disp[t].phase # "undo"
    <3>1. task'[t].status = "queued"
      BY <2>4 DEF OnTheWay, Queued
    <3>2. ~Promote(t)
      BY <2>4 DEF Promote, Goto, IndInv, TypeOK, DispTypeOK
    <3>3. Queued(t)
      BY <3>1, <3>2, QueuedByPromotion DEF Queued
    <3>4. disp[t].phase \notin {"recorded", "enqueued"}
      BY <3>3 DEF NoticedInv
    <3>5. run.status = "cancelled"
      BY <1>0, <2>4, <3>4, NewUndo
    <3> QED BY <2>1, <2>2, <3>5 DEF Threatened
  <2>5. CASE run'.status = "cancelled" /\ run.status # "cancelled"
    <3>1. StopRun
      BY <2>5, NewCancellation
    <3>2. stop'.phase = "collect"
      BY <3>1 DEF StopRun, IndInv, TypeOK, StopTypeOK
    <3> QED BY <3>2 DEF StopCovers
  <2> QED BY <2>1, <2>2, <2>3, <2>4, <2>5 DEF Threatened
<1> QED BY <1>1, <1>2, OnTheWayAfter

(* NoticedInv of one row. *)
RowNoticed(t) ==
  /\ Queued(t) => /\ disp[t].phase \notin {"recorded", "enqueued"}
                  /\ Noticed(t)
                  /\ <<t, 0>> \in broker => generation[t] = epoch
  /\ task[t].status = "pending" /\ disp[t].phase = "enqueued"
       => <<t, 0>> \in broker \/ t \in revoked \/ generation[t] < epoch
  /\ OnTheWay(t) /\ Threatened(t) => StopCovers(t)
  /\ \A p \in Recoverers :
       /\ pass[p].phase \in {"snapshot", "confirmed", "observed"}
       /\ Queued(t) /\ generation[t] < pass[p].epoch
       => generation[t] \in pass[p].seen

(* A row that is queued is noticed, after a step of the pipeline.          *)
LEMMA NoticedByPipeline ==
  ASSUME RecoveryInv, WaitingInv, NoticedInv, PipelineStep, StopsComplete,
         NEW t \in Tasks
  PROVE  RowNoticed(t)'
<1>0. /\ IndInv /\ [Next]_vars /\ {"db", "shutdown", "timeout"} \cap Faults = {}
      /\ task[t] \in Rows /\ RowNoticed(t)
      /\ disp \in [Tasks -> [phase : DispPhases, kind : {"none"} \cup Kinds,
                             from : {"none"} \cup RunStages, todo : Seq(UndoSteps)]]
  BY RowsAndQuotas DEF RecoveryInv, PipelineStep, StopsComplete, NoticedInv, RowNoticed,
     IndInv, TypeOK, DispTypeOK
<1>1. /\ UNCHANGED <<epoch, observed, obsolete, pass>>
      /\ disp[t].phase # "new" => generation'[t] = generation[t]
      /\ disp[t].phase = "enqueued" /\ disp'[t].phase = "promoted"
           => generation[t] = epoch
  BY DEF PipelineStep
<1>2. /\ epoch \in Nat /\ generation[t] \in Nat /\ generation[t] <= epoch
      /\ observed <= epoch
  BY RecoveryAssumption DEF RecoveryInv, RecoveryTypeOK, Generations, Epochs
<1>3. Waits(t) => disp[t].phase # "new" /\ disp[t].phase # "reserved"
  BY <1>0 DEF IndInv, Fresh, Waits
<1>4. revoked \subseteq revoked'
  BY <1>0, RevokedStays
<1>5. ASSUME Waits(t), <<t, 0>> \in broker PROVE <<t, 0>> \in broker' \/ t \in revoked'
  BY <1>0, <1>4, <1>5, MessageStays
<1>6. CASE Promote(t) /\ Queued(t)' /\ ~Queued(t)
  <2>1. /\ task'[t] = PromotedToQueued(task[t]) /\ disp[t].phase = "enqueued"
        /\ disp'[t].phase = "promoted" /\ UNCHANGED <<broker, revoked>>
    BY <1>0, <1>6, RowsAndQuotas DEF Promote, Goto
  <2>2. task[t].status = "pending"
    BY <1>0, <1>6, <2>1 DEF PromotedToQueued, Queued
  <2>3. generation'[t] = epoch /\ generation[t] = epoch
    BY <1>1, <2>1
  <2>4. <<t, 0>> \in broker \/ t \in revoked
    BY <1>0, <1>2, <2>1, <2>2, <2>3 DEF RowNoticed
  <2>5. Noticed(t)'
    BY <2>1, <2>4 DEF Noticed
  <2>6. OnTheWay(t)' /\ Threatened(t)' => StopCovers(t)'
    BY <1>0, ThreatIsCovered
  <2>7. \A p \in Recoverers : pass[p].phase # "idle" => ~(epoch < pass[p].epoch)
    BY <1>2 DEF RecoveryInv, Generations
  <2>8. task'[t].status # "pending"
    BY <1>6 DEF Queued
  <2> QED BY <1>1, <2>1, <2>3, <2>5, <2>6, <2>7, <2>8 DEF RowNoticed
<1>7. CASE Queued(t) /\ Queued(t)'
  <2>1. Waits(t) /\ generation'[t] = generation[t]
    BY <1>1, <1>3, <1>7 DEF Queued, Waits
  <2>2. disp'[t].phase \notin {"recorded", "enqueued"}
    BY <1>0, <1>3, <1>7, <2>1, PublishingStarts DEF RowNoticed
  <2>3. Noticed(t)'
    <3>1. Noticed(t)
      BY <1>0, <1>7 DEF RowNoticed
    <3> QED BY <1>1, <1>4, <1>5, <2>1, <3>1 DEF Noticed
  <2>4. <<t, 0>> \in broker' => generation'[t] = epoch'
    <3>1. CASE <<t, 0>> \in broker
      BY <1>0, <1>1, <1>7, <2>1, <3>1 DEF RowNoticed
    <3>2. CASE <<t, 0>> \in broker' /\ <<t, 0>> \notin broker
      <4>1. <<t, 0>>[1] = t
        OBVIOUS
      <4>2. \/ disp[t].phase = "recorded"
            \/ \E w \in Workers : Has(w, t) /\ wk[w].phase = "requeue"
        BY <1>0, <3>2, <4>1, NewMessage
      <4>3. disp[t].phase # "recorded"
        BY <1>0, <1>7 DEF RowNoticed
      <4> QED BY <2>1, <4>2, <4>3 DEF WaitingInv, Unclaimed
    <3> QED BY <3>1, <3>2
  <2>5. OnTheWay(t)' /\ Threatened(t)' => StopCovers(t)'
    BY <1>0, ThreatIsCovered
  <2>6. task'[t].status # "pending"
    BY <1>7 DEF Queued
  <2>7. \A p \in Recoverers :
          /\ pass'[p].phase \in {"snapshot", "confirmed", "observed"}
          /\ generation'[t] < pass'[p].epoch
          => generation'[t] \in pass'[p].seen
    BY <1>0, <1>1, <1>7, <2>1 DEF RowNoticed
  <2> QED BY <2>2, <2>3, <2>4, <2>5, <2>6, <2>7 DEF RowNoticed
<1>8. CASE ~Queued(t)'
  <2>1. ASSUME task'[t].status = "pending", disp'[t].phase = "enqueued"
        PROVE  <<t, 0>> \in broker' \/ t \in revoked' \/ generation'[t] < epoch'
    <3>1. Published(t) \/ <<t, 0>> \in broker'
      BY <1>0, <2>1, NewlyPublished DEF Published
    <3>2. CASE Published(t)
      <4>1. task[t].status = "pending" /\ disp[t].phase = "enqueued"
        <5>1. task[t].status # "none"
          BY <3>2 DEF Published
        <5>2. RowChange(task[t], task'[t])
          BY <1>0, <5>1, StepChanges DEF IndInv, RowsChange, Inserted
        <5> QED BY <1>0, <2>1, <3>2, <5>2, WaitingRow DEF Published
      <4>2. Waits(t)
        BY <4>1 DEF Waits
      <4>3. <<t, 0>> \in broker \/ t \in revoked \/ generation[t] < epoch
        BY <1>0, <4>1 DEF RowNoticed
      <4> QED BY <1>1, <1>4, <1>5, <4>1, <4>2, <4>3
    <3> QED BY <3>1, <3>2
  <2>2. OnTheWay(t)' /\ Threatened(t)' => StopCovers(t)'
    BY <1>0, ThreatIsCovered
  <2> QED BY <1>8, <2>1, <2>2 DEF RowNoticed
<1>9. Queued(t)' => Queued(t) \/ Promote(t)
  BY <1>0, QueuedByPromotion DEF Queued
<1> QED BY <1>6, <1>7, <1>8, <1>9

(* The loss of the broker, and a request that notices it. *)
LEMMA NoticedAfterLoss ==
  ASSUME RecoveryInv, NoticedInv, NEW t \in Tasks,
         LoseBroker \/ \E u \in Tasks : FindOtherGeneration(u)
  PROVE  RowNoticed(t)'
<1>0. /\ RowNoticed(t) /\ epoch \in Nat /\ generation[t] \in Nat
      /\ generation[t] <= epoch /\ observed \in Nat /\ observed <= epoch
      /\ disp \in [Tasks -> [phase : DispPhases, kind : {"none"} \cup Kinds,
                             from : {"none"} \cup RunStages, todo : Seq(UndoSteps)]]
  BY RecoveryAssumption DEF RecoveryInv, RecoveryTypeOK, Generations, Epochs,
     NoticedInv, RowNoticed, IndInv, TypeOK, DispTypeOK
<1>1. CASE LoseBroker
  <2>1. /\ UNCHANGED <<run, task, revoked, disp, stop, generation, observed, obsolete, pass>>
        /\ broker' = {} /\ epoch' = epoch + 1
    BY <1>1 DEF LoseBroker
  <2>2. generation[t] < epoch'
    BY <1>0, <2>1
  <2>3. Queued(t) => Noticed(t)'
    <3>1. CASE Queued(t) /\ <<t, 0>> \in broker
      <4>1. generation[t] = epoch
        BY <1>0, <3>1 DEF RowNoticed
      <4> QED BY <1>0, <2>1, <2>2, <4>1 DEF Noticed
    <3>2. CASE Queued(t) /\ <<t, 0>> \notin broker
      BY <1>0, <2>1, <2>2, <3>2 DEF Noticed, RowNoticed
    <3> QED BY <3>1, <3>2
  <2>4. /\ Queued(t)' = Queued(t) /\ OnTheWay(t)' = OnTheWay(t)
        /\ Threatened(t)' = Threatened(t) /\ StopCovers(t)' = StopCovers(t)
    BY <2>1 DEF Queued, OnTheWay, Threatened, StopCovers
  <2> QED BY <1>0, <2>1, <2>2, <2>3, <2>4 DEF RowNoticed
<1>2. ASSUME NEW u \in Tasks, FindOtherGeneration(u)
      PROVE  RowNoticed(t)'
  <2>1. /\ UNCHANGED <<run, task, broker, revoked, stop, epoch, generation, observed,
                       obsolete, pass>>
        /\ disp[u].phase = "enqueued" /\ disp'[u].phase = "undo"
        /\ \A v \in Tasks \ {u} : disp'[v] = disp[v]
    BY <1>0, <1>2 DEF FindOtherGeneration, storeVars, recoveryVars, Compensate
  <2>2. /\ Queued(t)' = Queued(t) /\ Noticed(t)' = Noticed(t)
        /\ StopCovers(t)' = StopCovers(t)
    BY <2>1 DEF Queued, Noticed, StopCovers
  <2>3. CASE u = t
    <3>1. ~Queued(t)
      BY <1>0, <2>1, <2>3 DEF RowNoticed
    <3> QED BY <1>0, <2>1, <2>2, <2>3, <3>1 DEF RowNoticed, OnTheWay
  <2>4. CASE u # t
    <3>1. OnTheWay(t)' = OnTheWay(t) /\ Threatened(t)' = Threatened(t)
          /\ disp'[t] = disp[t]
      BY <2>1, <2>2, <2>4 DEF OnTheWay, Threatened
    <3> QED BY <1>0, <2>1, <2>2, <3>1 DEF RowNoticed
  <2> QED BY <2>3, <2>4
<1> QED BY <1>1, <1>2

(* The steps of a pass: the new epoch is stored together with the          *)
(* generations that it replaces.                                           *)
LEMMA NoticedByPass ==
  ASSUME RecoveryInv, NoticedInv, NEW t \in Tasks,
         NEW p \in Recoverers, PassMoves(p) \/ PassRepairs(p),
         [RecoveryNext]_allVars
  PROVE  RowNoticed(t)'
<1>0. /\ RowNoticed(t) /\ epoch \in Nat /\ generation[t] \in Nat
      /\ generation[t] <= epoch /\ observed \in Nat /\ observed <= epoch
      /\ task \in [Tasks -> Rows] /\ IndInv
      /\ pass \in [Recoverers -> PassRecords]
  BY RecoveryAssumption, RowsAndQuotas DEF RecoveryInv, RecoveryTypeOK, Generations, Epochs,
     NoticedInv, RowNoticed, PassRecords
<1>1. epoch' = epoch /\ generation' = generation /\ PassRecordsOnly(p)
  BY PassKeeps
<1>2. PICK new \in PassRecords :
        pass' = [pass EXCEPT ![p] = new] /\ PassGoes(p, new)
  BY PassAfter
<1>3. /\ UNCHANGED <<broker, revoked, disp, stop>>
      /\ run'.status = "cancelled" => run.status = "cancelled"
      /\ task'[t] = task[t] \/ task'[t].status = "failed"
  <2>1. UNCHANGED vars \/ Repair
    BY MovingSteps, RepairingSteps
  <2>2. CASE Repair
    <3>1. UNCHANGED <<broker, revoked, disp, stop>>
          /\ (task'[t] = task[t] \/ GivenUp(task[t], task'[t]))
      BY <1>0, <2>2, RepairedRow
    <3>2. \A u : RunRolledBack(u).status = "cancelled" => run.status = "cancelled"
      BY DEF RunRolledBack, RunFailed
    <3>3. run'.status = "cancelled" => run.status = "cancelled"
      BY <2>2, <3>2 DEF Repair
    <3> QED BY <1>0, <3>1, <3>3, GivenUpRow
  <2> QED BY <2>1, <2>2 DEF vars
<1>4. CASE task'[t].status = "failed"
  BY <1>4 DEF RowNoticed, Queued, OnTheWay
<1>5. CASE task'[t] = task[t]
  <2>1. /\ Queued(t)' = Queued(t) /\ OnTheWay(t)' = OnTheWay(t)
        /\ Threatened(t)' => Threatened(t) /\ StopCovers(t)' = StopCovers(t)
    BY <1>3, <1>5 DEF Queued, OnTheWay, Threatened, StopCovers
  <2>2. ASSUME Queued(t) PROVE Noticed(t)'
    <3>1. Noticed(t) /\ t \in ActiveTasks /\ generation[t] # 0
      BY <1>0, <2>2 DEF RowNoticed, Queued, ActiveTasks, ActiveStatuses, RecoveryInv,
         Generations, IndInv, Fresh
    <3>2. CASE Persist(p) /\ observed = pass[p].durable /\ observed' = pass[p].epoch
      <4>1. pass[p].phase = "observed"
        BY <3>2 DEF Persist
      <4>2. CASE pass[p].epoch = pass[p].durable /\ obsolete' = obsolete
        BY <1>1, <1>3, <3>1, <3>2, <4>2 DEF Noticed
      <4>3. CASE obsolete' = obsolete \cup ReplacedGenerations(p)
        <5>1. pass[p].epoch \in Nat
          BY <1>0, RecoveryAssumption DEF PassRecords
        <5>2. CASE generation[t] < pass[p].epoch
          <6>1. generation[t] \in pass[p].seen /\ generation[t] # pass[p].epoch
            BY <1>0, <2>2, <4>1, <5>1, <5>2 DEF RowNoticed
          <6> QED BY <1>1, <4>3, <6>1 DEF Noticed, ReplacedGenerations
        <5>3. CASE ~(generation[t] < pass[p].epoch)
          <6>1. pass[p].epoch <= generation[t]
            BY <1>0, <5>1, <5>3
          <6> QED BY <1>0, <1>1, <1>3, <3>1, <3>2, <4>3, <6>1
                  DEF Noticed, RowNoticed
        <5> QED BY <5>2, <5>3
      <4>4. \/ pass[p].epoch = pass[p].durable /\ obsolete' = obsolete
            \/ obsolete' = obsolete \cup ReplacedGenerations(p)
        BY <1>1, <3>2 DEF PassRecordsOnly, ReadObserved, CompleteCleanup, Persist
      <4> QED BY <4>2, <4>3, <4>4
    <3>3. CASE UNCHANGED <<observed, obsolete>>
      BY <1>1, <1>3, <3>1, <3>3 DEF Noticed
    <3>4. CASE observed = 0 /\ observed' = Witness /\ obsolete' = obsolete
      BY <1>0, <1>1, <1>3, <3>1, <3>4 DEF Noticed, Witness
    <3>5. CASE /\ UNCHANGED observed
               /\ generation[t] \in obsolete => generation[t] \in obsolete'
      BY <1>1, <1>3, <3>1, <3>5 DEF Noticed
    <3> QED BY <1>1, <3>1, <3>2, <3>3, <3>4, <3>5 DEF PassRecordsOnly
  <2>3. ASSUME NEW q \in Recoverers,
               pass'[q].phase \in {"snapshot", "confirmed", "observed"},
               Queued(t), generation[t] < pass'[q].epoch
        PROVE  generation[t] \in pass'[q].seen
    <3>1. CASE q # p
      <4>1. pass'[q] = pass[q]
        BY <1>0, <1>2, <3>1
      <4> QED BY <1>0, <2>3, <4>1 DEF RowNoticed
    <3>2. CASE q = p
      <4>0. pass'[q] = new
        BY <1>0, <1>2, <3>2
      <4>1. CASE new.seen = {generation[u] : u \in ActiveTasks} \ {0}
        <5>1. t \in ActiveTasks /\ generation[t] # 0
          BY <1>0, <2>3 DEF Queued, ActiveTasks, ActiveStatuses, RecoveryInv,
             Generations, IndInv, Fresh
        <5> QED BY <4>0, <4>1, <5>1
      <4>2. CASE /\ new.epoch = pass[p].epoch /\ new.seen = pass[p].seen
                 /\ Confirm(p) \/ ReadObserved(p)
        <5>1. pass[p].phase \in {"snapshot", "confirmed"}
          BY <4>2 DEF Confirm, ReadObserved
        <5> QED BY <1>0, <2>3, <4>0, <4>2, <5>1 DEF RowNoticed
      <4> QED BY <1>2, <2>3, <4>0, <4>1, <4>2 DEF PassGoes
    <3> QED BY <3>1, <3>2
  <2> QED BY <1>0, <1>1, <1>3, <1>5, <2>1, <2>2, <2>3 DEF RowNoticed
<1> QED BY <1>3, <1>4, <1>5

(* NoticedInv is preserved. *)
LEMMA NoticedStays ==
  ASSUME RecoveryInv, WaitingInv, NoticedInv, [RecoveryNext]_allVars, StopsComplete
  PROVE  NoticedInv'
<1>1. NoStop'
  BY NoStopStays DEF NoticedInv
<1>2. ASSUME NEW t \in Tasks PROVE RowNoticed(t)'
  <2>1. RowNoticed(t)
    BY DEF NoticedInv, RowNoticed
  <2>2. CASE UNCHANGED allVars
    BY <2>1, <2>2 DEF allVars, vars, recoveryVars, RowNoticed, Queued, Noticed,
       OnTheWay, Threatened, StopCovers
  <2> QED BY <2>2, NoticedByPipeline, NoticedAfterLoss, NoticedByPass, RecoveryCases
<1> QED BY <1>1, <1>2 DEF NoticedInv, RowNoticed

(* NoticedInv holds initially. *)
LEMMA NoticedInit == RecoveryInitAll => NoticedInv
BY DEF RecoveryInitAll, RecoveryInit, Init, StoreInit, StopInit, IdleStop,
   NoRow, IdlePass, NoticedInv, NoStop, Queued, OnTheWay

(* A queued row whose message went down with the broker is never           *)
(* overlooked, however often the broker is lost and however many passes    *)
(* overlap, die or are deferred: it has a message of the present broker,   *)
(* or recovery has its generation on the list or is going to find it       *)
(* replaced.  Publishing may fail and workers and requests may die.  No    *)
(* statement fails, no shutting worker drops a message, no time limit cuts *)
(* a delivery off, and the run is not stopped.                             *)
THEOREM LostMessagesAreNoticed ==
  ASSUME {"db", "shutdown", "timeout"} \cap Faults = {}, "stop" \notin UserActions
  PROVE  RecoverySpec => []QueuedIsRecoverable
<1>0. StopsComplete /\ {"db", "timeout"} \cap Faults = {}
  BY DEF StopsComplete
<1>1. RecoveryInitAll => WaitingInv /\ NoticedInv
  BY WaitingInit, NoticedInit DEF RecoveryInitAll
<1>2. RecoveryInv /\ WaitingInv /\ NoticedInv /\ [RecoveryNext]_allVars
        => (WaitingInv /\ NoticedInv)'
  BY <1>0, WaitingOn, NoticedStays
<1>3. NoticedInv => QueuedIsRecoverable
  <2> SUFFICES ASSUME NoticedInv, NEW t \in Tasks, task[t].status = "queued"
               PROVE  \/ OnItsWay(t) \/ disp[t].phase \in InProgress
                      \/ generation[t] \in obsolete
                      \/ observed <= generation[t] /\ generation[t] < epoch
    BY DEF QueuedIsRecoverable
  <2>1. Noticed(t) /\ (Threatened(t) => StopCovers(t))
    BY DEF NoticedInv, Queued, OnTheWay
  <2>2. ~StopCovers(t)
    BY DEF NoticedInv, NoStop, IdleStop, StopCovers
  <2>3. t \notin revoked
    BY <2>1, <2>2 DEF Threatened
  <2>4. <<t, 0>> \in broker => OnItsWay(t)
    <3>1. <<t, 0>>[1] = t
      OBVIOUS
    <3> QED BY <3>1 DEF OnItsWay, Messages
  <2> QED BY <2>1, <2>3, <2>4 DEF Noticed
<1> QED BY <1>1, <1>2, <1>3, RecoveryInductive, PTL DEF RecoverySpec

(* Where users may stop the run, a lost message is found as well, or the   *)
(* stop has the row in hand: as long as a stop is not interrupted,         *)
(* publishing succeeds, no statement fails, no shutting worker drops a     *)
(* message and no time limit cuts a delivery off.                          *)
THEOREM LostMessagesAreNoticedOrStopped ==
  ASSUME {"broker", "db", "stop", "shutdown", "timeout"} \cap Faults = {}
  PROVE  RecoverySpec =>
           [](\A t \in Tasks :
                task[t].status = "queued" =>
                  \/ OnItsWay(t) \/ disp[t].phase \in InProgress \/ Stopping(t)
                  \/ generation[t] \in obsolete
                  \/ observed <= generation[t] /\ generation[t] < epoch)
<1> DEFINE Found ==
      \A t \in Tasks :
        task[t].status = "queued" =>
          \/ OnItsWay(t) \/ disp[t].phase \in InProgress \/ Stopping(t)
          \/ generation[t] \in obsolete
          \/ observed <= generation[t] /\ generation[t] < epoch
<1>0. StopsComplete /\ {"db", "timeout"} \cap Faults = {}
  BY DEF StopsComplete
<1>1. RecoveryInitAll => WaitingInv /\ NoticedInv
  BY WaitingInit, NoticedInit DEF RecoveryInitAll
<1>2. RecoveryInv /\ WaitingInv /\ NoticedInv /\ [RecoveryNext]_allVars
        => (WaitingInv /\ NoticedInv)'
  BY <1>0, WaitingOn, NoticedStays
<1>3. WaitingInv /\ NoticedInv => Found
  <2> SUFFICES ASSUME WaitingInv, NoticedInv, NEW t \in Tasks, task[t].status = "queued"
               PROVE  \/ OnItsWay(t) \/ disp[t].phase \in InProgress \/ Stopping(t)
                      \/ generation[t] \in obsolete
                      \/ observed <= generation[t] /\ generation[t] < epoch
    OBVIOUS
  <2>1. Noticed(t) /\ (Threatened(t) => StopCovers(t))
    BY DEF NoticedInv, Queued, OnTheWay
  <2>2. t \in revoked => Stopping(t)
    BY <2>1 DEF Threatened, StopCovers, Stopping, WaitingInv
  <2>3. <<t, 0>> \in broker => OnItsWay(t)
    <3>1. <<t, 0>>[1] = t
      OBVIOUS
    <3> QED BY <3>1 DEF OnItsWay, Messages
  <2> QED BY <2>1, <2>2, <2>3 DEF Noticed
<1> QED BY <1>1, <1>2, <1>3, RecoveryInductive, PTL DEF RecoverySpec
=============================================================================
