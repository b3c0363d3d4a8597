---------------------------- MODULE DispatchCAS ----------------------------
(***************************************************************************)
(* A trigger route and the dispatch it calls                               *)
(* (creator_service/dispatch_cas.py, cas_dispatch_with_rollback): reserve  *)
(* quota, move the run and insert the pending row in one transaction,      *)
(* publish the message, check that the broker is still the same one,       *)
(* promote the row, look at the run again.  Whatever fails after the       *)
(* transaction is compensated step by step, each step best effort.         *)
(*                                                                         *)
(* disp[t] is the request that dispatches t; every statement, broker call  *)
(* and read of another actor's state is an action, so that the workers,    *)
(* the reconcilers and other requests run in between.                      *)
(***************************************************************************)
EXTENDS PipelineStore, Sequences

VARIABLE disp

UndoSteps == {"revoke", "row", "quota", "stage"}

DispPhases == {"new", "reserved", "recorded", "enqueued", "promoted",
               "undo", "accepted", "refused", "crashed"}

InProgress == {"reserved", "recorded", "enqueued", "promoted", "undo"}

NotDispatched == [phase |-> "new", kind |-> "none", from |-> "none",
                  todo |-> <<>>]

(* The compensations of cas_dispatch_with_rollback, in their order. *)
AfterEnqueueError == <<"quota", "stage">>
AfterUncertainty  == <<"revoke", "row", "quota", "stage">>
AfterCancellation == <<"revoke", "row", "stage", "quota">>

DispTypeOK ==
  /\ disp \in [Tasks -> [phase : DispPhases, kind : {"none"} \cup Kinds,
                         from : {"none"} \cup RunStages,
                         todo : Seq(UndoSteps)]]
  /\ \A t \in Tasks : disp[t].phase # "new"
                        => disp[t].kind \in Kinds /\ disp[t].from \in RunStages

DispInit == disp = [t \in Tasks |-> NotDispatched]

Goto(t, phase) == disp' = [disp EXCEPT ![t].phase = phase]

Compensate(t, plan) ==
  disp' = [disp EXCEPT ![t].phase = "undo", ![t].todo = plan]

(* The route reads the run, refuses a second generation, and the dispatch  *)
(* reserves quota under the id it has just drawn.                          *)
Trigger(t, kind) ==
  /\ disp[t].phase = "new"
  /\ run.stage \in TriggerStages[kind]
  /\ run.stage = TargetStage[kind] => ActiveTasks = {}
  /\ run.status # "cancelled"
  /\ quota' = [quota EXCEPT ![t] = Reserved(@)]
  /\ disp' = [disp EXCEPT ![t] = [phase |-> "reserved", kind |-> kind,
                                  from |-> run.stage, todo |-> <<>>]]
  /\ UNCHANGED <<run, task, broker, revoked>>

BrokerUnreadable(t) ==
  /\ "broker" \in Faults
  /\ disp[t].phase = "reserved"
  /\ quota' = [quota EXCEPT ![t] = QuotaCancelled(@)]
  /\ Goto(t, "refused")
  /\ UNCHANGED <<run, task, broker, revoked>>

MayTransition(kind) ==
  run.stage \in TriggerStages[kind] /\ run.status # "cancelled"

(* transition_run_and_create_pending: the stage CAS and the insert. *)
RecordPending(t) ==
  /\ disp[t].phase = "reserved"
  /\ MayTransition(disp[t].kind)
  /\ run' = [run EXCEPT !.stage = TargetStage[disp[t].kind]]
  /\ task' = [task EXCEPT ![t] = PendingRow(disp[t].kind, NextSeq)]
  /\ Goto(t, "recorded")
  /\ UNCHANGED <<quota, broker, revoked>>

RecordConflict(t) ==
  /\ disp[t].phase = "reserved"
  /\ ~MayTransition(disp[t].kind) \/ "db" \in Faults
  /\ quota' = [quota EXCEPT ![t] = QuotaCancelled(@)]
  /\ Goto(t, "refused")
  /\ UNCHANGED <<run, task, broker, revoked>>

Enqueue(t) ==
  /\ disp[t].phase = "recorded"
  /\ broker' = broker \cup {<<t, 0>>}
  /\ Goto(t, "enqueued")
  /\ UNCHANGED <<run, task, quota, revoked>>

(* The publish raises; it may have reached the broker all the same. *)
EnqueueFails(t) ==
  /\ "broker" \in Faults
  /\ disp[t].phase = "recorded"
  /\ broker' \in {broker, broker \cup {<<t, 0>>}}
  /\ Compensate(t, AfterEnqueueError)
  /\ UNCHANGED <<run, task, quota, revoked>>

(* The generation read after the publish differs, or cannot be read. *)
GenerationChanged(t) ==
  /\ "broker" \in Faults
  /\ disp[t].phase = "enqueued"
  /\ Compensate(t, AfterUncertainty)
  /\ UNCHANGED storeVars

Promote(t) ==
  /\ disp[t].phase = "enqueued"
  /\ task' = [task EXCEPT ![t] = PromotedToQueued(@)]
  /\ Goto(t, "promoted")
  /\ UNCHANGED <<run, quota, broker, revoked>>

PromoteFails(t) ==
  /\ "db" \in Faults
  /\ disp[t].phase = "enqueued"
  /\ Compensate(t, AfterUncertainty)
  /\ UNCHANGED storeVars

Accept(t) ==
  /\ disp[t].phase = "promoted"
  /\ run.status # "cancelled"
  /\ Goto(t, "accepted")
  /\ UNCHANGED storeVars

FoundCancelled(t) ==
  /\ disp[t].phase = "promoted"
  /\ run.status = "cancelled" \/ "db" \in Faults
  /\ Compensate(t, AfterCancellation)
  /\ UNCHANGED storeVars

-----------------------------------------------------------------------------
(* Compensation. *)

(* StageRollback.apply: fenced by the stage alone. *)
StageRolledBack(t) ==
  IF run.stage = TargetStage[disp[t].kind]
  THEN [run EXCEPT !.stage = disp[t].from] ELSE run

NextUndo(t) == disp' = [disp EXCEPT ![t].todo = Tail(@)]

UndoOne(t) ==
  /\ disp[t].phase = "undo"
  /\ disp[t].todo # <<>>
  /\ LET step == Head(disp[t].todo) IN
       /\ run'   = IF step = "stage" THEN StageRolledBack(t) ELSE run
       /\ task'  = IF step = "row"
                   THEN [task EXCEPT ![t] = MarkedRevoked(@)] ELSE task
       /\ quota' = IF step = "quota"
                   THEN [quota EXCEPT ![t] = QuotaCancelled(@)] ELSE quota
       /\ revoked' = IF step = "revoke" THEN revoked \cup {t} ELSE revoked
  /\ NextUndo(t)
  /\ UNCHANGED broker

UndoFails(t) ==
  /\ disp[t].phase = "undo"
  /\ disp[t].todo # <<>>
  /\ \/ "db" \in Faults /\ Head(disp[t].todo) # "revoke"
     \/ "broker" \in Faults /\ Head(disp[t].todo) = "revoke"
  /\ NextUndo(t)
  /\ UNCHANGED storeVars

UndoDone(t) ==
  /\ disp[t].phase = "undo"
  /\ disp[t].todo = <<>>
  /\ Goto(t, "refused")
  /\ UNCHANGED storeVars

DispatchCrash(t) ==
  /\ "api" \in Faults
  /\ disp[t].phase \in InProgress
  /\ Goto(t, "crashed")
  /\ UNCHANGED storeVars

DispatchStep(t) ==
  \/ RecordPending(t) \/ RecordConflict(t) \/ Enqueue(t) \/ Promote(t)
  \/ Accept(t) \/ FoundCancelled(t) \/ UndoOne(t) \/ UndoDone(t)

DispatchFault(t) ==
  \/ BrokerUnreadable(t) \/ EnqueueFails(t) \/ GenerationChanged(t)
  \/ PromoteFails(t) \/ UndoFails(t) \/ DispatchCrash(t)

DispatchNext ==
  \E t \in Tasks : \/ \E kind \in Kinds : Trigger(t, kind)
                   \/ DispatchStep(t)
                   \/ DispatchFault(t)

=============================================================================
