---------------------------- MODULE TaskPipeline ----------------------------
(***************************************************************************)
(* The task pipeline of one run: trigger requests (DispatchCAS), worker    *)
(* processes (WorkerDelivery), beat reconciler passes (DispatchReconciler) *)
(* and user control (RunControl), interleaved at every statement and       *)
(* broker call over the store they share (PipelineStore).                  *)
(***************************************************************************)
EXTENDS DispatchCAS, WorkerDelivery, DispatchReconciler, RunControl

CONSTANT UserActions  \* what users do to the run beside triggering

ControlKinds == {"stop", "resume", "restart", "back", "approve"}

ASSUME UserActionsAssumption == UserActions \subseteq ControlKinds

vars == <<run, task, quota, broker, revoked, disp, wk, rec, stop>>

TypeOK ==
  StoreTypeOK /\ DispTypeOK /\ WorkerTypeOK /\ RecTypeOK /\ StopTypeOK

Init == StoreInit /\ DispInit /\ WorkerInit /\ RecInit /\ StopInit

-----------------------------------------------------------------------------
(* The thresholds of the reconciler's listings and of its lease exceed the *)
(* time live work takes (120s for a pending row, 900s against a hard limit *)
(* of 660s for a running one, 300s for a cleanup), unless that work is     *)
(* slow: then a row looks overdue at any time.                             *)

Working(t) ==
  \E w \in Workers : /\ wk[w].phase \in ClaimPhases \cup {"signal"}
                     /\ wk[w].task = t
                     /\ task[t].token = w

UnderCleanup(t) ==
  \E r \in Reconcilers : /\ rec[r].phase = "cleanup"
                         /\ rec[r].task = t
                         /\ task[t].token = r

Slow == "slow" \in Faults

PendingOverdue(t) == Slow \/ disp[t].phase \notin InProgress
RunningOverdue(t) == Slow \/ ~Working(t)
LeaseExpired(t) ==
  Slow \/ task[t].code # "cleanup_claimed" \/ ~UnderCleanup(t)

Find(r, t) ==
  \/ PendingOverdue(t) /\ FindStalePending(r, t)
  \/ RunningOverdue(t) /\ FindStuck(r, t)
  \/ LeaseExpired(t) /\ FindUnfinishedCleanup(r, t)

Reconcile(r) ==
  \/ Mark(r) \/ CleanupOne(r) \/ EndCleanup(r)
  \/ rec[r].phase = "lease" /\ LeaseExpired(rec[r].task) /\ TakeLease(r)

-----------------------------------------------------------------------------
(* User control. *)

Stop    == "stop" \in UserActions /\ StopRun
Resume  == "resume" \in UserActions /\ ResumeRun
Back    == "back" \in UserActions /\ GoBack
Approval == "approve" \in UserActions /\ Approve
Restart == \E stage \in RunStages :
             "restart" \in UserActions /\ RestartRun(stage)

-----------------------------------------------------------------------------

DispatcherNext == DispatchNext /\ UNCHANGED <<wk, rec, stop>>

DelivererNext == WorkerNext /\ UNCHANGED <<disp, rec, stop>>

ReconcilerNext ==
  /\ \E r \in Reconcilers : \/ \E t \in Tasks : Find(r, t)
                            \/ Reconcile(r)
                            \/ ReconcilerFault(r)
  /\ UNCHANGED <<disp, wk, stop>>

ControlNext ==
  /\ \/ Stop \/ Resume \/ Restart \/ Back \/ Approval
     \/ StopStep \/ StopAborts
     \/ \E t \in Tasks : BroadcastFails(t)
  /\ UNCHANGED <<disp, wk, rec>>

Next == DispatcherNext \/ DelivererNext \/ ReconcilerNext \/ ControlNext

Spec == Init /\ [][Next]_vars

(***************************************************************************)
(* A request, a delivery and a reconciler pass run on until they end or    *)
(* fail; an idle worker takes a message when there is one; beat starts     *)
(* passes for ever.  Users, faults and kills are under no obligation.      *)
(***************************************************************************)
Take(w) == \E m \in broker : Deliver(w, m)

Fairness ==
  /\ \A t \in Tasks :
       WF_vars(DispatchStep(t) /\ UNCHANGED <<wk, rec, stop>>)
  /\ \A w \in Workers :
       WF_vars((DeliveryStep(w) \/ Take(w)) /\ UNCHANGED <<disp, rec, stop>>)
  /\ \A r \in Reconcilers :
       WF_vars((Reconcile(r) \/ \E t \in Tasks : Find(r, t))
               /\ UNCHANGED <<disp, wk, stop>>)
  /\ WF_vars(StopStep /\ UNCHANGED <<disp, wk, rec>>)

LiveSpec == Spec /\ Fairness

=============================================================================
