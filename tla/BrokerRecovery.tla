--------------------------- MODULE BrokerRecovery ---------------------------
(***************************************************************************)
(* The loss of the broker's storage and the recovery from it               *)
(* (creator_service/broker_recovery.py, the first half of every beat pass  *)
(* in tasks/reconcile_stale_dispatches.py), composed with the whole task   *)
(* pipeline.                                                               *)
(*                                                                         *)
(* Redis keeps an epoch, created anew with an empty storage; every row     *)
(* keeps the epoch its dispatch read before it published (its broker       *)
(* generation); the database keeps the epoch last observed and the         *)
(* generations whose rows are still to be failed.  Epochs are numbered.    *)
(*                                                                         *)
(* pass[p] is one recovery pass; every read of Redis and every statement   *)
(* is an action, so that dispatches, deliveries, reconcilers and other     *)
(* passes run in between.                                                  *)
(***************************************************************************)
EXTENDS PipelineProperties

CONSTANTS
  Recoverers,  \* beat passes that may overlap
  MaxEpoch,    \* bound: the broker's storage is lost MaxEpoch - 1 times
  Observed0    \* what creator_broker_state holds at the start, 0 for no row

ASSUME RecoveryAssumption == MaxEpoch \in Nat \ {0} /\ Observed0 \in {0, 1}

VARIABLES
  epoch,       \* queue:recovery_epoch in Redis
  generation,  \* broker_generation of the rows, as read by their dispatch
  observed,    \* creator_broker_state.epoch, 0 when there is none
  obsolete,    \* creator_broker_cleanup_generations
  pass

recoveryVars == <<epoch, generation, observed, obsolete, pass>>
allVars == <<vars, recoveryVars>>

Epochs == 1 .. MaxEpoch

PassPhases == {"idle", "snapshot", "confirmed", "observed", "list", "next",
               "rollback", "cancel", "final"}

IdlePass == [phase |-> "idle", epoch |-> 0, evidence |-> FALSE, seen |-> {},
             durable |-> 0, obsolete |-> {}, todo |-> {}, task |-> NoToken,
             died |-> FALSE]

RecoveryTypeOK ==
  /\ epoch \in Epochs
  /\ generation \in [Tasks -> 0 .. MaxEpoch]
  /\ observed \in 0 .. MaxEpoch
  /\ obsolete \subseteq Epochs
  /\ pass \in [Recoverers ->
       [phase : PassPhases, epoch : 0 .. MaxEpoch, evidence : BOOLEAN,
        seen : SUBSET Epochs, durable : 0 .. MaxEpoch,
        obsolete : SUBSET Epochs, todo : SUBSET Tasks,
        task : Tasks \cup {NoToken}, died : BOOLEAN]]

(* An earlier pass has left the first epoch in the DLQ volume's file, if   *)
(* not in the database.                                                    *)
Witness == 1

RecoveryInit ==
  /\ epoch = Witness /\ observed = Observed0 /\ obsolete = {}
  /\ generation = [t \in Tasks |-> 0]
  /\ pass = [p \in Recoverers |-> IdlePass]

To(p, phase) == pass' = [pass EXCEPT ![p].phase = phase]
Rest(p) == pass' = [pass EXCEPT ![p] = [IdlePass EXCEPT !.died = pass[p].died]]

-----------------------------------------------------------------------------
(* The broker. *)

(* The storage is replaced by an empty one; what the workers hold is not   *)
(* lost with it.                                                           *)
LoseBroker ==
  /\ epoch < MaxEpoch
  /\ epoch' = epoch + 1
  /\ broker' = {}
  /\ UNCHANGED <<run, task, quota, revoked, disp, wk, rec, stop,
                 generation, observed, obsolete, pass>>

(* A step of the pipeline: a dispatch reads the epoch with its reservation *)
(* and promotes its row only if it reads the same one after publishing.    *)
PipelineStep ==
  /\ Next
  /\ generation' = [t \in Tasks |->
       IF disp'[t].phase = "reserved" /\ disp[t].phase = "new"
       THEN epoch ELSE generation[t]]
  /\ \A t \in Tasks :
       disp[t].phase = "enqueued" /\ disp'[t].phase = "promoted"
         => generation[t] = epoch
  /\ UNCHANGED <<epoch, observed, obsolete, pass>>

(* The dispatch finds another epoch than the one its row was given.        *)
FindOtherGeneration(t) ==
  /\ disp[t].phase = "enqueued"
  /\ generation[t] # epoch
  /\ Compensate(t, AfterUncertainty)
  /\ UNCHANGED <<storeVars, wk, rec, stop, recoveryVars>>

-----------------------------------------------------------------------------
(* A pass gathers its evidence. *)

QueuesEmpty == \A m \in broker : InFlight(m)
WorkersOnline == \E w \in Workers : wk[w].phase # "down"

(* ensure_broker_epoch, llen of the routed queues, inspect ping and        *)
(* list_broker_recovery_tasks *)
TakeSnapshot(p) ==
  /\ pass[p].phase = "idle"
  /\ pass' = [pass EXCEPT ![p] =
       [@ EXCEPT !.phase = "snapshot", !.epoch = epoch,
          !.evidence = QueuesEmpty /\ WorkersOnline,
          !.seen = {generation[t] : t \in ActiveTasks} \ {0}]]
  /\ UNCHANGED <<vars, epoch, generation, observed, obsolete>>

(* The confirming read: a pass that straddles a loss is deferred. *)
Confirm(p) ==
  /\ pass[p].phase = "snapshot"
  /\ IF epoch = pass[p].epoch THEN To(p, "confirmed") ELSE Rest(p)
  /\ UNCHANGED <<vars, epoch, generation, observed, obsolete>>

(* Legacy rows adopt the first epoch the database observes. *)
Adopted(e) == [t \in Tasks |->
                IF generation[t] = 0 /\ t \in ActiveTasks THEN e
                ELSE generation[t]]

(* get_observed_broker_epoch, initialized from the file when it is empty.  *)
ReadObserved(p) ==
  /\ pass[p].phase = "confirmed"
  /\ IF observed = 0
     THEN observed' = Witness /\ generation' = Adopted(Witness)
     ELSE UNCHANGED <<observed, generation>>
  /\ pass' = [pass EXCEPT ![p].phase = "observed", ![p].durable = observed']
  /\ UNCHANGED <<vars, epoch, obsolete>>

(* Mutant: the generation in use is not taken out. *)
ReplacedGenerationsAll(p) == pass[p].seen \cup {pass[p].durable}

ReplacedGenerations(p) ==
  (pass[p].seen \cup {pass[p].durable}) \ {pass[p].epoch}

(* Mutant: the epoch is stored without the generations it replaces. *)
StoreEpochAlone(p) ==
  /\ observed' = pass[p].epoch
  /\ UNCHANGED <<generation, obsolete>>

(* set_observed_broker_epoch: a compare-and-set, with the generations that *)
(* become obsolete in the same transaction.                                *)
StoreEpoch(p) ==
  /\ observed' = pass[p].epoch
  /\ IF pass[p].durable = 0
     THEN generation' = Adopted(pass[p].epoch) /\ UNCHANGED obsolete
     ELSE /\ obsolete' = IF pass[p].epoch = pass[p].durable THEN obsolete
                         ELSE obsolete \cup ReplacedGenerations(p)
          /\ UNCHANGED generation

(* Without complete evidence a replaced epoch is left for a later pass.    *)
Persist(p) ==
  /\ pass[p].phase = "observed"
  /\ LET replaced == pass[p].durable \notin {0, pass[p].epoch}
         stored == /\ observed = pass[p].durable
                   /\ replaced => pass[p].evidence
     IN /\ IF stored THEN StoreEpoch(p)
           ELSE UNCHANGED <<observed, obsolete, generation>>
        /\ IF stored /\ pass[p].evidence THEN To(p, "list") ELSE Rest(p)
  /\ UNCHANGED <<vars, epoch>>

-----------------------------------------------------------------------------
(* A pass fails the lost rows (recover_lost_tasks). *)

(* Mutant: the rows the other listings list. *)
ListLostUnqueued(p) ==
  /\ pass[p].phase = "list"
  /\ pass' = [pass EXCEPT ![p].phase = "next", ![p].obsolete = obsolete,
                ![p].todo = {t \in ActiveTasks : /\ generation[t] \in obsolete
                                                /\ task[t].status # "queued"}]
  /\ UNCHANGED <<vars, epoch, generation, observed, obsolete>>

ListLost(p) ==
  /\ pass[p].phase = "list"
  /\ pass' = [pass EXCEPT ![p].phase = "next", ![p].obsolete = obsolete,
                ![p].todo = {t \in ActiveTasks : generation[t] \in obsolete}]
  /\ UNCHANGED <<vars, epoch, generation, observed, obsolete>>

(* mark_failed_if_active *)
Fenced(row) ==
  [row EXCEPT !.status = "failed", !.token = NoToken,
              !.code = "recovery_cleanup"]

FenceLost(p, t) ==
  /\ pass[p].phase = "next"
  /\ t \in pass[p].todo
  /\ task' = [task EXCEPT ![t] = IF t \in ActiveTasks THEN Fenced(@) ELSE @]
  /\ pass' = [pass EXCEPT ![p].todo = @ \ {t},
                ![p].phase = IF t \in ActiveTasks THEN "rollback" ELSE "next",
                ![p].task = IF t \in ActiveTasks THEN t ELSE NoToken]
  /\ UNCHANGED <<run, quota, broker, revoked, disp, wk, rec, stop,
                 epoch, generation, observed, obsolete>>

Compensated(p) ==
  pass' = [pass EXCEPT ![p].phase = "next", ![p].task = NoToken]

RollbackLost(p) ==
  /\ pass[p].phase = "rollback"
  /\ run' = RunRolledBack(pass[p].task)
  /\ To(p, "cancel")
  /\ UNCHANGED <<task, quota, broker, revoked, disp, wk, rec, stop,
                 epoch, generation, observed, obsolete>>

CancelLost(p) ==
  /\ pass[p].phase = "cancel"
  /\ quota' = [quota EXCEPT ![pass[p].task] = QuotaCancelled(@)]
  /\ To(p, "final")
  /\ UNCHANGED <<run, task, broker, revoked, disp, wk, rec, stop,
                 epoch, generation, observed, obsolete>>

(* mark_failed looks at nothing but success. *)
FinishLost(p) ==
  /\ pass[p].phase = "final"
  /\ task' = [task EXCEPT ![pass[p].task] =
                IF @.status = "success" THEN @
                ELSE [@ EXCEPT !.status = "failed", !.code = "message_lost",
                               !.saved = "none"]]
  /\ Compensated(p)
  /\ UNCHANGED <<run, quota, broker, revoked, disp, wk, rec, stop,
                 epoch, generation, observed, obsolete>>

(* Mutant: after a failed compensation the row is final all the same. *)
CompensationFailsUnnoticed(p) ==
  /\ Faults \cap {"db", "cleanup"} # {}
  /\ pass[p].phase \in {"rollback", "cancel", "final"}
  /\ To(p, "final")
  /\ UNCHANGED <<vars, epoch, generation, observed, obsolete>>

(* A compensation raises: the row keeps its marker and the pass goes on    *)
(* with the next one.                                                      *)
CompensationFails(p) ==
  /\ Faults \cap {"db", "cleanup"} # {}
  /\ pass[p].phase \in {"rollback", "cancel", "final"}
  /\ Compensated(p)
  /\ UNCHANGED <<vars, epoch, generation, observed, obsolete>>

(* complete_broker_cleanup of each generation listed: it stays while it    *)
(* has active rows.                                                        *)
CompleteCleanup(p) ==
  /\ pass[p].phase = "next"
  /\ pass[p].todo = {}
  /\ obsolete' = obsolete \ {g \in pass[p].obsolete :
                               \A t \in ActiveTasks : generation[t] # g}
  /\ Rest(p)
  /\ UNCHANGED <<vars, epoch, generation, observed>>

(* The process dies, or a read of the evidence raises (bound: once).       *)
PassEnds(p) ==
  /\ "cleanup" \in Faults
  /\ pass[p].phase # "idle"
  /\ ~pass[p].died
  /\ pass' = [pass EXCEPT ![p] = [IdlePass EXCEPT !.died = TRUE]]
  /\ UNCHANGED <<vars, epoch, generation, observed, obsolete>>

PassStep(p) ==
  \/ TakeSnapshot(p) \/ Confirm(p) \/ ReadObserved(p) \/ Persist(p)
  \/ ListLost(p) \/ (\E t \in Tasks : FenceLost(p, t))
  \/ RollbackLost(p) \/ CancelLost(p) \/ FinishLost(p) \/ CompleteCleanup(p)

RecoveryInitAll == Init /\ RecoveryInit

RecoveryNext ==
  \/ PipelineStep
  \/ LoseBroker
  \/ \E t \in Tasks : FindOtherGeneration(t)
  \/ \E p \in Recoverers : PassStep(p) \/ CompensationFails(p) \/ PassEnds(p)

RecoverySpec == RecoveryInitAll /\ [][RecoveryNext]_allVars

(* As for the pipeline; beat starts recovery passes for ever too.          *)
RecoveryFairness ==
  /\ \A t \in Tasks :
       /\ WF_allVars(DispatchStep(t) /\ PipelineStep)
       /\ WF_allVars(FindOtherGeneration(t))
  /\ \A w \in Workers :
       WF_allVars((DeliveryStep(w) \/ Take(w)) /\ PipelineStep)
  /\ \A r \in Reconcilers :
       WF_allVars((Reconcile(r) \/ \E t \in Tasks : Find(r, t)) /\ PipelineStep)
  /\ \A p \in Recoverers : WF_allVars(PassStep(p))

RecoveryLiveSpec == RecoverySpec /\ RecoveryFairness

-----------------------------------------------------------------------------
(* Properties. *)

(* A queued row whose message went down with the broker is never           *)
(* overlooked: somebody still carries it, or recovery has its generation   *)
(* on the list or is going to find that it was replaced.  No other listing *)
(* has queued rows.  Kept as long as no time limit and no shutting worker  *)
(* takes the message of a row that is not claimed: the broker is the       *)
(* present one, and recovery does not look at the row either.              *)
QueuedIsRecoverable ==
  \A t \in Tasks :
    task[t].status = "queued" =>
      \/ OnItsWay(t) \/ disp[t].phase \in InProgress
      \/ generation[t] \in obsolete
      \/ observed <= generation[t] /\ generation[t] < epoch

(* docs/QUEUE_DURABILITY.md:34-35: "post-epoch manual retries owned by the *)
(* current generation are untouched".  Kept as long as passes do not       *)
(* overlap: a pass that took its evidence before the loss and reads the    *)
(* database after another pass has stored the new epoch sets it back.      *)
CurrentGenerationUntouched ==
  [][\A t \in Tasks :
       /\ task'[t].code = "recovery_cleanup"
       /\ task[t].status \in ActiveStatuses
       => generation[t] # epoch]_allVars

(* Every dispatched task comes to rest although the broker forgets it.     *)
LostWorkSettles ==
  \A t \in Tasks : task[t].status \in ActiveStatuses
                     ~> task[t].status \notin ActiveStatuses

=============================================================================
