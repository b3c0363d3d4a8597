--------------------------- MODULE PipelineStore ---------------------------
(***************************************************************************)
(* What the API, the workers and the beat reconciler share about one       *)
(* pipeline run: its database rows and the Celery broker.                  *)
(*                                                                         *)
(* A task is named by its Celery id, which its dispatch draws before       *)
(* anything is stored and which also owns its quota reservation; the id    *)
(* order of the rows (creator_run_tasks.id) is their field seq.            *)
(*                                                                         *)
(* Narration (generate_audio) is modelled where one call of the provider   *)
(* speaks the whole script; rendering is in MediaLibrary, scene images are *)
(* in SceneBatch.                                                          *)
(***************************************************************************)
EXTENDS TaskRecords, FiniteSets

CONSTANTS
  Tasks,        \* Celery ids of the dispatches that may happen
  Workers,      \* worker processes (host and pid: a restart is another one)
  Mortal,       \* the workers that may be lost
  Reconcilers,  \* overlapping beat deliveries of the reconciler
  Kinds,        \* the task kinds dispatched
  InitialStage, \* the stage the run has reached when the model starts
  Faults        \* which faults happen, see FaultKinds

FaultKinds ==
  {"api",        \* an API process dies in a dispatch
   "stop",       \* an API process dies while stopping a run
   "worker",     \* a worker process is lost
   "reconciler", \* a reconciler dies in a cleanup
   "db",         \* a statement fails
   "cleanup",    \* a statement of a reconciler or recovery pass fails
   "broker",     \* the broker fails or changes generation in a dispatch
   "provider",   \* a provider call fails
   "timeout",    \* a task runs into its soft or hard time limit
   "terminate",  \* a revoke kills the process that runs the task
   "duplicate",  \* a message is delivered while a live worker has it
   "slow",       \* live work is old enough to look stale or stuck
   "shutdown"}   \* a worker in graceful shutdown is handed a message

ASSUME StoreAssumption ==
  /\ Workers \cap Reconcilers = {}
  /\ NoToken \notin Workers \cup Reconcilers
  /\ Mortal \subseteq Workers
  /\ Kinds \subseteq {"generate_script", "generate_visual_plan",
                      "generate_audio", "generate_subtitles"}
  /\ InitialStage \in RunStages
  /\ Faults \subseteq FaultKinds
  /\ IsFiniteSet(Tasks)

VARIABLES
  run,      \* the run's row
  task,     \* task[t]: the row of t
  quota,    \* quota[t]: the reservation t owns
  broker,   \* messages <<t, k>>: t is to be delivered for its k-th retry
  revoked   \* the ids whose revocation was broadcast to the workers

storeVars == <<run, task, quota, broker, revoked>>

Rows == [kind : {"none"} \cup Kinds, status : TaskStatuses,
         token : {NoToken} \cup Workers \cup Reconcilers,
         code : ErrorCodes, saved : {"none"} \cup CleanupMarkers,
         seq : 0 .. Cardinality(Tasks)]

StoreTypeOK ==
  /\ run \in [stage : RunStages, status : RunStatuses]
  /\ task \in [Tasks -> Rows]
  /\ \A t \in Tasks : task[t].status # "none" => task[t].kind \in Kinds
  /\ quota \in [Tasks -> [status : QuotaStatuses,
                          attempt : [Attempts -> AttemptStates]]]
  /\ broker \subseteq Tasks \X Attempts
  /\ revoked \subseteq Tasks

StoreInit ==
  /\ run = [stage  |-> InitialStage,
            status |-> IF InitialStage = "IDEA_READY"
                       THEN "pending" ELSE "paused"]
  /\ task = [t \in Tasks |-> NoRow]
  /\ quota = [t \in Tasks |-> NoQuota]
  /\ broker = {}
  /\ revoked = {}

(* get_active_celery_ids *)
ActiveTasks == {t \in Tasks : task[t].status \in ActiveStatuses}

(* The id the next inserted row gets. *)
NextSeq == Cardinality({t \in Tasks : task[t].status # "none"}) + 1

(* rollback_run_if_task_owner: the run was dispatched again since t. *)
HasNewerTask(t) ==
  \E u \in Tasks : /\ task[u].kind = task[t].kind
                   /\ task[u].seq > task[t].seq
                   /\ task[u].status \in ActiveStatuses \cup {"success"}

Messages(t) == {m \in broker : m[1] = t}

=============================================================================
