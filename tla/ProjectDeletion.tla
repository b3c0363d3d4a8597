-------------------------- MODULE ProjectDeletion --------------------------
(***************************************************************************)
(* One project, its runs and the requests that delete them: DELETE of a    *)
(* run and DELETE of the project walk through the same phases, each a      *)
(* transaction or a call of its own, while runs are created, resumed and   *)
(* worked on.                                                              *)
(***************************************************************************)
EXTENDS RunArtifacts

VARIABLES
  project,  \* "draft", "deleting" or "gone"
  deleter,  \* the DELETE request in progress
  creator,  \* a POST of a run that read the project
  underway, \* history: Run -> tasks at work when a deletion collected them
  resumed   \* history: runs resumed in the middle of a deletion or after one
            \* that has left rows to delete

deletionOnly == <<project, deleter, creator, underway, resumed>>
deletionVars == <<artifactVars, deletionOnly>>

Resting == [phase |-> "idle", whole |-> FALSE, runs |-> {}, todo |-> {}, at |-> Nothing,
            list |-> {}, done |-> {}, left |-> FALSE, failed |-> FALSE]

DeletionInit ==
  /\ ArtifactsInit /\ project = "draft" /\ deleter = Resting /\ creator = FALSE
  /\ underway = [r \in Runs |-> {}] /\ resumed = {}

ToDeleter(phase) == deleter' = [deleter EXCEPT !.phase = phase]
ForEachRun(phase) == deleter' = [deleter EXCEPT !.phase = phase, !.todo = deleter.runs]
Refused == deleter' = Resting

(* The barrier comes first, then the list of the runs.                     *)
MarkDeleting ==
  /\ deleter = Resting /\ project # "gone" /\ project' = "deleting"
  /\ deleter' = [Resting EXCEPT !.phase = "list", !.whole = TRUE]
  /\ UNCHANGED <<artifactVars, creator, underway, resumed>>

ListRuns ==
  LET present == {r \in Runs : run[r].row}
  IN  /\ deleter.phase = "list"
      /\ deleter' = [deleter EXCEPT !.phase = "cancel", !.runs = present, !.todo = present]
      /\ UNCHANGED <<artifactVars, project, creator, underway, resumed>>

DeleteRun(r) ==
  /\ deleter = Resting /\ run[r].row
  /\ deleter' = [Resting EXCEPT !.phase = "cancel", !.runs = {r}, !.todo = {r}]
  /\ UNCHANGED <<artifactVars, project, creator, underway, resumed>>

\* cancel_run: every run is cancelled before the first task is revoked; a
\* failure ends the request.
CancelRun ==
  /\ deleter.phase = "cancel"
  /\ IF deleter.todo = {} THEN ForEachRun("revoke") /\ UNCHANGED run
     ELSE \/ Refused /\ UNCHANGED run
          \/ \E r \in deleter.todo :
               /\ run' = [run EXCEPT ![r].status = "cancelled"]
               /\ deleter' = [deleter EXCEPT !.todo = @ \ {r}]
  /\ UNCHANGED <<task, files, rows, request, sweeper, project, creator, underway, resumed>>

Owed(r) == {t \in Tasks : task[t].run = r /\ task[t].row \in Active}

\* _collect_active_celery_ids and _revoke_celery_ids.  A worker that is at
\* work goes on until the signal reaches it.
RevokeTasks ==
  /\ deleter.phase = "revoke"
  /\ IF deleter.todo = {} THEN ForEachRun("rows") /\ UNCHANGED <<task, underway>>
     ELSE \E r \in deleter.todo :
       \/ /\ task' = [t \in Tasks |-> IF t \in Owed(r) THEN Revoked(task[t]) ELSE task[t]]
          /\ underway' = [underway EXCEPT ![r] =
                           {t \in Tasks : task[t].run = r /\ task[t].phase # "off"}]
          /\ deleter' = [deleter EXCEPT !.todo = @ \ {r}]
       \/ /\ \E some \in SUBSET Owed(r) :
               task' = [t \in Tasks |-> IF t \in some THEN Revoked(task[t]) ELSE task[t]]
          /\ Refused /\ UNCHANGED underway
  /\ UNCHANGED <<run, files, rows, request, sweeper, project, creator, resumed>>

(* delete_artifacts_for_run.  Ids are not used again; here one may be, for *)
(* another key, and a row is known by both.                                *)
Known(a) == <<a.id, a.idem>>
NextRun ==
  /\ deleter.phase = "rows"
  /\ IF deleter.todo = {}
     THEN IF deleter.failed THEN Refused ELSE ToDeleter("delete")
     ELSE \E r \in deleter.todo :
            deleter' = [deleter EXCEPT !.phase = "mark", !.at = r, !.todo = @ \ {r},
                          !.list = {a \in rows : a.run = r}, !.done = {}, !.left = FALSE]
  /\ UNCHANGED <<artifactVars, project, creator, underway, resumed>>

RequestDeletion ==
  /\ deleter.phase = "mark" /\ ToDeleter("objects")
  /\ rows' = {[a EXCEPT !.wanted = @ \/ a.run = deleter.at] : a \in rows}
  /\ UNCHANGED <<run, task, files, request, sweeper, project, creator, underway, resumed>>

DeleteArtifact ==
  /\ deleter.phase = "objects"
  /\ IF deleter.list = {} THEN ToDeleter("drop") /\ UNCHANGED <<files, rows>>
     ELSE \E a \in deleter.list :
       \/ /\ files' = {f \in files : f.path # a.path} /\ UNCHANGED rows
          /\ deleter' = [deleter EXCEPT !.list = @ \ {a}, !.done = @ \cup {Known(a)}]
       \/ /\ StorageFaults /\ ~Locked({a.id}) /\ UNCHANGED files
          /\ rows' = {IF Known(b) = Known(a) THEN FailedOnce(b) ELSE b : b \in rows}
          /\ deleter' = [deleter EXCEPT !.list = @ \ {a}, !.left = TRUE, !.failed = TRUE]
  /\ UNCHANGED <<run, task, request, sweeper, project, creator, underway, resumed>>

\* The rows whose objects are gone, then the directory of the run.
DropRows ==
  /\ deleter.phase = "drop" /\ ~Locked({known[1] : known \in deleter.done})
  /\ rows' = {a \in rows : Known(a) \notin deleter.done}
  /\ deleter' = [deleter EXCEPT !.phase = IF deleter.left THEN "rows" ELSE "tree", !.done = {}]
  /\ UNCHANGED <<run, task, files, request, sweeper, project, creator, underway, resumed>>

DropDirectory ==
  /\ deleter.phase = "tree"
  /\ \/ ToDeleter("rows") /\ files' = {f \in files : f.path.run # deleter.at}
     \/ /\ StorageFaults /\ UNCHANGED files
        /\ deleter' = [deleter EXCEPT !.phase = "rows", !.failed = TRUE]
  /\ UNCHANGED <<run, task, rows, request, sweeper, project, creator, underway, resumed>>

\* DELETE of the run or of the project, with what the foreign keys cascade to.
DeleteRows ==
  LET lost == IF deleter.whole THEN {r \in Runs : run[r].row} ELSE deleter.runs
  IN  /\ deleter.phase = "delete" /\ ~Locked({a.id : a \in {b \in rows : b.run \in lost}})
      /\ run' = [r \in Runs |-> IF r \in lost THEN [run[r] EXCEPT !.row = FALSE] ELSE run[r]]
      /\ rows' = {a \in rows : a.run \notin lost}
      /\ task' = [t \in Tasks |-> IF task[t].run \in lost /\ task[t].row # "none"
                                  THEN [task[t] EXCEPT !.row = "deleted"] ELSE task[t]]
      /\ project' = IF deleter.whole THEN "gone" ELSE project
      /\ deleter' = Resting
      /\ UNCHANGED <<files, request, sweeper, creator, underway, resumed>>

\* The API's process dies.
DeletionStops ==
  /\ deleter # Resting /\ Refused
  /\ UNCHANGED <<artifactVars, project, creator, underway, resumed>>

DeleterStep ==
  \/ MarkDeleting \/ ListRuns \/ (\E r \in Runs : DeleteRun(r)) \/ CancelRun \/ RevokeTasks
  \/ NextRun \/ RequestDeletion \/ DeleteArtifact \/ DropRows \/ DropDirectory
  \/ DeleteRows \/ DeletionStops

(* POST of a run: the project is read first and locked by the INSERT.      *)
StartCreating ==
  /\ ~creator /\ project = "draft" /\ creator' = TRUE
  /\ UNCHANGED <<artifactVars, project, deleter, underway, resumed>>

CreateRunUnlocked ==
  /\ creator /\ creator' = FALSE
  /\ \E r \in Runs : run[r] = NoRun /\
       run' = [run EXCEPT ![r] = [row |-> TRUE, status |-> "pending", stage |-> "IDEA_READY"]]
  /\ UNCHANGED <<task, files, rows, request, sweeper, project, deleter, underway, resumed>>

CreateRun ==
  /\ creator /\ creator' = FALSE
  /\ \/ /\ project = "draft"
        /\ \E r \in Runs : run[r] = NoRun /\
             run' = [run EXCEPT ![r] = [row |-> TRUE, status |-> "pending", stage |-> "IDEA_READY"]]
     \/ (project # "draft" \/ \A r \in Runs : run[r] # NoRun) /\ UNCHANGED run
  /\ UNCHANGED <<task, files, rows, request, sweeper, project, deleter, underway, resumed>>

\* The rest of the pipeline brings a run to the storyboard.
Advance ==
  /\ \E r \in Runs, s \in FirstStages :
       /\ run[r].row /\ run[r].status # "cancelled" /\ run[r].stage = "IDEA_READY"
       /\ run' = [run EXCEPT ![r].stage = s, ![r].status = "running"]
  /\ UNCHANGED <<task, files, rows, request, sweeper, deletionOnly>>

ResumeRun ==
  /\ \E r \in Runs :
       /\ run[r].row /\ run[r].status = "cancelled"
       /\ run' = [run EXCEPT ![r].status = "running"] 
       /\ resumed' = IF deleter = Resting /\ ~\E a \in rows : a.run = r /\ Requested(a)
                     THEN resumed ELSE resumed \cup {r}
  /\ UNCHANGED <<task, files, rows, request, sweeper, project, deleter, creator, underway>>

DispatchStep == (RequestStep \/ \E t \in Tasks : WorkerStep(t)) /\ UNCHANGED deletionOnly
RetainedStep == (RetentionStep \/ \E t \in Tasks : WorkerStep(t)) /\ UNCHANGED deletionOnly
ArtifactStep == DispatchStep \/ RetainedStep
ProjectStep == DeleterStep \/ StartCreating \/ CreateRun \/ Advance \/ ResumeRun

DeletionNext == ArtifactStep \/ ProjectStep
DeletionSpec == DeletionInit /\ [][DeletionNext]_deletionVars

\* A file whose run is gone was written by a worker that was already at work
\* when the deletion collected the tasks of the run: cancelling comes before
\* collecting and listing, creation stops at the barrier, dispatch checks
\* the run before and after it publishes, and a worker before it starts.  A
\* user who resumes a run before its deletion is finished voids this.
OrphansAreLate ==
  \A f \in files :
    LET r == f.path.run
    IN  run[r].row \/ f.by[1] \in underway[r] \/ r \in resumed

\* Once the tasks of a run were revoked, a task that could still start is one
\* whose request has yet to see the cancellation or has lost its quota.
NoTaskSlipsThrough ==
  deleter.phase \in {"rows", "mark", "objects", "drop", "tree", "delete"} =>
    \A t \in Tasks :
      (/\ task[t].run \in deleter.runs \ resumed
       /\ task[t].row \in Active /\ task[t].message /\ task[t].phase = "off") =>
        (request.task = t /\ request.phase = "postcheck") \/ task[t].quota = "cancelled"

\* Rows go after their objects: the file a finished task published in a run
\* that exists is referred to, so that some pass can still delete it.
FilesHaveRows ==
  \A f \in files :
    LET t == f.by[1]
    IN  (/\ run[f.path.run].row /\ t \notin underway[f.path.run] /\ f.path.run \notin resumed
         /\ task[t].row = "completed" /\ task[t].phase = "off" /\ f.path = Target(t)) =>
          \E a \in rows : a.path = f.path

DeletionIsClean == OrphansAreLate /\ NoTaskSlipsThrough /\ FilesHaveRows

\* docs/TIMELINE_PREVIEW_VERIFICATION.md:11, of the audio directories: "No
\* previously published delivery key is reused by a successor."
PublishedAudioStays ==
  \A a \in rows :
    a.medium = "audio" /\ ~a.wanted => \E f \in files : f.path = a.path /\ f.by = a.by
=============================================================================
