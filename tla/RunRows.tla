------------------------------- MODULE RunRows -------------------------------
(***************************************************************************)
(* The row of one run under run_service: users that read it and write it a *)
(* moment later, guarded by its version, by its stage or by nothing, and   *)
(* the statements of the two stores: Postgres, which drives the state, and *)
(* the dictionary of InMemoryRunStorage (Memory...).                       *)
(***************************************************************************)
EXTENDS Integers, FiniteSets, Stages

CONSTANTS
  Users,       \* callers of the API
  Models,      \* values a model default may be given
  FirstStage,  \* bound: the stage the run is created in
  Targets,     \* bound: stages users restart at
  LastVersion  \* bound: writes of the row

VARIABLES
  row,      \* the row, or Gone
  project,  \* the status of its project
  call,     \* user -> the write the user is about to make
  acked     \* what users were told: model defaults, and the versions acted on

rowVars == <<row, project, call, acked>>

Gone == <<>>
Home == "own"
Nobody == [op |-> "none", changes |-> <<>>, version |-> 0]
NoDefaults == [llm |-> "none", tts |-> "none"]

NewRow == [home |-> Home, stage |-> FirstStage, status |-> "pending", restart |-> "none",
           finished |-> FALSE, defaults |-> NoDefaults, version |-> 0]

\* create_run: INSERT ... SELECT from the locked row of the project; the double
\* asks a checker of the project's status.
CreateRun(r, status) == IF status # "deleting" THEN NewRow ELSE r
MemoryCreateRun(r, status) == IF status = "deleting" THEN r ELSE NewRow

RowsInit ==
  /\ row = Gone /\ project \in {"active", "deleting"}
  /\ call = [u \in Users |-> Nobody]
  /\ acked = [defaults |-> NoDefaults, versions |-> {}]

-----------------------------------------------------------------------------
(* The statements: an answer and the row it leaves.                        *)
Answers(answer, r) == [answer |-> answer, row |-> r]
Column(r, changes, c) == IF c \in DOMAIN changes THEN changes[c] ELSE r[c]
Updated(r, changes) ==
  [r EXCEPT !.stage = Column(r, changes, "stage"), !.status = Column(r, changes, "status"),
            !.restart = Column(r, changes, "restart"),
            !.finished = Column(r, changes, "finished"), !.version = @ + 1]

\* WHERE id = $1 AND workspace_id = ... AND version = ...; no version is -1.
Matches(r, home, version) ==
  r # Gone /\ r.home = home /\ (version >= 0 => r.version = version)

\* A service that gets no row reads again to tell what it missed.
Missed(r, home) == Answers(IF r = Gone \/ r.home # home THEN "missing" ELSE "stale", r)

UpdateRun(r, home, changes, version) ==
  IF Matches(r, home, version) THEN Answers("done", Updated(r, changes)) ELSE Missed(r, home)
MemoryUpdateRun(r, home, changes, version) ==
  CASE r = Gone -> Answers("missing", r)
    [] r # Gone /\ r.home # home -> Answers("missing", r)
    [] r # Gone /\ r.home = home /\ version >= 0 /\ r.version # version -> Answers("stale", r)
    [] OTHER -> Answers("done", Updated(r, changes))

ConditionalUpdate(r, home, changes, stages, rejected) ==
  IF r # Gone /\ r.home = home /\ r.stage \in stages /\ r.status \notin rejected
  THEN Answers("done", Updated(r, changes)) ELSE Missed(r, home)
MemoryConditionalUpdate(r, home, changes, stages, rejected) ==
  CASE r = Gone -> Answers("missing", r)
    [] r # Gone /\ r.home # home -> Answers("missing", r)
    [] r # Gone /\ r.home = home /\ r.stage \notin stages -> Answers("stale", r)
    [] r # Gone /\ r.home = home /\ r.stage \in stages /\ rejected # {}
         /\ r.status \in rejected -> Answers("stale", r)
    [] OTHER -> Answers("done", Updated(r, changes))

\* jsonb || and the merge of two dictionaries.
Merged(old, new) == [k \in DOMAIN old |-> IF k \in DOMAIN new THEN new[k] ELSE old[k]]
WithDefaults(r, new) ==
  Answers("done", [r EXCEPT !.defaults = Merged(@, new), !.version = @ + 1])
MergeDefaults(r, home, new) ==
  IF r # Gone /\ r.home = home THEN WithDefaults(r, new) ELSE Answers("missing", r)
MemoryMergeDefaults(r, home, new) ==
  IF r = Gone \/ r.home # home THEN Answers("missing", r) ELSE WithDefaults(r, new)

DeleteRow(r, home) ==
  IF r # Gone /\ r.home = home THEN Answers("done", Gone) ELSE Answers("missing", r)
MemoryDeleteRow(r, home) ==
  CASE r # Gone /\ r.home # home -> Answers("missing", r)
    [] r = Gone -> Answers("missing", r)
    [] OTHER -> Answers("done", Gone)

-----------------------------------------------------------------------------
(* The service: what a user reads decides what is written later.           *)
Changes(op, r, target) ==
  CASE op = "restart" -> [stage |-> target, restart |-> target]
    [] op = "advance" -> [stage |-> target]
    [] op = "stop"    -> [stage |-> StageBeforeGenerating[r.stage], status |-> "cancelled"]
    [] op = "resume"  -> [status |-> "running"]
    [] op = "complete" -> [status |-> "completed", finished |-> TRUE]
Allowed(op, r, target) ==
  CASE op \in {"restart", "advance"} -> CanTransition(r.stage, target)
    [] op = "stop"     -> r.status # "cancelled" /\ r.stage \in GeneratingStages
    [] op = "resume"   -> r.status \in {"cancelled", "failed"}
    [] op = "complete" -> r.status # "completed"
Versioned == {"restart", "advance", "stop", "resume", "complete"}

\* Creation is not repeated.
Create ==
  /\ row = Gone /\ acked.versions = {} /\ acked.defaults = NoDefaults
  /\ row' = CreateRun(row, project)
  /\ UNCHANGED <<project, call, acked>>

Decide(u, op, target) ==
  /\ call[u] = Nobody /\ row # Gone /\ Allowed(op, row, target)
  /\ call' = [call EXCEPT ![u] = [op |-> op, changes |-> Changes(op, row, target),
                                  version |-> row.version]]
  /\ UNCHANGED <<row, project, acked>>

Room == row # Gone => row.version < LastVersion
Write(u) ==
  LET done == UpdateRun(row, Home, call[u].changes, call[u].version)
  IN  /\ call[u].op \in Versioned /\ Room
      /\ row' = done.row
      /\ acked' = IF done.answer = "done"
                  THEN [acked EXCEPT !.versions = @ \cup {<<u, call[u].version>>}] ELSE acked
      /\ call' = [call EXCEPT ![u] = Nobody]
      /\ UNCHANGED project

\* cancel_run: whatever the stage and the version are.
Cancel ==
  /\ Room /\ row # Gone
  /\ row' = UpdateRun(row, Home, [status |-> "cancelled"], -1).row
  /\ UNCHANGED <<project, call, acked>>

\* go_back and the transitions of the tasks compare the stage alone.
GoBackOnce ==
  /\ Room /\ row # Gone /\ row.stage \in DOMAIN StageBack
  /\ row' = ConditionalUpdate(row, Home, [stage |-> StageBack[row.stage]],
                              {row.stage}, {}).row
  /\ UNCHANGED <<project, call, acked>>
TaskMovesOn ==
  /\ Room /\ row # Gone
  /\ row' = ConditionalUpdate(row, Home, [stage |-> "SCRIPT_REVIEW", status |-> "paused"],
                              {"SCRIPT_GENERATING"}, {"failed", "cancelled", "completed"}).row
  /\ UNCHANGED <<project, call, acked>>

\* update_model_defaults reads only to see that the run is there.
SetDefault(key, model) ==
  LET done == MergeDefaults(row, Home, [k \in {key} |-> model])
  IN  /\ Room /\ row # Gone
      /\ row' = done.row
      /\ acked' = IF done.answer = "done" THEN [acked EXCEPT !.defaults[key] = model] ELSE acked
      /\ UNCHANGED <<project, call>>

Delete ==
  /\ row # Gone /\ row' = DeleteRow(row, Home).row
  /\ acked' = [acked EXCEPT !.versions = @ \cup {<<"deleted", row.version>>}]
  /\ UNCHANGED <<project, call>>

RowsNext ==
  \/ Create \/ Cancel \/ GoBackOnce \/ TaskMovesOn \/ Delete
  \/ \E u \in Users :
       Write(u) \/ \E op \in Versioned, target \in Targets : Decide(u, op, target)
  \/ \E key \in DOMAIN NoDefaults, model \in Models : SetDefault(key, model)

-----------------------------------------------------------------------------
Homes == {Home, "foreign"}
SomeChanges == {[status |-> "cancelled"], [stage |-> "FAILED", status |-> "failed"]}

(* The double answers the statements above as Postgres does and leaves the *)
(* same row, whoever asks, with whatever version and in whatever stage.    *)
RunTwinsAgree ==
  /\ CreateRun(Gone, project) = MemoryCreateRun(Gone, project)
  /\ \A home \in Homes :
       /\ DeleteRow(row, home) = MemoryDeleteRow(row, home)
       /\ \A changes \in SomeChanges :
            /\ \A version \in -1 .. LastVersion :
                 UpdateRun(row, home, changes, version)
                   = MemoryUpdateRun(row, home, changes, version)
            /\ \A stages \in {GeneratingStages, ReviewStages}, rejected \in {{}, {"cancelled"}} :
                 ConditionalUpdate(row, home, changes, stages, rejected)
                   = MemoryConditionalUpdate(row, home, changes, stages, rejected)
       /\ \A key \in DOMAIN NoDefaults, model \in Models :
            MergeDefaults(row, home, [k \in {key} |-> model])
              = MemoryMergeDefaults(row, home, [k \in {key} |-> model])

(* Whatever users do to a run at the same time, a model default that was   *)
(* acknowledged is there until it is set again ("no read-merge-write       *)
(* race", run_service.py:498), and of the decisions taken from one version *)
(* of the row one at most is carried out.                                  *)
DecisionsHold ==
  /\ row # Gone => row.defaults = acked.defaults
  /\ \A a, b \in acked.versions : a[2] = b[2] => a = b \/ "deleted" \in {a[1], b[1]}
=============================================================================
