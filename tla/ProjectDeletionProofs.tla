----------------------- MODULE ProjectDeletionProofs -----------------------
(***************************************************************************)
(* Proofs about artifacts and deletion: whatever a deletion, requests,     *)
(* workers and retention passes do at the same time, a deletion leaves no  *)
(* file but those of workers that were at work when it collected the       *)
(* tasks, and no published file without a row.                             *)
(*                                                                         *)
(* A deletion stops runs, collects their tasks and sweeps their files, one *)
(* run after the other; what it has stopped, collected and swept stays so  *)
(* as far as nobody resumes a run (StaysStopped, StaysCollected,           *)
(* StaysSwept), and is what remains of a run that is gone (GoneIsLeft,     *)
(* OrphansAreLate).  A row is dropped only for a task that is over         *)
(* (ExpiredAreOver, RequestedAreOver) and after its file (PublishedStays). *)
(***************************************************************************)
EXTENDS ProjectDeletion, SumTheorems

Collecting == {"rows", "mark", "objects", "drop", "tree", "delete"}
AtOne == {"mark", "objects", "drop", "tree"}

(* The runs a deletion has cancelled, whose tasks it has collected, and    *)
(* whose directory it has removed.                                         *)
Stopped ==
  CASE deleter.phase \in {"idle", "list"} -> {}
    [] deleter.phase = "cancel" -> deleter.runs \ deleter.todo
    [] OTHER -> deleter.runs

Collected ==
  CASE deleter.phase = "revoke" -> deleter.runs \ deleter.todo
    [] deleter.phase \in Collecting -> deleter.runs
    [] OTHER -> {}

Swept ==
  IF deleter.phase \in Collecting /\ ~deleter.failed
  THEN {r \in deleter.runs \ deleter.todo : deleter.phase \in AtOne => r # deleter.at} ELSE {}

-----------------------------------------------------------------------------
(* Rows of runs and tasks: who has not been dispatched has nothing, and    *)
(* who is at work was delivered.                                           *)
RunsOK ==
  /\ DOMAIN run = Runs /\ DOMAIN underway = Runs
  /\ \A r \in Runs : /\ DOMAIN run[r] = {"row", "status", "stage"} /\ run[r].row \in BOOLEAN
                     /\ run[r].row => run[r].status # "none"

TaskColumns == {"kind", "run", "sec", "row", "message", "phase", "delivery", "quota"}
TaskOK(t) ==
  /\ DOMAIN task[t] = TaskColumns
  /\ task[t].run \in Runs /\ task[t].delivery \in Nat
  /\ task[t].quota = "none" => task[t].row = "none"
  /\ task[t].row = "none" => task[t].delivery = 0 /\ ~task[t].message
  /\ task[t].delivery = 0 => task[t].phase = "off"
  /\ task[t].phase # "off" => task[t].row \in {"running", "revoked", "deleted"}
  /\ task[t].row # "none" => run[task[t].run].status # "none"

TasksOK == DOMAIN task = Tasks /\ \A t \in Tasks : TaskOK(t)

FilesOK ==
  \A f \in files :
    LET t == f.by[1]
    IN  t \in Tasks /\ task[t].delivery # 0 /\ f.path.run = task[t].run

RowColumns ==
  {"id", "run", "medium", "sec", "path", "keyed", "idem", "by", "expired", "wanted", "tries"}

RowOK(a) ==
  LET t == a.idem[1]
  IN  /\ DOMAIN a = RowColumns /\ a.id \in Nat
      /\ a.idem = <<t, a.idem[2]>> /\ t \in Tasks /\ task[t].delivery # 0
      /\ a.run = task[t].run /\ run[a.run].row
      /\ a.path = Path(task[t].kind, t, a.idem[2])

RowsOK ==
  /\ IsFiniteSet(rows) /\ \A a \in rows : RowOK(a)
  /\ \A a, b \in rows : a.id = b.id => a = b

SweeperOK ==
  /\ DOMAIN sweeper = {"phase", "row", "tried"}
  /\ IsFiniteSet(sweeper.tried) /\ sweeper.tried \subseteq Nat
  /\ sweeper.phase \in {"idle", "object", "row"}
  /\ sweeper.phase # "idle" => /\ sweeper.row \in sweeper.tried
                               /\ \E a \in rows : a.id = sweeper.row /\ Requested(a)

(* The task a request has in hand has not been delivered before it is      *)
(* published.                                                              *)
Unpublished == {"precheck", "record", "publish"}
RequestOK ==
  /\ DOMAIN request = {"phase", "kind", "run", "todo", "bulk", "task"}
  /\ request.phase \in {"idle", "reserve", "postcheck"} \cup Unpublished
  /\ request.phase # "idle" => request.run \in Runs /\ run[request.run].status # "none"
  /\ request.phase \in Unpublished \cup {"postcheck"} =>
       /\ request.task \in Tasks /\ task[request.task].run = request.run
       /\ task[request.task].quota # "none"
  /\ request.phase \in Unpublished =>
       task[request.task].delivery = 0 /\ ~task[request.task].message
  /\ request.phase = "publish" => task[request.task].row # "none"

DeleterOK ==
  /\ DOMAIN deleter = DOMAIN Resting
  /\ deleter.phase \in {"idle", "list", "cancel", "revoke"} \cup Collecting
  /\ deleter.phase = "idle" => deleter = Resting
  /\ deleter.runs \subseteq Runs /\ deleter.todo \subseteq deleter.runs
  /\ \A r \in deleter.runs : run[r].row
  /\ deleter.whole => project # "draft"
  /\ deleter.whole /\ deleter.phase # "list" => \A r \in Runs : run[r].row => r \in deleter.runs
  /\ deleter.phase \in AtOne => deleter.at \in deleter.runs \ deleter.todo
  /\ deleter.left => deleter.failed
  /\ deleter.phase = "delete" => deleter.todo = {} /\ ~deleter.failed
  /\ deleter.phase \in AtOne => \A a \in deleter.list : RowOK(a) /\ a.run = deleter.at
  /\ deleter.phase \notin AtOne \ {"tree"} => deleter.done = {}
  /\ \A known \in deleter.done :
       LET t == known[2][1]
       IN  t \in Tasks /\ task[t].delivery # 0 /\ task[t].run = deleter.at

-----------------------------------------------------------------------------
(* A run that is being deleted is cancelled, and its tasks at work are     *)
(* those that were collected, unless a user resumed it.                    *)
StaysStopped == \A r \in Stopped \ resumed : run[r].status = "cancelled"
StaysCollected ==
  \A t \in Tasks :
    task[t].run \in Collected \ resumed =>
      /\ task[t].phase # "off" => t \in underway[task[t].run]
      /\ task[t].row \in Active =>
           /\ task[t].delivery = 0
           /\ \/ request.task = t /\ request.phase \in {"publish", "postcheck"}
              \/ task[t].quota = "cancelled"

StaysSwept ==
  \A f \in files : f.path.run \in Swept \ resumed => f.by[1] \in underway[f.path.run]

(* So it is of a run that is gone.                                         *)
GoneIsLeft ==
  \A t \in Tasks :
    ~run[task[t].run].row /\ task[t].run \notin resumed /\ task[t].phase # "off" =>
      t \in underway[task[t].run]

(* A row whose object is going to be deleted belongs to a task that does   *)
(* nothing more for it.                                                    *)
ExpiredAreOver ==
  \A a \in rows : a.expired => task[a.idem[1]].row \notin Active /\ ~task[a.idem[1]].message

RequestedAreOver ==
  \A a \in rows : Requested(a) /\ ~a.expired /\ a.run \notin resumed =>
    Refuses(a.run) /\ task[a.idem[1]].row \notin Active

(* What a task that succeeds has published has its row, which no pass and  *)
(* no deletion is about to drop.                                           *)
Succeeds(t) == task[t].row = "completed" \/ (task[t].phase = "saved" /\ task[t].row = "running")
Dropping(a) ==
  (sweeper.phase = "row" /\ sweeper.row = a.id) \/ Known(a) \in deleter.done

PublishedStays ==
  \A t \in Tasks, f \in files :
    (/\ Succeeds(t) /\ run[task[t].run].row /\ task[t].run \notin resumed
     /\ f.by[1] = t /\ f.path = Target(t)) =>
       \E a \in rows : a.idem = <<t, task[t].sec>> /\ ~Dropping(a)

DeletionInv ==
  /\ RunsOK /\ TasksOK /\ FilesOK /\ RowsOK /\ SweeperOK /\ RequestOK /\ DeleterOK
  /\ StaysStopped /\ StaysCollected /\ StaysSwept /\ GoneIsLeft /\ OrphansAreLate
  /\ ExpiredAreOver /\ RequestedAreOver /\ PublishedStays
-----------------------------------------------------------------------------
(* Lemmas about the conjuncts.                                             *)

(* What was published keeps its row as long as no row is dropped, and no   *)
(* task publishes or succeeds anew.                                        *)
LEMMA PublishedCarries ==
  ASSUME PublishedStays,
         \A u \in Tasks :
           (Succeeds(u)' /\ run'[task'[u].run].row /\ task'[u].run \notin resumed') =>
             /\ Succeeds(u) /\ run[task[u].run].row /\ task[u].run \notin resumed
             /\ Target(u)' = Target(u) /\ task'[u].sec = task[u].sec
             /\ \A f \in files' : f.by[1] = u => f \in files,
         \A a \in rows : ~Dropping(a) => \E b \in rows' : b.idem = a.idem /\ ~Dropping(b)'
  PROVE PublishedStays'
BY DEF PublishedStays

(* What rows say stays true while runs exist and tasks keep what they were *)
(* dispatched for.                                                         *)
Steady ==
  /\ \A t \in Tasks :
       task[t].delivery # 0 => /\ task'[t].delivery # 0 /\ task'[t].kind = task[t].kind
                               /\ task'[t].run = task[t].run /\ task'[t].sec = task[t].sec
  /\ \A r \in Runs : run'[r].row = run[r].row

(* A row in order stays so.                                                *)
LEMMA RowStays ==
  ASSUME TasksOK, Steady, NEW a, RowOK(a)
  PROVE RowOK(a)'
<1>1. a.idem[1] \in Tasks /\ task[a.idem[1]].delivery # 0 /\ a.run = task[a.idem[1]].run
      /\ a.run \in Runs
  BY DEF RowOK, TasksOK, TaskOK
<1>2. Path(task[a.idem[1]].kind, a.idem[1], a.idem[2])'
        = Path(task[a.idem[1]].kind, a.idem[1], a.idem[2])
  BY <1>1 DEF Path, Steady
<1> QED BY <1>1, <1>2 DEF RowOK, Steady

(* So do the rows that stand.                                              *)
LEMMA RowsStay == ASSUME TasksOK, RowsOK, Steady, UNCHANGED rows PROVE RowsOK'
BY RowStays DEF RowsOK

(* A deletion stays in order while it rests.                               *)
LEMMA DeleterStays ==
  ASSUME TasksOK, DeleterOK, Steady, UNCHANGED <<deleter, project>>
  PROVE DeleterOK'
<1>1. \A r \in deleter.runs : run'[r].row BY DEF DeleterOK, Steady
<1>2. deleter.whole /\ deleter.phase # "list" => \A r \in Runs : run'[r].row => r \in deleter.runs
  BY DEF DeleterOK, Steady
<1>3. deleter.phase \in AtOne => \A a \in deleter.list : RowOK(a)' /\ a.run = deleter.at
  BY RowStays DEF DeleterOK
<1>4. \A known \in deleter.done :
        LET t == known[2][1]
        IN  t \in Tasks /\ task'[t].delivery # 0 /\ task'[t].run = deleter.at
  BY DEF DeleterOK, Steady
<1> QED BY <1>1, <1>2, <1>3, <1>4 DEF DeleterOK

(* No row is dropped where neither a pass nor a deletion goes on.          *)
LEMMA NothingDropped ==
  ASSUME UNCHANGED <<sweeper, deleter>>, rows \subseteq rows'
  PROVE \A a \in rows : ~Dropping(a) => \E b \in rows' : b.idem = a.idem /\ ~Dropping(b)'
BY DEF Dropping, Known

-----------------------------------------------------------------------------
(* Workers. *)

(* A delivery starts, or is rejected: nothing starts for a run that is     *)
(* cancelled or gone.                                                      *)
LEMMA StartKeeps ==
  ASSUME DeletionInv, NEW t \in Tasks, Start(t), UNCHANGED deletionOnly
  PROVE DeletionInv'
<1> USE DEF DeletionInv
<1>1. /\ UNCHANGED <<files, run, rows, request, sweeper>>
      /\ UNCHANGED <<project, deleter, creator, underway, resumed>>
  BY DEF Start, Unchanged, deletionOnly
<1>2. /\ task[t].message /\ task[t].phase = "off" /\ task[t].row \in Active \cup {"failed"}
      /\ \/ /\ task' = [task EXCEPT ![t].row = "rejected", ![t].delivery = @ + 1,
                                    ![t].quota = "cancelled"]
         \/ /\ ~Refuses(task[t].run)
            /\ task' = [task EXCEPT ![t].row = "running", ![t].delivery = @ + 1,
                                    ![t].phase = "making"]
  BY DEF Start
<1>3. RunsOK' /\ SweeperOK' /\ StaysStopped' /\ StaysSwept' /\ OrphansAreLate'
  BY <1>1 DEF RunsOK, SweeperOK, StaysStopped, Stopped, StaysSwept, Swept, Requested,
              OrphansAreLate
<1>4. TasksOK' BY <1>1, <1>2 DEF TasksOK, TaskOK, TaskColumns, Active
<1>5. FilesOK' BY <1>1, <1>2 DEF FilesOK, TasksOK, TaskOK, TaskColumns
<1>6. RowsOK' /\ DeleterOK'
  <2>1. Steady BY <1>1, <1>2 DEF Steady, TasksOK, TaskOK, TaskColumns
  <2> QED BY <1>1, <2>1, RowsStay, DeleterStays
<1>7. RequestOK' BY <1>1, <1>2 DEF RequestOK, TasksOK, TaskOK, TaskColumns
<1>8. StaysCollected'
  BY <1>1, <1>2 DEF StaysCollected, Collected, StaysStopped, Stopped, TasksOK, TaskOK, TaskColumns,
                    Active, Refuses, DeleterOK, Collecting
<1>9. GoneIsLeft' BY <1>1, <1>2 DEF GoneIsLeft, TasksOK, TaskOK, TaskColumns, Refuses
<1>10. ExpiredAreOver'
  BY <1>1, <1>2 DEF ExpiredAreOver, RowsOK, RowOK, TasksOK, TaskOK, TaskColumns, Active
<1>11. RequestedAreOver'
  BY <1>1, <1>2 DEF RequestedAreOver, RowsOK, RowOK, TasksOK, TaskOK, TaskColumns, Active,
                    Refuses, Requested
<1>12. PublishedStays'
  <2>1. \A u \in Tasks : Succeeds(u)' => /\ Succeeds(u) /\ Target(u)' = Target(u)
                                         /\ task'[u].sec = task[u].sec /\ task'[u].run = task[u].run
    BY <1>2 DEF Succeeds, Target, Path, TasksOK, TaskOK, TaskColumns
  <2> QED BY <1>1, <2>1, NothingDropped, PublishedCarries
<1> QED BY <1>3, <1>4, <1>5, <1>6, <1>7, <1>8, <1>9, <1>10, <1>11, <1>12

(* A worker at work goes on to another phase, or ends: it writes files of  *)
(* its own, and succeeds only with what it has saved.                      *)
SameRuns ==
  /\ DOMAIN run' = DOMAIN run
  /\ \A r \in Runs : /\ DOMAIN run'[r] = DOMAIN run[r]
                     /\ run'[r].row = run[r].row /\ run'[r].status = run[r].status

WorkerGoesOn(t, p, w) ==
  /\ task[t].phase # "off" /\ p # "saved"
  /\ task' = [task EXCEPT ![t].phase = p, ![t].row = w]
  /\ \/ w = task[t].row
     \/ p = "off" /\ w = "failed"
     \/ p = "off" /\ w = "completed" /\ task[t].phase = "saved" /\ task[t].row = "running"
        /\ UNCHANGED files
  /\ \A f \in files' : f \in files \/ (f.by[1] = t /\ f.path.run = task[t].run)
  /\ SameRuns
  /\ UNCHANGED <<rows, request, sweeper>> /\ UNCHANGED deletionOnly

(* A worker that goes on or ends keeps the invariant.                      *)
LEMMA WorkerGoesOnKeeps ==
  ASSUME DeletionInv, NEW t \in Tasks, NEW p, NEW w, WorkerGoesOn(t, p, w)
  PROVE DeletionInv'
<1> USE DEF DeletionInv
<1>1. /\ UNCHANGED <<rows, request, sweeper>>
      /\ UNCHANGED <<project, deleter, creator, underway, resumed>>
      /\ SameRuns
  BY DEF WorkerGoesOn, deletionOnly
<1>2. /\ task[t].phase # "off" /\ p # "saved"
      /\ task' = [task EXCEPT ![t].phase = p, ![t].row = w]
      /\ w = task[t].row \/ (p = "off" /\ w \in {"failed", "completed"})
  BY DEF WorkerGoesOn
<1>3. \A f \in files' : f \in files \/ (f.by[1] = t /\ f.path.run = task[t].run)
  BY DEF WorkerGoesOn
<1>4. /\ DOMAIN task' = Tasks /\ task[t].delivery # 0
      /\ task[t].row \in {"running", "revoked", "deleted"}
      /\ \A u \in Tasks :
           /\ DOMAIN task'[u] = TaskColumns /\ task'[u].kind = task[u].kind
           /\ task'[u].run = task[u].run /\ task'[u].sec = task[u].sec
           /\ task'[u].delivery = task[u].delivery /\ task'[u].message = task[u].message
           /\ task'[u].quota = task[u].quota
           /\ u # t => task'[u] = task[u]
           /\ task'[u].phase # "off" => task[u].phase # "off" /\ task'[u].row = task[u].row
           /\ task'[u].row \in Active => task[u].row \in Active
  BY <1>2 DEF TasksOK, TaskOK, TaskColumns, Active
<1>5. RunsOK' BY <1>1 DEF RunsOK, SameRuns
<1>6. TasksOK' BY <1>1, <1>2, <1>4 DEF TasksOK, TaskOK, SameRuns
<1>7. FilesOK' BY <1>3, <1>4 DEF FilesOK
<1>8. RowsOK' /\ DeleterOK'
  <2>1. Steady BY <1>1, <1>4 DEF Steady, SameRuns
  <2> QED BY <1>1, <2>1, RowsStay, DeleterStays
<1>9. SweeperOK' BY <1>1 DEF SweeperOK, Requested
<1>10. RequestOK' BY <1>1, <1>4 DEF RequestOK, SameRuns
<1>11. StaysStopped' BY <1>1 DEF StaysStopped, Stopped, SameRuns, DeleterOK
<1>12. StaysCollected' BY <1>1, <1>4 DEF StaysCollected, Collected
<1>13. StaysSwept'
  <2>1. Swept \subseteq Collected BY DEF Swept, Collected, DeleterOK, Collecting
  <2>2. Swept' = Swept BY <1>1 DEF Swept
  <2>3. task[t].run \in Collected \ resumed => t \in underway[task[t].run]
    BY <1>2 DEF StaysCollected
  <2> QED BY <1>1, <1>3, <2>1, <2>2, <2>3 DEF StaysSwept
<1>14. GoneIsLeft' BY <1>1, <1>4 DEF GoneIsLeft, SameRuns, TasksOK, TaskOK
<1>15. OrphansAreLate'
  BY <1>1, <1>2, <1>3 DEF OrphansAreLate, GoneIsLeft, SameRuns, TasksOK, TaskOK, FilesOK
<1>16. ExpiredAreOver' BY <1>1, <1>4 DEF ExpiredAreOver, RowsOK, RowOK
<1>17. RequestedAreOver'
  BY <1>1, <1>4 DEF RequestedAreOver, RowsOK, RowOK, Refuses, SameRuns, TasksOK, TaskOK, Requested
<1>18. PublishedStays'
  <2>1. ASSUME NEW u \in Tasks, Succeeds(u)'
        PROVE /\ Succeeds(u) /\ Target(u)' = Target(u)
              /\ \A f \in files' : f.by[1] = u => f \in files
    <3>1. Target(u)' = Target(u) BY <1>4 DEF Target, Path
    <3>2. u # t => Succeeds(u) BY <1>4, <2>1 DEF Succeeds
    <3>3. u = t => w = "completed" BY <1>2, <1>4, <2>1 DEF Succeeds, TasksOK
    <3>4. w = "completed" => Succeeds(t) /\ UNCHANGED files
      BY <1>4 DEF WorkerGoesOn, Succeeds
    <3> QED BY <1>3, <3>1, <3>2, <3>3, <3>4
  <2> QED BY <1>1, <1>4, <2>1, NothingDropped, PublishedCarries DEF SameRuns, TasksOK, TaskOK
<1> QED BY <1>5, <1>6, <1>7, <1>8, <1>9, <1>10, <1>11, <1>12, <1>13, <1>14, <1>15, <1>16,
           <1>17, <1>18

(* What a worker writes is its own.                                        *)
LEMMA WrittenIsOwn ==
  ASSUME NEW t, NEW paths, \A p \in paths : p.run = task[t].run,
         files' = Written(paths, t)
  PROVE \A f \in files' : f \in files \/ (f.by[1] = t /\ f.path.run = task[t].run)
BY DEF Written

(* The path of an artifact is in the directory of its run.                 *)
LEMMA PathsAreOwn == \A kind, t, s : Path(kind, t, s).run = task[t].run
BY DEF Path

(* The steps that neither start a delivery nor write rows.                 *)
LEMMA WorkerMovesOn ==
  ASSUME DeletionInv, NEW t \in Tasks, UNCHANGED deletionOnly,
         \/ MakeParagraph(t) \/ MakeNarration(t) \/ MakeSections(t) \/ MakeSubtitles(t)
         \/ MakeParagraphSubtitles(t) \/ MakeVideo(t) \/ Concatenate(t) \/ FallBack(t)
         \/ NarrationFails(t) \/ ParagraphFails(t) \/ CaptionsOrVideoFail(t) \/ WorkerDies(t)
         \/ Finish(t)
  PROVE DeletionInv'
<1>1. DOMAIN task = Tasks /\ DOMAIN task[t] = TaskColumns
  BY DEF DeletionInv, TasksOK, TaskOK
<1>2. ASSUME NEW p, To(t, p)
      PROVE task' = [task EXCEPT ![t].phase = p, ![t].row = task[t].row]
  BY <1>1, <1>2 DEF To, TaskColumns
<1>3. UNCHANGED run => SameRuns BY DEF SameRuns
<1>4. ASSUME task[t].phase # "off", Made(t) PROVE WorkerGoesOn(t, "made", task[t].row)
  <2>1. files' = Written({Target(t)}, t) /\ To(t, "made") /\ Unchanged BY <1>4 DEF Made
  <2>2. \A f \in files' : f \in files \/ (f.by[1] = t /\ f.path.run = task[t].run)
    <3>1. \A p \in {Target(t)} : p.run = task[t].run BY PathsAreOwn DEF Target
    <3> QED BY <2>1, <3>1, WrittenIsOwn
  <2> QED BY <1>2, <1>3, <1>4, <2>1, <2>2 DEF WorkerGoesOn, Unchanged
<1>5. CASE \/ MakeParagraph(t) \/ MakeNarration(t) \/ MakeSubtitles(t)
           \/ MakeParagraphSubtitles(t) \/ MakeVideo(t) \/ Concatenate(t)
  BY <1>4, <1>5, WorkerGoesOnKeeps
     DEF MakeParagraph, MakeNarration, MakeSubtitles, MakeParagraphSubtitles, MakeVideo,
         Concatenate, Works
<1>6. CASE MakeSections(t)
  <2>1. /\ files' = Written({Path("audio", t, s) : s \in Sections}, t)
        /\ To(t, "sections") /\ Unchanged /\ task[t].phase # "off"
    BY <1>6 DEF MakeSections, Works
  <2>2. \A f \in files' : f \in files \/ (f.by[1] = t /\ f.path.run = task[t].run)
    BY <2>1, WrittenIsOwn, PathsAreOwn
  <2>3. WorkerGoesOn(t, "sections", task[t].row)
    BY <1>2, <1>3, <2>1, <2>2 DEF WorkerGoesOn, Unchanged
  <2> QED BY <2>3, WorkerGoesOnKeeps
<1>7. CASE FallBack(t) \/ WorkerDies(t)
  <2>1. WorkerGoesOn(t, "making", task[t].row) \/ WorkerGoesOn(t, "off", task[t].row)
    BY <1>2, <1>3, <1>7 DEF FallBack, WorkerDies, WorkerGoesOn, Unchanged
  <2> QED BY <2>1, WorkerGoesOnKeeps
<1>8. CASE NarrationFails(t) \/ ParagraphFails(t) \/ CaptionsOrVideoFail(t)
  <2>1. files' \subseteq files /\ Ends(t, "failed") /\ Unchanged /\ task[t].phase # "off"
    BY <1>8 DEF NarrationFails, ParagraphFails, CaptionsOrVideoFail, Attempted
  <2>2. WorkerGoesOn(t, "off", "failed") BY <1>3, <2>1 DEF WorkerGoesOn, Ends, Unchanged
  <2> QED BY <2>2, WorkerGoesOnKeeps
<1>9. CASE Finish(t)
  <2> DEFINE w == IF task[t].row = "running" THEN "completed" ELSE task[t].row
  <2>1. /\ task[t].phase = "saved" /\ UNCHANGED <<files, rows, request, sweeper>>
        /\ task' = [task EXCEPT ![t].phase = "off", ![t].row = w]
        /\ \/ run' = run
           \/ run' = [run EXCEPT ![task[t].run].stage = SuccessStage(task[t].kind)]
    BY <1>1, <1>9 DEF Finish, TaskColumns
  <2>2. SameRuns BY <2>1 DEF SameRuns, DeletionInv, RunsOK
  <2>3. WorkerGoesOn(t, "off", w) BY <2>1, <2>2 DEF WorkerGoesOn
  <2> QED BY <2>3, WorkerGoesOnKeeps
<1> QED BY <1>5, <1>6, <1>7, <1>8, <1>9
-----------------------------------------------------------------------------
(* Rows are written. *)

(* A set that a function on a finite set covers is finite.                 *)
LEMMA CoveredIsFinite ==
  ASSUME NEW S, IsFiniteSet(S), NEW f, DOMAIN f = S,
         NEW T, \A y \in T : \E x \in S : f[x] = y
  PROVE IsFiniteSet(T)
<1> DEFINE R == {x \in S : f[x] \in T}
           g == [x \in R |-> f[x]]
<1>1. IsFiniteSet(R)
  <2>1. R \in SUBSET S OBVIOUS
  <2> HIDE DEF R
  <2> QED BY <2>1, FS_Subset
<1>2. g \in Surjection(R, T) BY DEF Surjection
<1> HIDE DEF R, g
<1> QED BY <1>1, <1>2, FS_Surjection

(* A finite set of numbers that is not empty has a largest one.            *)
LEMMA LargestIsThere ==
  ASSUME NEW S, IsFiniteSet(S), S # {}
  PROVE S \subseteq Nat => Max(S) \in S /\ \A x \in S : x <= Max(S)
<1> DEFINE T == {s \in SUBSET S : s \subseteq Nat /\ s # {} /\ ~\E m \in s : \A x \in s : x <= m}
<1>1. T = {}
  <2> SUFFICES ASSUME T # {} PROVE FALSE OBVIOUS
  <2>1. PICK t \in T : \A s \in T : s \subseteq t => s = t
    <3>1. T \subseteq SUBSET S OBVIOUS
    <3> HIDE DEF T
    <3> QED BY <3>1, LeastSet
  <2>2. PICK n \in t : TRUE BY <2>1
  <2>3. t \ {n} \notin T BY <2>1, <2>2
  <2>4. CASE t = {n}
    <3>1. n \in Nat BY <2>1, <2>2
    <3> QED BY <2>1, <2>4, <3>1
  <2>5. CASE t # {n}
    <3>1. PICK m \in t \ {n} : \A x \in t \ {n} : x <= m BY <2>1, <2>2, <2>3, <2>5
    <3>2. m \in Nat /\ n \in Nat /\ t \subseteq Nat BY <2>1, <2>2, <3>1
    <3>3. CASE n <= m
      <4>1. \A x \in t : x <= m BY <3>1, <3>3
      <4> QED BY <2>1, <3>1, <4>1
    <3>4. CASE ~(n <= m)
      <4>1. \A x \in t : x <= n BY <3>1, <3>2, <3>4
      <4> QED BY <2>1, <2>2, <4>1
    <3> QED BY <3>3, <3>4
  <2> QED BY <2>4, <2>5
<1> QED
  <2> SUFFICES ASSUME S \subseteq Nat PROVE Max(S) \in S /\ \A x \in S : x <= Max(S) OBVIOUS
  <2>1. PICK m \in S : \A x \in S : m >= x BY <1>1
  <2> QED BY <2>1 DEF Max

(* A new row has an id of its own, and the row of a worker at work is in   *)
(* order.                                                                  *)
LEMMA RowIsNew ==
  ASSUME DeletionInv, NEW t \in Tasks, task[t].phase # "off", run[task[t].run].row,
         NEW sec, NEW keyed
  PROVE /\ RowOK(Row(t, sec, keyed))
        /\ \A a \in rows : a.id # Row(t, sec, keyed).id
        /\ Row(t, sec, keyed).id \notin sweeper.tried
        /\ Row(t, sec, keyed).idem = <<t, sec>>
        /\ ~Row(t, sec, keyed).expired /\ ~Requested(Row(t, sec, keyed))
<1> DEFINE ids == {a.id : a \in rows}
           S == ids \cup sweeper.tried \cup {0}
           new == Row(t, sec, keyed)
<1>1. IsFiniteSet(rows) /\ IsFiniteSet(sweeper.tried) /\ sweeper.tried \subseteq Nat
      /\ \A a \in rows : a.id \in Nat
  BY DEF DeletionInv, RowsOK, RowOK, SweeperOK
<1>2. IsFiniteSet(ids)
  <2> DEFINE f == [a \in rows |-> a.id]
  <2>1. DOMAIN f = rows /\ \A i \in ids : \E a \in rows : f[a] = i OBVIOUS
  <2> HIDE DEF f, ids
  <2> QED BY <1>1, <2>1, CoveredIsFinite
<1>3. IsFiniteSet(S) BY <1>1, <1>2, FS_Union, FS_Singleton
<1>4. S \subseteq Nat /\ S # {} BY <1>1
<1>5. new.id = 1 + Max(S) BY DEF Row
<1> HIDE DEF S
<1>6. Max(S) \in Nat /\ \A x \in S : x <= Max(S) BY <1>3, <1>4, LargestIsThere
<1>7. new.id \in Nat /\ \A x \in S : x # new.id BY <1>4, <1>5, <1>6
<1>8. (\A a \in rows : a.id # new.id) /\ new.id \notin sweeper.tried BY <1>7 DEF S
<1>9. /\ DOMAIN new = RowColumns /\ new.idem = <<t, sec>> /\ ~new.expired /\ ~new.wanted
      /\ new.tries = 0 /\ new.run = task[t].run /\ new.path = Path(task[t].kind, t, sec)
  BY DEF Row, RowColumns
<1>10. task[t].delivery # 0 BY DEF DeletionInv, TasksOK, TaskOK
<1> HIDE DEF new
<1> QED BY <1>7, <1>8, <1>9, <1>10 DEF RowOK, Requested, new

(* A worker of a run that exists saves a row: it is neither requested nor  *)
(* about to be dropped, whatever a pass or a deletion has in hand.         *)
WorkerSaves(t, sec, p) ==
  /\ task[t].phase # "off" /\ run[task[t].run].row
  /\ \E keyed \in BOOLEAN : rows' = Inserted(Row(t, sec, keyed))
  /\ \/ p = task[t].phase /\ p # "saved" /\ UNCHANGED task
     \/ p = "saved" /\ sec = task[t].sec /\ task' = [task EXCEPT ![t].phase = p]
  /\ UNCHANGED <<run, files, request, sweeper>> /\ UNCHANGED deletionOnly

(* A worker that saves a row keeps the invariant: the task of a row that   *)
(* was requested or listed does not run any more.                          *)
LEMMA WorkerSavesKeeps ==
  ASSUME DeletionInv, NEW t \in Tasks, NEW sec, NEW p, WorkerSaves(t, sec, p)
  PROVE DeletionInv'
<1> USE DEF DeletionInv
<1>1. /\ UNCHANGED <<run, files, request, sweeper>>
      /\ UNCHANGED <<project, deleter, creator, underway, resumed>>
      /\ task[t].phase # "off" /\ run[task[t].run].row
      /\ \/ p = task[t].phase /\ p # "saved" /\ UNCHANGED task
         \/ p = "saved" /\ sec = task[t].sec /\ task' = [task EXCEPT ![t].phase = p]
  BY DEF WorkerSaves, deletionOnly
<1>2. PICK keyed \in BOOLEAN : rows' = Inserted(Row(t, sec, keyed)) BY DEF WorkerSaves
<1> DEFINE new == Row(t, sec, keyed)
<1>3. /\ RowOK(new) /\ \A a \in rows : a.id # new.id
      /\ new.id \notin sweeper.tried /\ new.idem = <<t, sec>>
      /\ ~new.expired /\ ~Requested(new)
  BY <1>1, RowIsNew
<1>4. /\ rows \subseteq rows' /\ \A a \in rows' : a \in rows \/ a = new
      /\ \E a \in rows' : a.idem = <<t, sec>>
      /\ rows' = rows \/ rows' = rows \cup {new}
  <2>1. rows' = IF \E a \in rows : a.idem = new.idem THEN rows ELSE rows \cup {new}
    BY <1>2 DEF Inserted
  <2> HIDE DEF new
  <2> QED BY <1>3, <2>1
<1> HIDE DEF new
<1>5. /\ DOMAIN task' = Tasks /\ task[t].delivery # 0
      /\ task[t].row \in {"running", "revoked", "deleted"}
      /\ \A u \in Tasks :
           /\ DOMAIN task'[u] = TaskColumns /\ task'[u].kind = task[u].kind
           /\ task'[u].run = task[u].run /\ task'[u].sec = task[u].sec
           /\ task'[u].delivery = task[u].delivery /\ task'[u].message = task[u].message
           /\ task'[u].quota = task[u].quota /\ task'[u].row = task[u].row
           /\ u # t => task'[u] = task[u]
           /\ task'[u].phase # "off" <=> task[u].phase # "off"
  BY <1>1 DEF TasksOK, TaskOK, TaskColumns
<1>6. Steady BY <1>1, <1>5 DEF Steady
<1>7. RunsOK' /\ StaysStopped' /\ StaysSwept' /\ OrphansAreLate'
  BY <1>1 DEF RunsOK, StaysStopped, Stopped, StaysSwept, Swept, OrphansAreLate
<1>8. TasksOK' BY <1>1, <1>5 DEF TasksOK, TaskOK
<1>9. FilesOK' BY <1>1, <1>5 DEF FilesOK
<1>10. RowsOK'
  <2>1. IsFiniteSet(rows') BY <1>4, FS_AddElement DEF RowsOK
  <2>2. \A a \in rows' : RowOK(a)' BY <1>3, <1>4, <1>6, RowStays DEF RowsOK
  <2>3. \A a, b \in rows' : a.id = b.id => a = b BY <1>3, <1>4 DEF RowsOK
  <2> QED BY <2>1, <2>2, <2>3 DEF RowsOK
<1>11. SweeperOK' BY <1>1, <1>4 DEF SweeperOK, Requested
<1>12. RequestOK' BY <1>1, <1>5 DEF RequestOK
<1>13. DeleterOK' BY <1>1, <1>6, DeleterStays
<1>14. StaysCollected' BY <1>1, <1>5 DEF StaysCollected, Collected
<1>15. GoneIsLeft' BY <1>1, <1>5 DEF GoneIsLeft
<1>16. ExpiredAreOver' BY <1>3, <1>4, <1>5 DEF ExpiredAreOver, RowsOK, RowOK
<1>17. RequestedAreOver'
  BY <1>1, <1>3, <1>4, <1>5 DEF RequestedAreOver, RowsOK, RowOK, Refuses, Requested
<1>18. PublishedStays'
  <2> SUFFICES ASSUME NEW u \in Tasks, NEW f \in files', Succeeds(u)', run'[task'[u].run].row,
                      task'[u].run \notin resumed', f.by[1] = u, f.path = Target(u)'
               PROVE \E a \in rows' : a.idem = <<u, task'[u].sec>> /\ ~Dropping(a)'
    BY DEF PublishedStays
  <2>1. task'[u].run = task[u].run /\ task'[u].sec = task[u].sec /\ task'[u].row = task[u].row
        /\ Target(u)' = Target(u)
    BY <1>5 DEF Target, Path
  <2>2. CASE u # t \/ p # "saved"
    <3>1. Succeeds(u) BY <1>1, <1>5, <2>2 DEF Succeeds
    <3>2. PICK a \in rows : a.idem = <<u, task[u].sec>> /\ ~Dropping(a)
      BY <1>1, <2>1, <3>1 DEF PublishedStays
    <3> QED BY <1>1, <1>4, <2>1, <3>2 DEF Dropping, Known
  <2>3. CASE u = t /\ p = "saved"
    <3>1. task[t].row = "running" BY <1>5, <2>1, <2>3 DEF Succeeds
    <3>2. PICK a \in rows' : a.idem = <<t, sec>> BY <1>4
    <3>3. RowOK(a) BY <1>3, <1>4, <3>2 DEF RowsOK
    <3>4. ~(sweeper.phase = "row" /\ sweeper.row = a.id)
      <4>1. SUFFICES ASSUME sweeper.phase = "row", sweeper.row = a.id PROVE FALSE OBVIOUS
      <4>2. PICK b \in rows : b.id = sweeper.row /\ Requested(b) BY <4>1 DEF SweeperOK
      <4>3. a = b BY <1>10, <1>4, <4>1, <4>2 DEF RowsOK
      <4>4. a.run = task[t].run /\ a.idem[1] = t BY <3>2, <3>3 DEF RowOK
      <4> QED BY <1>1, <2>1, <2>3, <3>1, <4>2, <4>3, <4>4
              DEF ExpiredAreOver, RequestedAreOver, Active
    <3>5. Known(a) \notin deleter.done
      <4>1. SUFFICES ASSUME Known(a) \in deleter.done PROVE FALSE OBVIOUS
      <4>2. Known(a)[2][1] = t BY <3>2 DEF Known
      <4>3. task[t].run = deleter.at /\ deleter.phase \in AtOne BY <4>1, <4>2 DEF DeleterOK
      <4>4. task[t].run \in Collected BY <4>3 DEF Collected, DeleterOK, AtOne, Collecting
      <4> QED BY <1>1, <1>5, <2>1, <2>3, <3>1, <4>4 DEF StaysCollected, Active
    <3> QED BY <1>1, <1>5, <2>3, <3>2, <3>4, <3>5 DEF Dropping
  <2> QED BY <2>2, <2>3
<1> QED BY <1>7, <1>8, <1>9, <1>10, <1>11, <1>12, <1>13, <1>14, <1>15, <1>16, <1>17, <1>18

(* So does every step of a worker.                                         *)
LEMMA WorkerStepKeeps ==
  ASSUME DeletionInv, NEW t \in Tasks, WorkerStep(t), UNCHANGED deletionOnly
  PROVE DeletionInv'
<1>1. DOMAIN task = Tasks /\ DOMAIN task[t] = TaskColumns
  BY DEF DeletionInv, TasksOK, TaskOK
<1>2. CASE SaveSection(t)
  <2>1. PICK s \in Sections : rows' = Inserted(Row(t, s, FALSE)) BY <1>2 DEF SaveSection
  <2>3. WorkerSaves(t, s, "sections") BY <1>2, <2>1 DEF SaveSection, WorkerSaves
  <2> QED BY <2>3, WorkerSavesKeeps
<1>3. CASE SaveAudio(t) \/ SaveSubtitles(t) \/ SaveVideo(t)
  <2>1. /\ task[t].phase = "made" /\ UNCHANGED <<run, files, request, sweeper>>
        /\ \/ /\ run[task[t].run].row /\ To(t, "saved")
              /\ rows' = Inserted(Row(t, task[t].sec, TRUE))
           \/ rows' = rows /\ Ends(t, "failed")
    BY <1>3 DEF SaveAudio, SaveSubtitles, SaveVideo, Saved
  <2>2. CASE run[task[t].run].row /\ To(t, "saved") /\ rows' = Inserted(Row(t, task[t].sec, TRUE))
    <3>1. WorkerSaves(t, task[t].sec, "saved") BY <2>1, <2>2 DEF WorkerSaves, To
    <3> QED BY <3>1, WorkerSavesKeeps
  <2>3. CASE rows' = rows /\ Ends(t, "failed")
    <3>1. WorkerGoesOn(t, "off", "failed") BY <2>1, <2>3 DEF WorkerGoesOn, Ends, SameRuns
    <3> QED BY <3>1, WorkerGoesOnKeeps
  <2> QED BY <2>1, <2>2, <2>3
<1> QED BY <1>2, <1>3, StartKeeps, WorkerMovesOn DEF WorkerStep
-----------------------------------------------------------------------------
(* Requests: a request touches the task it has in hand.                    *)

(* The steps that do not touch the tasks.                                  *)
LEMMA RequestMovesOn ==
  ASSUME DeletionInv, UNCHANGED <<run, task, files, rows, sweeper>>, UNCHANGED deletionOnly,
         RequestOK',
         \A u \in Tasks : task[u].run \in Collected \ resumed /\ request.task = u
                          /\ request.phase \in {"publish", "postcheck"}
                          /\ task[u].row \in Active =>
           \/ request'.task = u /\ request'.phase \in {"publish", "postcheck"}
           \/ task[u].quota = "cancelled"
  PROVE DeletionInv'
<1> USE DEF DeletionInv
<1>1. UNCHANGED <<project, deleter, creator, underway, resumed>> BY DEF deletionOnly
<1>2. /\ RunsOK' /\ TasksOK' /\ FilesOK' /\ SweeperOK' /\ StaysStopped' /\ StaysSwept'
      /\ GoneIsLeft' /\ OrphansAreLate'
  BY <1>1 DEF RunsOK, TasksOK, TaskOK, FilesOK, SweeperOK, StaysStopped, Stopped, StaysSwept,
              Swept, GoneIsLeft, OrphansAreLate, Requested
<1>3. RowsOK' /\ DeleterOK'
  <2>1. Steady BY DEF Steady
  <2> QED BY <1>1, <2>1, RowsStay, DeleterStays
<1>4. ExpiredAreOver' /\ RequestedAreOver'
  BY <1>1 DEF ExpiredAreOver, RequestedAreOver, Requested, Refuses
<1>5. StaysCollected' BY <1>1 DEF StaysCollected, Collected
<1>6. PublishedStays'
  <2>1. \A u \in Tasks : Target(u)' = Target(u) /\ (Succeeds(u)' <=> Succeeds(u))
    BY DEF Target, Path, Succeeds
  <2> QED BY <1>1, <2>1, NothingDropped, PublishedCarries
<1> QED BY <1>2, <1>3, <1>4, <1>5, <1>6

(* The steps that touch the task in hand, or dispatch one.                 *)
Handled(t) ==
  /\ DOMAIN task' = Tasks /\ \A u \in Tasks : u # t => task'[u] = task[u]
  /\ task[t].delivery # 0 =>
       /\ task'[t].delivery # 0 /\ task'[t].kind = task[t].kind
       /\ task'[t].run = task[t].run /\ task'[t].sec = task[t].sec
       /\ task'[t].row \in Active => task[t].row \in Active
       /\ task'[t].message => task[t].message
       /\ Succeeds(t)' => Succeeds(t)
  /\ task'[t].phase # "off" => task[t].phase # "off" /\ task[t].delivery # 0
  /\ request.phase \in {"publish", "postcheck"} => request.task = t
  /\ task'[t].run \in Collected \ resumed /\ task'[t].row \in Active =>
       /\ task'[t].delivery = 0
       /\ \/ request'.task = t /\ request'.phase \in {"publish", "postcheck"}
          \/ task'[t].quota = "cancelled"

(* What a request does to the task in hand keeps the invariant.            *)
LEMMA RequestHandles ==
  ASSUME DeletionInv, NEW t \in Tasks, UNCHANGED <<run, files, rows, sweeper>>,
         UNCHANGED deletionOnly, Handled(t), TaskOK(t)', RequestOK'
  PROVE DeletionInv'
<1> USE DEF DeletionInv
<1>1. UNCHANGED <<project, deleter, creator, underway, resumed>> BY DEF deletionOnly
<1>2. /\ RunsOK' /\ SweeperOK' /\ StaysStopped' /\ StaysSwept' /\ OrphansAreLate'
  BY <1>1 DEF RunsOK, SweeperOK, StaysStopped, Stopped, StaysSwept, Swept, OrphansAreLate, Requested
<1>3. TasksOK' BY DEF Handled, TasksOK, TaskOK
<1>4. FilesOK' BY DEF FilesOK, Handled
<1>5. RowsOK' /\ DeleterOK'
  <2>1. Steady BY DEF Steady, Handled
  <2> QED BY <1>1, <2>1, RowsStay, DeleterStays
<1>6. StaysCollected' BY <1>1 DEF StaysCollected, Collected, Handled
<1>7. GoneIsLeft' BY <1>1 DEF GoneIsLeft, Handled
<1>8. ExpiredAreOver' BY DEF ExpiredAreOver, RowsOK, RowOK, Handled
<1>9. RequestedAreOver' BY <1>1 DEF RequestedAreOver, RowsOK, RowOK, Requested, Refuses, Handled
<1>10. PublishedStays'
  <2> SUFFICES ASSUME NEW u \in Tasks, NEW f \in files', Succeeds(u)', run'[task'[u].run].row,
                      task'[u].run \notin resumed', f.by[1] = u, f.path = Target(u)'
               PROVE \E a \in rows' : a.idem = <<u, task'[u].sec>> /\ ~Dropping(a)'
    BY DEF PublishedStays
  <2>1. task[u].delivery # 0 BY DEF FilesOK
  <2>2. Succeeds(u) BY <2>1 DEF Handled, Succeeds
  <2>3. task'[u].kind = task[u].kind /\ task'[u].run = task[u].run /\ task'[u].sec = task[u].sec
    BY <2>1 DEF Handled
  <2>4. f.path = Target(u) BY <2>3 DEF Target, Path
  <2>5. PICK a \in rows : a.idem = <<u, task[u].sec>> /\ ~Dropping(a)
    BY <1>1, <2>2, <2>3, <2>4 DEF PublishedStays
  <2> QED BY <1>1, <2>3, <2>5 DEF Dropping, Known
<1> QED BY <1>2, <1>3, <1>4, <1>5, <1>6, <1>7, <1>8, <1>9, <1>10

(* So does every step of a request: it sees the cancellation after it has  *)
(* published, or takes the quota away.                                     *)
LEMMA RequestStepKeeps ==
  ASSUME DeletionInv, RequestStep, UNCHANGED deletionOnly
  PROVE DeletionInv'
<1> USE DEF DeletionInv
<1> DEFINE Leaves == request' = Idle \/ request' = NextParagraph
<1>1. UNCHANGED <<project, deleter, creator, underway, resumed>> BY DEF deletionOnly
<1>2. Collected \subseteq Stopped BY DEF Collected, Stopped, Collecting, DeleterOK
<1>3. \A r \in Collected \ resumed : Refuses(r) BY <1>2 DEF StaysStopped, Refuses
<1>4. UNCHANGED run /\ Leaves /\ request.phase # "idle" =>
        RequestOK' /\ request'.phase \in {"idle", "reserve"}
  <2>1. request' = Idle => RequestOK' /\ request'.phase = "idle"
    BY DEF RequestOK, Idle, Unpublished
  <2>2. ASSUME UNCHANGED run, request.phase # "idle",
               request' = [request EXCEPT !.phase = "reserve", !.task = Nothing]
        PROVE RequestOK' /\ request'.phase = "reserve"
    BY <2>2 DEF RequestOK, Unpublished
  <2> QED BY <2>1, <2>2 DEF NextParagraph
<1>5. ASSUME NEW r \in Runs, NEW kind, NEW bulk, RequestParagraphs(r, kind, bulk)
      PROVE DeletionInv'
  <2>1. request.phase = "idle" /\ UNCHANGED <<run, task, files, rows, sweeper>>
    BY <1>5 DEF RequestParagraphs, Idle
  <2>2. RequestOK'
    BY <1>5 DEF RequestParagraphs, RequestOK, Idle, Refuses, RunsOK, Unpublished
  <2> QED BY <1>1, <2>1, <2>2, RequestMovesOn
<1>6. CASE ReserveParagraph
  <2>1. CASE request' = Idle /\ UNCHANGED task
    BY <1>4, <1>6, <2>1, RequestMovesOn DEF ReserveParagraph
  <2>2. CASE request' # Idle \/ task' # task
    <3>1. PICK s \in request.todo, u \in Tasks :
            /\ task[u].row = "none" /\ task[u].quota = "none"
            /\ task' = [task EXCEPT ![u] = [Unused(request.run) EXCEPT
                          !.kind = request.kind, !.sec = s, !.quota = "held"]]
            /\ request' = [request EXCEPT !.phase = "precheck", !.task = u, !.todo = @ \ {s}]
      BY <1>6, <2>2 DEF ReserveParagraph
    <3>2. UNCHANGED <<run, files, rows, sweeper>> /\ request.phase = "reserve"
      BY <1>6 DEF ReserveParagraph
    <3>3. Handled(u)
      BY <1>1, <3>1, <3>2 DEF Handled, TasksOK, TaskOK, Unused, Active, Succeeds
    <3>4. TaskOK(u)' BY <3>1, <3>2 DEF TasksOK, TaskOK, TaskColumns, Unused, RequestOK
    <3>5. RequestOK' BY <3>1, <3>2 DEF RequestOK, Unpublished, TasksOK, Unused
    <3> QED BY <3>2, <3>3, <3>4, <3>5, RequestHandles
  <2> QED BY <2>1, <2>2
<1>7. CASE PrecheckParagraph \/ RecordPending \/ PostcheckParagraph \/ PublishParagraph
  <2>1. PICK t \in Tasks :
        /\ t = request.task /\ UNCHANGED <<run, files, rows, sweeper>> /\ TaskOK(t)
        /\ request.phase \in {"precheck", "record", "publish", "postcheck"}
        /\ DOMAIN task = Tasks /\ task[t].quota # "none" /\ task[t].run = request.run
        /\ request.run \in Runs
    BY <1>7 DEF PrecheckParagraph, RecordPending, PostcheckParagraph, PublishParagraph, RequestOK,
                Unpublished, TasksOK
  <2>2. ASSUME UNCHANGED task, Leaves, ~Refuses(request.run) PROVE DeletionInv'
    <3>1. RequestOK' BY <1>4, <2>1, <2>2
    <3> QED BY <1>3, <2>1, <2>2, <3>1, RequestMovesOn
  <2>3. ASSUME Leaves, task' = [task EXCEPT ![t] = Withdrawn(@)],
               request.phase \in {"precheck", "record"}
        PROVE DeletionInv'
    <3>1. Handled(t)
      BY <2>1, <2>3 DEF Handled, Withdrawn, TaskOK, Succeeds, StaysCollected, TaskColumns,
                        RequestOK, Unpublished
    <3>2. TaskOK(t)' BY <2>1, <2>3 DEF TaskOK, Withdrawn, TaskColumns
    <3>3. RequestOK' BY <1>4, <2>1, <2>3
    <3> QED BY <2>1, <3>1, <3>2, <3>3, RequestHandles
  <2>4. CASE PrecheckParagraph
    <3>1. CASE ToRequest("record") /\ UNCHANGED task
      <4>1. RequestOK' BY <2>1, <2>4, <3>1 DEF PrecheckParagraph, ToRequest, RequestOK, Unpublished
      <4> QED BY <2>1, <2>4, <3>1, <4>1, RequestMovesOn DEF PrecheckParagraph
    <3> QED BY <2>1, <2>3, <2>4, <3>1 DEF PrecheckParagraph
  <2>5. CASE RecordPending
    <3>1. CASE /\ run[request.run].row /\ ToRequest("publish")
               /\ task' = [task EXCEPT ![t].row = "pending"]
      <4>0. request.phase = "record" /\ run[request.run].row
        BY <2>5, <3>1 DEF RecordPending
      <4>1. Handled(t)
        BY <2>1, <3>1, <4>0 DEF Handled, TaskOK, TaskColumns, Succeeds, RequestOK, Unpublished,
                                ToRequest
      <4>2. TaskOK(t)' BY <2>1, <3>1, <4>0 DEF TaskOK, TaskColumns, RunsOK, RequestOK, Unpublished
      <4>3. RequestOK'
        BY <2>1, <3>1, <4>0, <4>2 DEF RequestOK, Unpublished, ToRequest, TaskColumns, TaskOK
      <4> QED BY <2>1, <4>1, <4>2, <4>3, RequestHandles
    <3> QED BY <2>1, <2>3, <2>5, <3>1 DEF RecordPending
  <2>6. CASE PublishParagraph
    <3>0. request.phase = "publish" /\ task[t].delivery = 0 /\ task[t].row # "none"
      BY <2>1, <2>6 DEF PublishParagraph, RequestOK, Unpublished
    <3>1. CASE ToRequest("postcheck") /\ task' = [task EXCEPT ![t].message = TRUE,
                                                 ![t].row = IF @ = "pending" THEN "queued" ELSE @]
      <4>1. Handled(t)
        BY <2>1, <3>0, <3>1 DEF Handled, TaskOK, TaskColumns, Succeeds, ToRequest, RequestOK
      <4>2. TaskOK(t)' BY <2>1, <3>0, <3>1 DEF TaskOK, TaskColumns
      <4>3. RequestOK'
        BY <2>1, <3>0, <3>1 DEF RequestOK, ToRequest, Unpublished, TaskColumns, TaskOK
      <4> QED BY <2>1, <4>1, <4>2, <4>3, RequestHandles
    <3>2. ASSUME NEW out \in BOOLEAN, NEW marked \in BOOLEAN, Leaves,
                 task' = [task EXCEPT ![t] =
                   [Withdrawn(IF marked THEN Revoked(@) ELSE @) EXCEPT !.message = out]]
          PROVE DeletionInv'
      <4>1. Handled(t)
        BY <2>1, <3>0, <3>2 DEF Handled, TaskOK, TaskColumns, Succeeds, Withdrawn, Revoked, Active
      <4>2. TaskOK(t)' BY <2>1, <3>0, <3>2 DEF TaskOK, TaskColumns, Withdrawn, Revoked, Active
      <4>3. RequestOK' BY <1>4, <2>1, <3>2
      <4> QED BY <2>1, <4>1, <4>2, <4>3, RequestHandles
    <3> QED BY <2>1, <2>6, <3>1, <3>2 DEF PublishParagraph
  <2>7. CASE PostcheckParagraph
    <3>1. CASE request' = Idle /\ task' = [task EXCEPT ![t] = Withdrawn(Revoked(@))]
      <4>1. Handled(t)
        BY <2>1, <3>1 DEF Handled, TaskOK, TaskColumns, Succeeds, Withdrawn, Revoked, Active
      <4>2. TaskOK(t)' BY <2>1, <3>1 DEF TaskOK, TaskColumns, Withdrawn, Revoked, Active
      <4>3. RequestOK' BY <1>4, <2>1, <3>1
      <4> QED BY <2>1, <4>1, <4>2, <4>3, RequestHandles
    <3>2. CASE ~Refuses(request.run) /\ UNCHANGED task
      BY <2>2, <2>7, <3>2 DEF PostcheckParagraph
    <3> QED BY <2>1, <2>2, <2>7, <3>1, <3>2 DEF PostcheckParagraph
  <2> QED BY <1>7, <2>4, <2>5, <2>6, <2>7
<1> QED BY <1>5, <1>6, <1>7 DEF RequestStep
-----------------------------------------------------------------------------
(* Retention passes, and the marks a deletion makes: rows are written over *)
(* one by one and keep what they refer to.                                 *)
Rewritten(m) ==
  /\ DOMAIN m = rows /\ rows' = {m[a] : a \in rows}
  /\ \A a \in rows : /\ DOMAIN m[a] = RowColumns /\ m[a].id = a.id /\ m[a].run = a.run
                     /\ m[a].path = a.path /\ m[a].idem = a.idem

(* Rows that are written over are still in order.                          *)
LEMMA RewrittenRowsOK ==
  ASSUME TasksOK, RowsOK, Steady, NEW m, Rewritten(m)
  PROVE RowsOK'
<1>1. \A b \in rows' : \E a \in rows : b = m[a] BY DEF Rewritten
<1>2. IsFiniteSet(rows')
  <2>1. DOMAIN m = rows /\ IsFiniteSet(rows) /\ \A b \in rows' : \E a \in rows : m[a] = b
    BY <1>1 DEF Rewritten, RowsOK
  <2> QED BY <2>1, CoveredIsFinite
<1>3. ASSUME NEW a \in rows PROVE RowOK(m[a])'
  <2>1. RowOK(a)' BY RowStays DEF RowsOK
  <2> QED BY <2>1 DEF RowOK, Rewritten
<1>4. \A b \in rows' : RowOK(b)' BY <1>1, <1>3
<1>5. \A b, c \in rows' : b.id = c.id => b = c BY <1>1 DEF Rewritten, RowsOK
<1> QED BY <1>2, <1>4, <1>5 DEF RowsOK

OnlyMessages ==
  DOMAIN task' = Tasks /\ \A u \in Tasks :
    /\ DOMAIN task'[u] = DOMAIN task[u] /\ task'[u].kind = task[u].kind
    /\ task'[u].run = task[u].run /\ task'[u].sec = task[u].sec /\ task'[u].row = task[u].row
    /\ task'[u].phase = task[u].phase /\ task'[u].delivery = task[u].delivery
    /\ task'[u].quota = task[u].quota /\ (task'[u].message => task[u].message)

(* Writing rows over keeps the invariant, as long as only rows of tasks    *)
(* that are over become expired or requested.                              *)
LEMMA RewritingKeeps ==
  ASSUME DeletionInv, NEW m, Rewritten(m), OnlyMessages,
         UNCHANGED <<run, files, request, project, creator, underway, resumed>>,
         SweeperOK', DeleterOK',
         Stopped' \subseteq Stopped, Collected' \subseteq Collected, Swept' \subseteq Swept,
         \A a \in rows : m[a].expired => a.expired \/ /\ task[a.idem[1]].row \notin Active
                                                      /\ ~task'[a.idem[1]].message,
         \A a \in rows : Requested(m[a]) /\ ~m[a].expired /\ a.run \notin resumed =>
           Refuses(a.run) /\ task[a.idem[1]].row \notin Active,
         \A a \in rows, b \in rows' : b = m[a] /\ ~Dropping(a) => ~Dropping(b)'
  PROVE DeletionInv'
<1> USE DEF DeletionInv
<1>1. Steady BY DEF Steady, OnlyMessages
<1>2. /\ \A b \in rows' : \E a \in rows : b = m[a]
      /\ \A a \in rows : m[a] \in rows' /\ m[a].id = a.id /\ m[a].run = a.run
                         /\ m[a].path = a.path /\ m[a].idem = a.idem
      /\ \A a \in rows : a.idem[1] \in Tasks
  BY DEF Rewritten, RowsOK, RowOK
<1>3. RowsOK' BY <1>1, RewrittenRowsOK
<1>4. RunsOK' /\ OrphansAreLate' BY DEF RunsOK, OrphansAreLate
<1>5. TasksOK' BY DEF TasksOK, TaskOK, OnlyMessages
<1>6. FilesOK' BY DEF FilesOK, OnlyMessages
<1>7. RequestOK' BY DEF RequestOK, OnlyMessages
<1>8. StaysStopped' /\ StaysSwept' BY DEF StaysStopped, StaysSwept
<1>9. StaysCollected' BY DEF StaysCollected, OnlyMessages
<1>10. GoneIsLeft' BY DEF GoneIsLeft, OnlyMessages
<1>11. ExpiredAreOver' BY <1>2 DEF ExpiredAreOver, OnlyMessages
<1>12. RequestedAreOver' BY <1>2 DEF RequestedAreOver, OnlyMessages, Refuses
<1>13. PublishedStays'
  <2>1. \A a \in rows : ~Dropping(a) => \E b \in rows' : b.idem = a.idem /\ ~Dropping(b)'
    BY <1>2
  <2>2. \A u \in Tasks : Target(u)' = Target(u) /\ (Succeeds(u)' <=> Succeeds(u))
    BY DEF Target, Path, Succeeds, OnlyMessages
  <2> QED BY <2>1, <2>2, PublishedCarries DEF OnlyMessages
<1> QED BY <1>3, <1>4, <1>5, <1>6, <1>7, <1>8, <1>9, <1>10, <1>11, <1>12, <1>13

(* Files and rows are removed, or nothing but the progress of a pass or of *)
(* a deletion changes: a row may be dropped only after its file.           *)
LEMMA RemovingKeeps ==
  ASSUME DeletionInv, UNCHANGED <<run, task, request, underway, resumed>>,
         files' \subseteq files, rows' \subseteq rows, SweeperOK', DeleterOK',
         Stopped' \subseteq Stopped, Collected' \subseteq Collected,
         \A f \in files' : f.path.run \in Swept' => f.path.run \in Swept,
         \A a \in rows : ~Dropping(a) =>
           (a \in rows' /\ ~Dropping(a)') \/ \A f \in files' : f.path # a.path
  PROVE DeletionInv'
<1> USE DEF DeletionInv
<1>1. RunsOK' /\ TasksOK' /\ RequestOK' /\ FilesOK' /\ OrphansAreLate' /\ GoneIsLeft'
  BY DEF RunsOK, TasksOK, TaskOK, RequestOK, FilesOK, OrphansAreLate, GoneIsLeft
<1>2. RowsOK'
  <2>1. Steady BY DEF Steady
  <2>2. IsFiniteSet(rows') BY FS_Subset DEF RowsOK
  <2>3. \A a \in rows' : RowOK(a)' BY <2>1, RowStays DEF RowsOK
  <2> QED BY <2>2, <2>3 DEF RowsOK
<1>3. StaysStopped' /\ StaysCollected' BY DEF StaysStopped, StaysCollected
<1>4. StaysSwept' BY DEF StaysSwept
<1>5. ExpiredAreOver' /\ RequestedAreOver'
  BY DEF ExpiredAreOver, RequestedAreOver, Requested, Refuses
<1>6. PublishedStays'
  <2> SUFFICES ASSUME NEW u \in Tasks, NEW f \in files', Succeeds(u)', run'[task'[u].run].row,
                      task'[u].run \notin resumed', f.by[1] = u, f.path = Target(u)'
               PROVE \E a \in rows' : a.idem = <<u, task'[u].sec>> /\ ~Dropping(a)'
    BY DEF PublishedStays
  <2>1. Succeeds(u) /\ f.path = Path(task[u].kind, u, task[u].sec) BY DEF Succeeds, Target, Path
  <2>2. PICK a \in rows : a.idem = <<u, task[u].sec>> /\ ~Dropping(a)
    BY <2>1 DEF PublishedStays, Target
  <2>3. a.path = f.path BY <2>1, <2>2 DEF RowsOK, RowOK
  <2> QED BY <2>2, <2>3
<1> QED BY <1>1, <1>2, <1>3, <1>4, <1>5, <1>6

(* A deletion that does not move leaves what it has stopped, collected and *)
(* swept as it is.                                                         *)
LEMMA DeleterRests ==
  ASSUME UNCHANGED deleter
  PROVE Stopped' = Stopped /\ Collected' = Collected /\ Swept' = Swept
BY DEF Stopped, Collected, Swept

(* A row expires when its task is over.                                    *)
LEMMA ExpireKeeps ==
  ASSUME DeletionInv, Expire, UNCHANGED deletionOnly
  PROVE DeletionInv'
<1> USE DEF DeletionInv
<1>1. PICK a \in rows :
        /\ ~a.expired /\ task[a.idem[1]].row \notin Active
        /\ rows' = (rows \ {a}) \cup {[a EXCEPT !.expired = TRUE]}
        /\ task' = [task EXCEPT ![a.idem[1]].message = FALSE]
  BY DEF Expire
<1>2. UNCHANGED <<run, files, request, sweeper>>
      /\ UNCHANGED <<project, deleter, creator, underway, resumed>>
  BY DEF Expire, deletionOnly
<1> DEFINE m == [b \in rows |-> IF b = a THEN [a EXCEPT !.expired = TRUE] ELSE b]
<1>3. \A b \in rows : RowOK(b) /\ DOMAIN b = RowColumns BY DEF RowsOK, RowOK
<1>4. /\ DOMAIN m = rows
      /\ \A b \in rows : /\ DOMAIN m[b] = RowColumns /\ m[b].id = b.id /\ m[b].run = b.run
                         /\ m[b].path = b.path /\ m[b].idem = b.idem
                         /\ m[b].wanted = b.wanted /\ m[b].tries = b.tries
                         /\ m[b].expired => b = a \/ b.expired
                         /\ b.expired => m[b].expired
  BY <1>3 DEF RowColumns
<1>5. rows' = {m[b] : b \in rows} BY <1>1
<1> HIDE DEF m
<1>6. Rewritten(m) BY <1>4, <1>5 DEF Rewritten
<1>7. OnlyMessages /\ ~task'[a.idem[1]].message
  BY <1>1, <1>3 DEF OnlyMessages, TasksOK, TaskOK, TaskColumns, RowOK
<1>8. Steady BY <1>2, <1>7 DEF Steady, OnlyMessages
<1>9. SweeperOK' BY <1>2, <1>4, <1>5 DEF SweeperOK, Requested
<1>10. DeleterOK' BY <1>2, <1>8, DeleterStays
<1>11. \A b \in rows : Requested(m[b]) <=> Requested(b) BY <1>4 DEF Requested
<1>12. \A b \in rows : m[b].expired => b.expired \/ /\ task[b.idem[1]].row \notin Active
                                                    /\ ~task'[b.idem[1]].message
  BY <1>1, <1>4, <1>7
<1>13. \A b \in rows : Requested(m[b]) /\ ~m[b].expired /\ b.run \notin resumed =>
          Refuses(b.run) /\ task[b.idem[1]].row \notin Active
  BY <1>4, <1>11 DEF RequestedAreOver
<1>14. \A b \in rows, c \in rows' : c = m[b] /\ ~Dropping(b) => ~Dropping(c)'
  BY <1>2, <1>4 DEF Dropping, Known
<1> QED BY <1>2, <1>6, <1>7, <1>9, <1>10, <1>12, <1>13, <1>14, DeleterRests, RewritingKeeps

(* What has expired is requested.                                          *)
LEMMA SweepExpiredKeeps ==
  ASSUME DeletionInv, SweepExpired, UNCHANGED deletionOnly
  PROVE DeletionInv'
<1> USE DEF DeletionInv
<1>1. /\ UNCHANGED <<run, task, files, request, sweeper>>
      /\ UNCHANGED <<project, deleter, creator, underway, resumed>>
      /\ rows' = {[a EXCEPT !.wanted = @ \/ a.expired] : a \in rows}
  BY DEF SweepExpired, deletionOnly
<1> DEFINE m == [a \in rows |-> [a EXCEPT !.wanted = @ \/ a.expired]]
<1>2. \A b \in rows : RowOK(b) /\ DOMAIN b = RowColumns BY DEF RowsOK, RowOK
<1>3. /\ DOMAIN m = rows
      /\ \A b \in rows : /\ DOMAIN m[b] = RowColumns /\ m[b].id = b.id /\ m[b].run = b.run
                         /\ m[b].path = b.path /\ m[b].idem = b.idem
                         /\ m[b].tries = b.tries /\ m[b].expired = b.expired
                         /\ m[b].wanted <=> b.wanted \/ b.expired
  BY <1>2 DEF RowColumns
<1>4. rows' = {m[b] : b \in rows} BY <1>1
<1> HIDE DEF m
<1>5. Rewritten(m) BY <1>3, <1>4 DEF Rewritten
<1>6. OnlyMessages /\ Steady BY <1>1 DEF OnlyMessages, Steady, TasksOK
<1>7. SweeperOK' BY <1>1, <1>3, <1>4 DEF SweeperOK, Requested
<1>8. DeleterOK' BY <1>1, <1>6, DeleterStays
<1>9. \A b \in rows : m[b].expired => b.expired BY <1>3
<1>10. \A b \in rows : Requested(m[b]) /\ ~m[b].expired /\ b.run \notin resumed =>
          Refuses(b.run) /\ task[b.idem[1]].row \notin Active
  BY <1>3 DEF RequestedAreOver, Requested
<1>11. \A b \in rows, c \in rows' : c = m[b] /\ ~Dropping(b) => ~Dropping(c)'
  BY <1>1, <1>3 DEF Dropping, Known
<1> QED BY <1>1, <1>5, <1>6, <1>7, <1>8, <1>9, <1>10, <1>11, DeleterRests, RewritingKeeps

(* The row a pass has in hand.                                             *)
LEMMA PickedIsThere ==
  ASSUME RowsOK, SweeperOK, sweeper.phase # "idle"
  PROVE Picked \in rows /\ Picked.id = sweeper.row /\ Requested(Picked) /\ RowOK(Picked)
<1>1. PICK a \in rows : a.id = sweeper.row /\ Requested(a) BY DEF SweeperOK
<1>2. Picked \in rows /\ Picked.id = sweeper.row BY <1>1 DEF Picked
<1>3. Picked = a BY <1>1, <1>2 DEF RowsOK
<1> QED BY <1>1, <1>3 DEF RowsOK

(* A pass picks the first row it may retry.                                *)
LEMMA PickRowKeeps ==
  ASSUME DeletionInv, PickRow, UNCHANGED deletionOnly
  PROVE DeletionInv'
<1> USE DEF DeletionInv
<1> DEFINE a == CHOOSE a \in Retryable : \A b \in Retryable : a.id <= b.id
           ids == {b.id : b \in Retryable}
<1>1. /\ UNCHANGED <<run, task, files, rows, request>>
      /\ UNCHANGED <<project, deleter, creator, underway, resumed>>
      /\ sweeper.phase = "idle"
      /\ sweeper' = [phase |-> "object", row |-> a.id, tried |-> sweeper.tried \cup {a.id}]
  BY DEF PickRow, deletionOnly
<1>2. a \in Retryable
  <2>1. ids \subseteq Nat /\ ids # {} BY DEF PickRow, Retryable, RowsOK, RowOK
  <2>2. PICK n \in ids : \A i \in ids : ~(i < n)
    <3> HIDE DEF ids
    <3> QED BY <2>1, LeastNumber
  <2>3. PICK c \in Retryable : c.id = n BY <2>2
  <2>4. \A b \in Retryable : b.id \in Nat /\ b.id \in ids BY DEF Retryable, RowsOK, RowOK
  <2>5. ASSUME NEW b \in Retryable PROVE c.id <= b.id
    <3>1. ~(b.id < c.id) /\ b.id \in Nat /\ c.id \in Nat BY <2>2, <2>3, <2>4
    <3> QED BY <3>1
  <2> QED BY <2>3, <2>5
<1> HIDE DEF a
<1>3. a \in rows /\ Requested(a) /\ a.id \in Nat BY <1>2 DEF Retryable, RowsOK, RowOK
<1>4. SweeperOK'
  <2>1. IsFiniteSet(sweeper.tried \cup {a.id}) BY FS_AddElement DEF SweeperOK
  <2> QED BY <1>1, <1>3, <2>1 DEF SweeperOK, Requested
<1>5. Steady BY <1>1 DEF Steady
<1>6. DeleterOK' BY <1>1, <1>5, DeleterStays
<1>7. \A b \in rows : ~Dropping(b) => b \in rows' /\ ~Dropping(b)' BY <1>1 DEF Dropping, Known
<1> QED BY <1>1, <1>4, <1>6, <1>7, DeleterRests, RemovingKeeps

(* The file of the row goes before the row, or the row counts the failure. *)
LEMMA SweepObjectKeeps ==
  ASSUME DeletionInv, SweepObject, UNCHANGED deletionOnly
  PROVE DeletionInv'
<1> USE DEF DeletionInv
<1>1. /\ UNCHANGED <<run, task, request>> /\ sweeper.phase = "object"
      /\ UNCHANGED <<project, deleter, creator, underway, resumed>>
  BY DEF SweepObject, deletionOnly
<1>2. Picked \in rows /\ Picked.id = sweeper.row /\ Requested(Picked) /\ RowOK(Picked)
  BY <1>1, PickedIsThere
<1>3. Steady BY <1>1 DEF Steady
<1>4. DeleterOK' BY <1>1, <1>3, DeleterStays
<1>5. CASE files' = {f \in files : f.path # Picked.path} /\ rows' = rows
           /\ sweeper' = [sweeper EXCEPT !.phase = "row"]
  <2>1. SweeperOK' BY <1>1, <1>5 DEF SweeperOK, Requested
  <2>2. ASSUME NEW a \in rows, ~Dropping(a)
        PROVE (a \in rows' /\ ~Dropping(a)') \/ \A f \in files' : f.path # a.path
    <3>1. CASE a = Picked BY <1>5, <3>1
    <3>2. CASE a # Picked
      <4>1. a.id # sweeper.row BY <1>2, <3>2 DEF RowsOK
      <4> QED BY <1>1, <1>5, <2>2, <4>1 DEF Dropping, Known, SweeperOK
    <3> QED BY <3>1, <3>2
  <2> QED BY <1>1, <1>4, <1>5, <2>1, <2>2, DeleterRests, RemovingKeeps
<1>6. CASE files' = files /\ rows' = (rows \ {Picked}) \cup {FailedOnce(Picked)}
           /\ sweeper' = [sweeper EXCEPT !.phase = "idle", !.row = Nothing]
  <2> DEFINE m == [b \in rows |-> IF b = Picked THEN FailedOnce(b) ELSE b]
  <2>1. /\ DOMAIN m = rows
        /\ \A b \in rows : /\ DOMAIN m[b] = RowColumns /\ m[b].id = b.id /\ m[b].run = b.run
                           /\ m[b].path = b.path /\ m[b].idem = b.idem
                           /\ m[b].expired = b.expired
                           /\ b # Picked => m[b] = b
    BY <1>2 DEF RowColumns, RowsOK, RowOK, FailedOnce
  <2>2. rows' = {m[b] : b \in rows} BY <1>2, <1>6
  <2> HIDE DEF m
  <2>3. Rewritten(m) BY <2>1, <2>2 DEF Rewritten
  <2>4. OnlyMessages BY <1>1 DEF OnlyMessages, TasksOK
  <2>5. SweeperOK' BY <1>6 DEF SweeperOK
  <2>6. \A b \in rows : m[b].expired => b.expired BY <2>1
  <2>7. \A b \in rows : Requested(m[b]) /\ ~m[b].expired /\ b.run \notin resumed =>
          Refuses(b.run) /\ task[b.idem[1]].row \notin Active
    BY <1>2, <2>1 DEF RequestedAreOver
  <2>8. \A b \in rows, c \in rows' : c = m[b] /\ ~Dropping(b) => ~Dropping(c)'
    BY <1>1, <1>6, <2>1 DEF Dropping, Known, SweeperOK
  <2> QED BY <1>1, <1>4, <1>6, <2>3, <2>4, <2>5, <2>6, <2>7, <2>8, DeleterRests, RewritingKeeps
<1> QED BY <1>5, <1>6 DEF SweepObject

(* Every step of a retention pass keeps the invariant.                     *)
LEMMA RetentionStepKeeps ==
  ASSUME DeletionInv, RetentionStep, UNCHANGED deletionOnly
  PROVE DeletionInv'
<1> USE DEF DeletionInv
<1>1. UNCHANGED <<project, deleter, creator, underway, resumed>> BY DEF deletionOnly
<1>2. CASE SweepRow
  <2>1. /\ UNCHANGED <<run, task, files, request>> /\ sweeper.phase = "row"
        /\ rows' = rows \ {Picked} /\ sweeper' = [sweeper EXCEPT !.phase = "idle", !.row = Nothing]
    BY <1>2 DEF SweepRow
  <2>2. Picked \in rows /\ Picked.id = sweeper.row BY <2>1, PickedIsThere
  <2>3. SweeperOK' BY <2>1 DEF SweeperOK
  <2>4. Steady BY <2>1 DEF Steady
  <2>5. DeleterOK' BY <1>1, <2>4, DeleterStays
  <2>6. \A a \in rows : ~Dropping(a) => a \in rows' /\ ~Dropping(a)'
    BY <1>1, <2>1, <2>2 DEF Dropping, Known, SweeperOK
  <2> QED BY <1>1, <2>1, <2>3, <2>5, <2>6, DeleterRests, RemovingKeeps
<1>3. CASE PassEnds
  <2>1. /\ UNCHANGED <<run, task, files, rows, request>>
        /\ sweeper' = [phase |-> "idle", row |-> Nothing, tried |-> {}]
    BY <1>3 DEF PassEnds
  <2>2. SweeperOK' BY <2>1, FS_EmptySet DEF SweeperOK
  <2>3. Steady BY <2>1 DEF Steady
  <2>4. DeleterOK' BY <1>1, <2>3, DeleterStays
  <2>5. \A a \in rows : ~Dropping(a) => a \in rows' /\ ~Dropping(a)'
    BY <1>1, <2>1 DEF Dropping, Known
  <2> QED BY <1>1, <2>1, <2>2, <2>4, <2>5, DeleterRests, RemovingKeeps
<1> QED BY <1>2, <1>3, ExpireKeeps, SweepExpiredKeeps, PickRowKeeps, SweepObjectKeeps
        DEF RetentionStep
-----------------------------------------------------------------------------
(* Deletions. *)

(* Steps that only move a deletion on, or end it.                          *)
LEMMA ProgressKeeps ==
  ASSUME DeletionInv, UNCHANGED <<run, task, files, rows, request, sweeper, underway, resumed>>,
         DeleterOK', Stopped' \subseteq Stopped, Collected' \subseteq Collected,
         Swept' \subseteq Swept, deleter'.done \subseteq deleter.done
  PROVE DeletionInv'
<1>1. SweeperOK' BY DEF DeletionInv, SweeperOK, Requested
<1>2. \A a \in rows : ~Dropping(a) => a \in rows' /\ ~Dropping(a)' BY DEF Dropping, Known
<1>3. \A f \in files' : f.path.run \in Swept' => f.path.run \in Swept OBVIOUS
<1> QED BY <1>1, <1>2, <1>3, RemovingKeeps

(* A deletion that is over has nothing in hand.                            *)
LEMMA AtRest ==
  ASSUME deleter' = Resting
  PROVE /\ DeleterOK' /\ Stopped' = {} /\ Collected' = {} /\ Swept' = {}
        /\ deleter'.done = {}
BY DEF Resting, DeleterOK, Stopped, Collected, Swept, AtOne, Collecting

(* A deletion begins with no run stopped, and gives up at any time.        *)
LEMMA BeginningKeeps ==
  ASSUME DeletionInv,
         MarkDeleting \/ ListRuns \/ (\E r \in Runs : DeleteRun(r)) \/ DeletionStops
  PROVE DeletionInv'
<1> USE DEF DeletionInv
<1>1. UNCHANGED <<run, task, files, rows, request, sweeper, underway, resumed>>
  BY DEF MarkDeleting, ListRuns, DeleteRun, DeletionStops, artifactVars
<1>2. CASE MarkDeleting
  <2>1. DeleterOK' BY <1>1, <1>2 DEF MarkDeleting, Resting, DeleterOK, AtOne, Collecting
  <2>2. Stopped' = {} /\ Collected' = {} /\ Swept' = {} /\ deleter'.done = {}
    BY <1>2 DEF MarkDeleting, Resting, Stopped, Collected, Swept, Collecting
  <2> QED BY <1>1, <2>1, <2>2, ProgressKeeps
<1>3. CASE ListRuns
  <2> DEFINE present == {r \in Runs : run[r].row}
  <2>1. /\ deleter.phase = "list" /\ UNCHANGED project
        /\ deleter' = [deleter EXCEPT !.phase = "cancel", !.runs = present, !.todo = present]
    BY <1>3 DEF ListRuns
  <2>2. DeleterOK' BY <1>1, <2>1 DEF Resting, DeleterOK, AtOne, Collecting
  <2>3. Stopped' = {} /\ Collected' = {} /\ Swept' = {} /\ deleter'.done = {}
    BY <2>1 DEF DeleterOK, Resting, Stopped, Collected, Swept, Collecting, AtOne
  <2> QED BY <1>1, <2>2, <2>3, ProgressKeeps
<1>4. ASSUME NEW r \in Runs, DeleteRun(r) PROVE DeletionInv'
  <2>1. DeleterOK' BY <1>1, <1>4 DEF DeleteRun, Resting, DeleterOK, AtOne, Collecting
  <2>2. Stopped' = {} /\ Collected' = {} /\ Swept' = {} /\ deleter'.done = {}
    BY <1>4 DEF DeleteRun, Resting, Stopped, Collected, Swept, Collecting
  <2> QED BY <1>1, <2>1, <2>2, ProgressKeeps
<1>5. CASE DeletionStops
  <2>1. deleter' = Resting BY <1>5 DEF DeletionStops, Refused
  <2> QED BY <1>1, <2>1, AtRest, ProgressKeeps
<1> QED BY <1>2, <1>3, <1>4, <1>5

(* A run is cancelled, or the deletion goes on to the tasks, or gives up.  *)
LEMMA CancelRunKeeps ==
  ASSUME DeletionInv, CancelRun
  PROVE DeletionInv'
<1> USE DEF DeletionInv
<1>1. UNCHANGED <<task, files, rows, request, sweeper, project, creator, underway, resumed>>
      /\ deleter.phase = "cancel"
  BY DEF CancelRun
<1>2. CASE deleter.todo = {} /\ ForEachRun("revoke") /\ UNCHANGED run
  <2>1. deleter' = [deleter EXCEPT !.phase = "revoke", !.todo = deleter.runs]
    BY <1>2 DEF ForEachRun
  <2>2. DeleterOK' BY <1>1, <1>2, <2>1 DEF DeleterOK, AtOne, Collecting
  <2>3. Stopped' = Stopped /\ Collected' = {} /\ Swept' = {} /\ deleter'.done = deleter.done
    BY <1>1, <1>2, <2>1 DEF DeleterOK, Resting, Stopped, Collected, Swept, Collecting
  <2> QED BY <1>1, <1>2, <2>2, <2>3, ProgressKeeps
<1>3. CASE Refused /\ UNCHANGED run
  <2>1. deleter' = Resting BY <1>3 DEF Refused
  <2> QED BY <1>1, <1>3, <2>1, AtRest, ProgressKeeps
<1>4. ASSUME NEW r \in deleter.todo, run' = [run EXCEPT ![r].status = "cancelled"],
             deleter' = [deleter EXCEPT !.todo = @ \ {r}]
      PROVE DeletionInv'
  <2>1. r \in Runs /\ run[r].row /\ r \in deleter.runs BY DEF DeleterOK
  <2>2. /\ DOMAIN run' = Runs /\ run'[r].status = "cancelled"
        /\ \A s \in Runs : /\ DOMAIN run'[s] = {"row", "status", "stage"}
                           /\ run'[s].row = run[s].row
                           /\ s # r => run'[s].status = run[s].status
    BY <1>4, <2>1 DEF RunsOK
  <2>3. RunsOK' BY <1>1, <2>2 DEF RunsOK
  <2>4. \A s \in Runs : Refuses(s) => Refuses(s)' BY <2>2 DEF Refuses
  <2>5. Steady BY <1>1, <2>2 DEF Steady
  <2>6. TasksOK' BY <1>1, <2>1, <2>2 DEF TasksOK, TaskOK
  <2>7. FilesOK' /\ SweeperOK' BY <1>1 DEF FilesOK, SweeperOK, Requested
  <2>8. RowsOK' BY <1>1, <2>5, RowsStay
  <2>9. RequestOK' BY <1>1, <2>1, <2>2 DEF RequestOK
  <2>10. DeleterOK' BY <1>1, <1>4, <2>1, <2>2 DEF DeleterOK, Resting, AtOne, Collecting
  <2>11. StaysStopped' BY <1>1, <1>4, <2>1, <2>2 DEF StaysStopped, Stopped, DeleterOK, Resting
  <2>12. StaysCollected' /\ StaysSwept'
    BY <1>1, <1>4 DEF StaysCollected, StaysSwept, Collected, Swept, DeleterOK, Resting, Collecting
  <2>13. GoneIsLeft' BY <1>1, <2>2 DEF GoneIsLeft, TasksOK, TaskOK
  <2>14. OrphansAreLate' BY <1>1, <2>2 DEF OrphansAreLate, FilesOK, TasksOK, TaskOK
  <2>15. ExpiredAreOver' BY <1>1 DEF ExpiredAreOver
  <2>16. RequestedAreOver'
    BY <1>1, <2>4 DEF RequestedAreOver, Requested, RowsOK, RowOK, TasksOK, TaskOK
  <2>17. PublishedStays'
    <3>1. \A u \in Tasks : Target(u)' = Target(u) /\ (Succeeds(u)' <=> Succeeds(u))
      BY <1>1 DEF Target, Path, Succeeds
    <3>2. \A a \in rows : Dropping(a)' => Dropping(a)
      BY <1>1, <1>4 DEF Dropping, Known, DeleterOK, Resting
    <3> QED BY <1>1, <2>2, <3>1, <3>2, PublishedCarries DEF TasksOK, TaskOK
  <2> QED BY <2>3, <2>6, <2>7, <2>8, <2>9, <2>10, <2>11, <2>12, <2>13, <2>14, <2>15, <2>16, <2>17
<1> QED BY <1>2, <1>3, <1>4 DEF CancelRun

(* Tasks are revoked: what goes on of a run that is collected is what was  *)
(* at work.                                                                *)
LEMMA RevokingKeeps ==
  ASSUME DeletionInv, NEW some \in SUBSET Tasks,
         task' = [u \in Tasks |-> IF u \in some THEN Revoked(task[u]) ELSE task[u]],
         UNCHANGED <<run, files, rows, request, sweeper, project, creator, resumed>>,
         DOMAIN underway' = Runs, \A r \in Runs : underway'[r] = underway[r] \/ run[r].row,
         DeleterOK', Stopped' \subseteq Stopped, StaysCollected', Swept' = {},
         deleter'.done \subseteq deleter.done
  PROVE DeletionInv'
<1> USE DEF DeletionInv
<1>1. /\ DOMAIN task' = Tasks
      /\ \A u \in Tasks :
           /\ DOMAIN task'[u] = TaskColumns /\ task'[u].kind = task[u].kind
           /\ task'[u].run = task[u].run /\ task'[u].sec = task[u].sec
           /\ task'[u].delivery = task[u].delivery /\ task'[u].message = task[u].message
           /\ task'[u].quota = task[u].quota /\ task'[u].phase = task[u].phase
           /\ \/ task'[u].row = task[u].row
              \/ task[u].row \in Active /\ task'[u].row = "revoked"
  BY DEF TasksOK, TaskOK, TaskColumns, Revoked
<1>2. Steady BY <1>1 DEF Steady
<1>3. RunsOK' BY DEF RunsOK
<1>4. TasksOK' BY <1>1 DEF TasksOK, TaskOK, Active
<1>5. FilesOK' /\ SweeperOK' BY <1>1 DEF FilesOK, SweeperOK, Requested
<1>6. RowsOK' BY <1>2, RowsStay
<1>7. RequestOK'
  BY <1>1 DEF RequestOK, Active, Unpublished
<1>8. StaysStopped' /\ StaysSwept' BY DEF StaysStopped, StaysSwept
<1>9. GoneIsLeft' BY <1>1 DEF GoneIsLeft, TasksOK, TaskOK
<1>10. OrphansAreLate' BY DEF OrphansAreLate, FilesOK, TasksOK, TaskOK
<1>11. ExpiredAreOver' BY <1>1 DEF ExpiredAreOver, RowsOK, RowOK, Active
<1>12. RequestedAreOver'
  BY <1>1 DEF RequestedAreOver, Requested, RowsOK, RowOK, Refuses, Active
<1>13. PublishedStays'
  <2>1. \A u \in Tasks : Target(u)' = Target(u) /\ (Succeeds(u)' => Succeeds(u))
    BY <1>1 DEF Target, Path, Succeeds
  <2>2. \A a \in rows : Dropping(a)' => Dropping(a) BY DEF Dropping, Known
  <2> QED BY <1>1, <2>1, <2>2, PublishedCarries
<1> QED BY <1>3, <1>4, <1>5, <1>6, <1>7, <1>8, <1>9, <1>10, <1>11, <1>12, <1>13

(* The tasks of a run are collected, whoever is at work goes on.           *)
LEMMA RevokeTasksKeeps ==
  ASSUME DeletionInv, RevokeTasks
  PROVE DeletionInv'
<1> USE DEF DeletionInv
<1>1. UNCHANGED <<run, files, rows, request, sweeper, project, creator, resumed>>
      /\ deleter.phase = "revoke"
  BY DEF RevokeTasks
<1>2. CASE deleter.todo = {} /\ ForEachRun("rows") /\ UNCHANGED <<task, underway>>
  <2>1. deleter' = [deleter EXCEPT !.phase = "rows", !.todo = deleter.runs]
    BY <1>2 DEF ForEachRun
  <2>2. DeleterOK' BY <1>1, <1>2, <2>1 DEF DeleterOK, Resting, AtOne, Collecting
  <2>3. Stopped' = Stopped /\ Collected' = Collected /\ Swept' = {} /\ deleter'.done = deleter.done
    BY <1>1, <1>2, <2>1 DEF DeleterOK, Resting, Stopped, Collected, Swept, Collecting, AtOne
  <2> QED BY <1>1, <1>2, <2>2, <2>3, ProgressKeeps
<1>3. ASSUME NEW r \in deleter.todo,
             task' = [t \in Tasks |-> IF t \in Owed(r) THEN Revoked(task[t]) ELSE task[t]],
             underway' = [underway EXCEPT ![r] =
                            {t \in Tasks : task[t].run = r /\ task[t].phase # "off"}],
             deleter' = [deleter EXCEPT !.todo = @ \ {r}]
      PROVE DeletionInv'
  <2>1. r \in Runs /\ run[r].row /\ r \in deleter.runs /\ Owed(r) \in SUBSET Tasks
    BY DEF DeleterOK, Owed
  <2>2. /\ DOMAIN underway' = Runs
        /\ underway'[r] = {t \in Tasks : task[t].run = r /\ task[t].phase # "off"}
        /\ \A s \in Runs : s # r => underway'[s] = underway[s]
    BY <1>3, <2>1 DEF RunsOK
  <2>3. \A u \in Tasks :
          /\ task'[u].run = task[u].run /\ task'[u].phase = task[u].phase
          /\ task'[u].delivery = task[u].delivery /\ task'[u].quota = task[u].quota
          /\ task'[u].row \in Active => task[u].row \in Active /\ task[u].run # r
    BY <1>3 DEF TasksOK, TaskOK, TaskColumns, Revoked, Owed, Active
  <2>4. DeleterOK'
    BY <1>1, <1>3, <2>1 DEF DeleterOK, Resting, AtOne, Collecting
  <2>5. /\ Stopped' = Stopped /\ Swept' = {} /\ deleter'.done = deleter.done
        /\ Collected' \subseteq Collected \cup {r} /\ Collected' \subseteq Runs
    BY <1>1, <1>3, <2>1 DEF DeleterOK, Resting, Stopped, Collected, Swept, Collecting
  <2>6. StaysCollected' BY <1>1, <2>2, <2>3, <2>5 DEF StaysCollected
  <2> QED BY <1>1, <1>3, <2>1, <2>2, <2>4, <2>5, <2>6, RevokingKeeps
<1>4. ASSUME NEW r \in deleter.todo, NEW some \in SUBSET Owed(r), Refused, UNCHANGED underway,
             task' = [t \in Tasks |-> IF t \in some THEN Revoked(task[t]) ELSE task[t]]
      PROVE DeletionInv'
  <2>1. some \in SUBSET Tasks BY DEF Owed
  <2>2. deleter' = Resting BY <1>4 DEF Refused
  <2>3. StaysCollected' BY <2>2, AtRest DEF StaysCollected
  <2>4. DOMAIN underway' = Runs BY <1>4 DEF RunsOK
  <2> QED BY <1>1, <1>4, <2>1, <2>2, <2>3, <2>4, AtRest, RevokingKeeps
<1> QED BY <1>2, <1>3, <1>4 DEF RevokeTasks

(* The deletion goes on to the rows of the next run.                       *)
LEMMA NextRunKeeps ==
  ASSUME DeletionInv, NextRun
  PROVE DeletionInv'
<1> USE DEF DeletionInv
<1>1. UNCHANGED <<run, task, files, rows, request, sweeper, project, creator, underway, resumed>>
      /\ deleter.phase = "rows"
  BY DEF NextRun, artifactVars
<1>2. CASE Refused
  <2>1. deleter' = Resting BY <1>2 DEF Refused
  <2> QED BY <1>1, <2>1, AtRest, ProgressKeeps
<1>3. CASE deleter.todo = {} /\ ~deleter.failed /\ ToDeleter("delete")
  <2>1. deleter' = [deleter EXCEPT !.phase = "delete"] BY <1>3 DEF ToDeleter
  <2>2. DeleterOK' BY <1>1, <1>3, <2>1 DEF DeleterOK, Resting, AtOne, Collecting
  <2>3. Stopped' = Stopped /\ Collected' = Collected /\ Swept' = Swept
        /\ deleter'.done = deleter.done
    BY <1>1, <1>3, <2>1 DEF DeleterOK, Resting, Stopped, Collected, Swept, Collecting, AtOne
  <2> QED BY <1>1, <2>2, <2>3, ProgressKeeps
<1>4. ASSUME NEW r \in deleter.todo,
             deleter' = [deleter EXCEPT !.phase = "mark", !.at = r, !.todo = @ \ {r},
                           !.list = {a \in rows : a.run = r}, !.done = {}, !.left = FALSE]
      PROVE DeletionInv'
  <2>0. DOMAIN deleter = DOMAIN Resting /\ r \in deleter.runs BY DEF DeleterOK
  <2>1. /\ deleter'.phase = "mark" /\ deleter'.at = r /\ deleter'.todo = deleter.todo \ {r}
        /\ deleter'.list = {a \in rows : a.run = r} /\ deleter'.done = {} /\ deleter'.left = FALSE
        /\ deleter'.whole = deleter.whole /\ deleter'.runs = deleter.runs
        /\ deleter'.failed = deleter.failed /\ DOMAIN deleter' = DOMAIN Resting
    BY <1>4, <2>0 DEF Resting
  <2>2. \A a \in rows : RowOK(a)'
    <3>1. Steady BY <1>1 DEF Steady
    <3> QED BY <3>1, RowStays DEF RowsOK
  <2>3. DeleterOK' BY <1>1, <2>0, <2>1, <2>2 DEF DeleterOK, AtOne, Collecting
  <2>4. Stopped' = Stopped /\ Collected' = Collected /\ Swept' \subseteq Swept
        /\ deleter'.done \subseteq deleter.done
    BY <1>1, <2>1 DEF Stopped, Collected, Swept, Collecting, AtOne
  <2> QED BY <1>1, <2>3, <2>4, ProgressKeeps
<1> QED BY <1>2, <1>3, <1>4 DEF NextRun

(* The rows of a run that was collected belong to tasks that are over.     *)
LEMMA CollectedAreOver ==
  ASSUME DeletionInv, deleter.phase \in AtOne
  PROVE \A a \in rows : a.run = deleter.at /\ a.run \notin resumed =>
          Refuses(a.run) /\ task[a.idem[1]].row \notin Active
<1>1. deleter.at \in Collected /\ deleter.at \in Stopped
  BY DEF DeletionInv, DeleterOK, Collected, Stopped, AtOne, Collecting
<1> QED
  BY <1>1 DEF DeletionInv, StaysStopped, StaysCollected, RowsOK, RowOK, Refuses

(* The rows of a collected run are requested.                              *)
LEMMA RequestDeletionKeeps ==
  ASSUME DeletionInv, RequestDeletion
  PROVE DeletionInv'
<1> USE DEF DeletionInv
<1>1. /\ UNCHANGED <<run, task, files, request, sweeper, project, creator, underway, resumed>>
      /\ deleter.phase = "mark" /\ deleter' = [deleter EXCEPT !.phase = "objects"]
      /\ rows' = {[a EXCEPT !.wanted = @ \/ a.run = deleter.at] : a \in rows}
  BY DEF RequestDeletion, ToDeleter
<1> DEFINE m == [a \in rows |-> [a EXCEPT !.wanted = @ \/ a.run = deleter.at]]
<1>2. \A b \in rows : RowOK(b) /\ DOMAIN b = RowColumns BY DEF RowsOK, RowOK
<1>3. /\ DOMAIN m = rows
      /\ \A b \in rows : /\ DOMAIN m[b] = RowColumns /\ m[b].id = b.id /\ m[b].run = b.run
                         /\ m[b].path = b.path /\ m[b].idem = b.idem
                         /\ m[b].tries = b.tries /\ m[b].expired = b.expired
                         /\ m[b].wanted <=> b.wanted \/ b.run = deleter.at
  BY <1>2 DEF RowColumns
<1>4. rows' = {m[b] : b \in rows} BY <1>1
<1> HIDE DEF m
<1>5. Rewritten(m) BY <1>3, <1>4 DEF Rewritten
<1>6. OnlyMessages /\ Steady BY <1>1 DEF OnlyMessages, Steady, TasksOK
<1>7. SweeperOK' BY <1>1, <1>3, <1>4 DEF SweeperOK, Requested
<1>8. DeleterOK'
  <2>1. deleter'.phase = "objects" /\ deleter'.at = deleter.at /\ deleter'.todo = deleter.todo
        /\ deleter'.list = deleter.list /\ deleter'.done = deleter.done
        /\ deleter'.left = deleter.left /\ deleter'.whole = deleter.whole
        /\ deleter'.runs = deleter.runs /\ deleter'.failed = deleter.failed
        /\ DOMAIN deleter' = DOMAIN Resting
    BY <1>1 DEF DeleterOK, Resting
  <2>2. \A a \in deleter.list : RowOK(a)' /\ a.run = deleter.at
    BY <1>1, <1>6, RowStays DEF DeleterOK, AtOne
  <2> QED BY <1>1, <2>1, <2>2 DEF DeleterOK, AtOne, Collecting
<1>9. Stopped' = Stopped /\ Collected' = Collected /\ Swept' = Swept /\ deleter'.done = deleter.done
  BY <1>1 DEF DeleterOK, Resting, Stopped, Collected, Swept, Collecting, AtOne
<1>10. \A b \in rows : m[b].expired => b.expired BY <1>3
<1>11. \A b \in rows : Requested(m[b]) /\ ~m[b].expired /\ b.run \notin resumed =>
          Refuses(b.run) /\ task[b.idem[1]].row \notin Active
  BY <1>1, <1>3, CollectedAreOver DEF RequestedAreOver, Requested, AtOne
<1>12. \A b \in rows, c \in rows' : c = m[b] /\ ~Dropping(b) => ~Dropping(c)'
  BY <1>1, <1>3, <1>9 DEF Dropping, Known
<1> QED BY <1>1, <1>5, <1>6, <1>7, <1>8, <1>9, <1>10, <1>11, <1>12, RewritingKeeps

(* A file of the run goes, or its row counts the failure: the row the      *)
(* deletion is going to drop refers to no file any more.                   *)
LEMMA DeleteArtifactKeeps ==
  ASSUME DeletionInv, DeleteArtifact
  PROVE DeletionInv'
<1> USE DEF DeletionInv
<1>1. UNCHANGED <<run, task, request, sweeper, project, creator, underway, resumed>>
      /\ deleter.phase = "objects"
  BY DEF DeleteArtifact
<1>2. DOMAIN deleter = DOMAIN Resting /\ Steady BY <1>1 DEF DeleterOK, Steady
<1>3. \A a \in deleter.list : RowOK(a) /\ RowOK(a)' /\ a.run = deleter.at
  BY <1>1, <1>2, RowStays DEF DeleterOK, AtOne
<1>4. CASE ToDeleter("drop") /\ UNCHANGED <<files, rows>>
  <2>1. deleter' = [deleter EXCEPT !.phase = "drop"] BY <1>4 DEF ToDeleter
  <2>2. DeleterOK' BY <1>1, <1>2, <1>3, <2>1 DEF DeleterOK, Resting, AtOne, Collecting
  <2>3. Stopped' = Stopped /\ Collected' = Collected /\ Swept' = Swept
        /\ deleter'.done = deleter.done
    BY <1>1, <1>2, <2>1 DEF Resting, Stopped, Collected, Swept, Collecting, AtOne
  <2> QED BY <1>1, <1>4, <2>2, <2>3, ProgressKeeps
<1>5. ASSUME NEW a \in deleter.list, files' = {f \in files : f.path # a.path}, UNCHANGED rows,
             deleter' = [deleter EXCEPT !.list = @ \ {a}, !.done = @ \cup {Known(a)}]
      PROVE DeletionInv'
  <2>1. /\ deleter'.phase = "objects" /\ deleter'.at = deleter.at /\ deleter'.todo = deleter.todo
        /\ deleter'.list \subseteq deleter.list /\ deleter'.done = deleter.done \cup {Known(a)}
        /\ deleter'.left = deleter.left /\ deleter'.whole = deleter.whole
        /\ deleter'.runs = deleter.runs /\ deleter'.failed = deleter.failed
        /\ DOMAIN deleter' = DOMAIN Resting
    BY <1>1, <1>2, <1>5 DEF Resting
  <2>2. Known(a)[2][1] \in Tasks /\ task[Known(a)[2][1]].delivery # 0
        /\ task[Known(a)[2][1]].run = deleter.at
    BY <1>3 DEF RowOK, Known
  <2>3. DeleterOK'
    <3>1. \A known \in deleter'.done :
            LET t == known[2][1]
            IN  t \in Tasks /\ task[t].delivery # 0 /\ task[t].run = deleter.at
      BY <2>1, <2>2 DEF DeleterOK
    <3> QED BY <1>1, <1>3, <2>1, <3>1 DEF DeleterOK, AtOne, Collecting
  <2>4. Stopped' = Stopped /\ Collected' = Collected /\ Swept' = Swept
    BY <1>1, <2>1 DEF Stopped, Collected, Swept, Collecting, AtOne
  <2>5. ASSUME NEW b \in rows, ~Dropping(b)
        PROVE (b \in rows' /\ ~Dropping(b)') \/ \A f \in files' : f.path # b.path
    <3>1. CASE Known(b) = Known(a)
      <4>1. b.idem = a.idem BY <3>1 DEF Known
      <4>2. b.path = a.path BY <1>3, <4>1 DEF RowsOK, RowOK
      <4> QED BY <1>5, <4>2
    <3>2. CASE Known(b) # Known(a)
      BY <1>1, <1>5, <2>1, <2>5, <3>2 DEF Dropping, Known
    <3> QED BY <3>1, <3>2
  <2>6. SweeperOK' BY <1>1, <1>5 DEF SweeperOK, Requested
  <2> QED BY <1>1, <1>5, <2>3, <2>4, <2>5, <2>6, RemovingKeeps
<1>6. ASSUME NEW a \in deleter.list, ~Locked({a.id}), UNCHANGED files,
             rows' = {IF Known(b) = Known(a) THEN FailedOnce(b) ELSE b : b \in rows},
             deleter' = [deleter EXCEPT !.list = @ \ {a}, !.left = TRUE, !.failed = TRUE]
      PROVE DeletionInv'
  <2> DEFINE m == [b \in rows |-> IF Known(b) = Known(a) THEN FailedOnce(b) ELSE b]
  <2>1. /\ DOMAIN m = rows
        /\ \A b \in rows : /\ DOMAIN m[b] = RowColumns /\ m[b].id = b.id /\ m[b].run = b.run
                           /\ m[b].path = b.path /\ m[b].idem = b.idem
                           /\ m[b].expired = b.expired
                           /\ m[b] = b \/ (b.id = a.id /\ b.idem = a.idem)
    BY DEF RowColumns, RowsOK, RowOK, FailedOnce, Known
  <2>2. rows' = {m[b] : b \in rows} BY <1>6
  <2> HIDE DEF m
  <2>3. Rewritten(m) BY <2>1, <2>2 DEF Rewritten
  <2>4. OnlyMessages BY <1>1 DEF OnlyMessages, TasksOK
  <2>5. SweeperOK' BY <1>1, <1>6, <2>1, <2>2 DEF SweeperOK, Locked, Requested
  <2>6. /\ deleter'.phase = "objects" /\ deleter'.at = deleter.at /\ deleter'.todo = deleter.todo
        /\ deleter'.list \subseteq deleter.list /\ deleter'.done = deleter.done
        /\ deleter'.left = TRUE /\ deleter'.whole = deleter.whole
        /\ deleter'.runs = deleter.runs /\ deleter'.failed = TRUE
        /\ DOMAIN deleter' = DOMAIN Resting
    BY <1>1, <1>2, <1>6 DEF Resting
  <2>7. DeleterOK'
    <3>1. \A known \in deleter'.done :
            LET t == known[2][1]
            IN  t \in Tasks /\ task[t].delivery # 0 /\ task[t].run = deleter.at
      BY <2>6 DEF DeleterOK
    <3> QED BY <1>1, <1>3, <2>6, <3>1 DEF DeleterOK, AtOne, Collecting
  <2>8. Stopped' = Stopped /\ Collected' = Collected /\ Swept' \subseteq Swept
    BY <1>1, <2>6 DEF Stopped, Collected, Swept, Collecting, AtOne
  <2>9. \A b \in rows : m[b].expired => b.expired BY <2>1
  <2>10. ASSUME NEW b \in rows, Requested(m[b]), ~m[b].expired, b.run \notin resumed
         PROVE Refuses(b.run) /\ task[b.idem[1]].row \notin Active
    <3>1. CASE m[b] = b BY <2>10, <3>1 DEF RequestedAreOver
    <3>2. CASE b.id = a.id /\ b.idem = a.idem
      <4>1. b.run = a.run BY <1>3, <3>2 DEF RowsOK, RowOK
      <4>2. b.run = deleter.at BY <1>3, <4>1
      <4> QED BY <1>1, <2>10, <4>2, CollectedAreOver DEF AtOne
    <3> QED BY <2>1, <3>1, <3>2
  <2>11. \A b \in rows, c \in rows' : c = m[b] /\ ~Dropping(b) => ~Dropping(c)'
    BY <1>1, <2>1, <2>6 DEF Dropping, Known
  <2> QED BY <1>1, <1>6, <2>3, <2>4, <2>5, <2>7, <2>8, <2>9, <2>10, <2>11, RewritingKeeps
<1> QED BY <1>4, <1>5, <1>6 DEF DeleteArtifact

(* Only rows whose files went are dropped.                                 *)
LEMMA DropRowsKeeps ==
  ASSUME DeletionInv, DropRows
  PROVE DeletionInv'
<1> USE DEF DeletionInv
<1>1. /\ UNCHANGED <<run, task, files, request, sweeper, project, creator, underway, resumed>>
      /\ deleter.phase = "drop" /\ ~Locked({known[1] : known \in deleter.done})
      /\ rows' = {a \in rows : Known(a) \notin deleter.done}
      /\ deleter' = [deleter EXCEPT !.phase = IF deleter.left THEN "rows" ELSE "tree",
                                    !.done = {}]
  BY DEF DropRows
<1>2. DOMAIN deleter = DOMAIN Resting /\ Steady BY <1>1 DEF DeleterOK, Steady
<1>3. /\ deleter'.phase = IF deleter.left THEN "rows" ELSE "tree"
      /\ deleter'.at = deleter.at /\ deleter'.todo = deleter.todo
      /\ deleter'.list = deleter.list /\ deleter'.done = {}
      /\ deleter'.left = deleter.left /\ deleter'.whole = deleter.whole
      /\ deleter'.runs = deleter.runs /\ deleter'.failed = deleter.failed
      /\ DOMAIN deleter' = DOMAIN Resting
  BY <1>1, <1>2 DEF Resting
<1>4. \A a \in deleter.list : RowOK(a)' /\ a.run = deleter.at
  BY <1>1, <1>2, RowStays DEF DeleterOK, AtOne
<1>5. DeleterOK' BY <1>1, <1>3, <1>4 DEF DeleterOK, AtOne, Collecting
<1>6. Stopped' = Stopped /\ Collected' = Collected /\ Swept' \subseteq Swept
  BY <1>1, <1>3 DEF DeleterOK, Stopped, Collected, Swept, Collecting, AtOne
<1>7. SweeperOK'
  <2>1. ASSUME NEW a \in rows, a.id = sweeper.row, Requested(a), sweeper.phase # "idle"
        PROVE a \in rows'
    BY <1>1, <2>1 DEF Locked, Known
  <2> QED BY <1>1, <2>1 DEF SweeperOK, Requested
<1>8. \A a \in rows : ~Dropping(a) => a \in rows' /\ ~Dropping(a)'
  BY <1>1, <1>3 DEF Dropping, Known
<1> QED BY <1>1, <1>5, <1>6, <1>7, <1>8, RemovingKeeps

(* With the directory every file of the run goes.                          *)
LEMMA DropDirectoryKeeps ==
  ASSUME DeletionInv, DropDirectory
  PROVE DeletionInv'
<1> USE DEF DeletionInv
<1>1. /\ UNCHANGED <<run, task, rows, request, sweeper, project, creator, underway, resumed>>
      /\ deleter.phase = "tree"
      /\ \/ /\ deleter' = [deleter EXCEPT !.phase = "rows"]
            /\ files' = {f \in files : f.path.run # deleter.at}
         \/ /\ deleter' = [deleter EXCEPT !.phase = "rows", !.failed = TRUE] /\ files' = files
  BY DEF DropDirectory, ToDeleter
<1>2. DOMAIN deleter = DOMAIN Resting BY DEF DeleterOK
<1>3. /\ deleter'.phase = "rows" /\ deleter'.at = deleter.at /\ deleter'.todo = deleter.todo
      /\ deleter'.list = deleter.list /\ deleter'.done = deleter.done
      /\ deleter'.left = deleter.left /\ deleter'.whole = deleter.whole
      /\ deleter'.runs = deleter.runs /\ DOMAIN deleter' = DOMAIN Resting
      /\ \/ deleter'.failed = TRUE /\ files' = files
         \/ deleter'.failed = deleter.failed /\ files' = {f \in files : f.path.run # deleter.at}
  BY <1>1, <1>2 DEF Resting
<1>4. deleter.done = {} => DeleterOK'
  BY <1>1, <1>3 DEF DeleterOK, AtOne, Collecting
<1>5. Stopped' = Stopped /\ Collected' = Collected BY <1>1, <1>3 DEF Stopped, Collected, Collecting
<1>6. \A f \in files' : f.path.run \in Swept' => f.path.run \in Swept
  BY <1>1, <1>3 DEF Swept, Collecting, AtOne
<1>7. SweeperOK' BY <1>1 DEF SweeperOK, Requested
<1>8. \A a \in rows : ~Dropping(a) => a \in rows' /\ ~Dropping(a)'
  BY <1>1, <1>3 DEF Dropping, Known
<1>9. deleter.done = {} BY <1>1 DEF DeleterOK
<1> QED BY <1>1, <1>3, <1>4, <1>5, <1>6, <1>7, <1>8, <1>9, RemovingKeeps

(* The runs go at the end: each was swept, and who still works for it was  *)
(* at work when it was collected.                                          *)
LEMMA DeleteRowsKeeps ==
  ASSUME DeletionInv, DeleteRows
  PROVE DeletionInv'
<1> USE DEF DeletionInv
<1> DEFINE lost == IF deleter.whole THEN {r \in Runs : run[r].row} ELSE deleter.runs
<1>1. /\ UNCHANGED <<files, request, sweeper, creator, underway, resumed>>
      /\ deleter.phase = "delete" /\ ~Locked({a.id : a \in {b \in rows : b.run \in lost}})
      /\ run' = [r \in Runs |-> IF r \in lost THEN [run[r] EXCEPT !.row = FALSE] ELSE run[r]]
      /\ rows' = {a \in rows : a.run \notin lost}
      /\ task' = [t \in Tasks |-> IF task[t].run \in lost /\ task[t].row # "none"
                                  THEN [task[t] EXCEPT !.row = "deleted"] ELSE task[t]]
      /\ deleter' = Resting
  BY DEF DeleteRows
<1>2. lost \subseteq deleter.runs /\ lost \subseteq Runs /\ deleter.todo = {} /\ ~deleter.failed
  BY <1>1 DEF DeleterOK
<1>3. deleter.runs = Collected /\ deleter.runs = Swept
  BY <1>1, <1>2 DEF Collected, Swept, Collecting, AtOne
<1> HIDE DEF lost
<1>4. /\ DOMAIN run' = Runs
      /\ \A r \in Runs : /\ DOMAIN run'[r] = {"row", "status", "stage"}
                         /\ run'[r].status = run[r].status
                         /\ r \in lost => run'[r].row = FALSE
                         /\ r \notin lost => run'[r] = run[r]
  BY <1>1 DEF RunsOK
<1>5. /\ DOMAIN task' = Tasks
      /\ \A u \in Tasks :
           /\ DOMAIN task'[u] = TaskColumns /\ task'[u].kind = task[u].kind
           /\ task'[u].run = task[u].run /\ task'[u].sec = task[u].sec
           /\ task'[u].delivery = task[u].delivery /\ task'[u].message = task[u].message
           /\ task'[u].quota = task[u].quota /\ task'[u].phase = task[u].phase
           /\ \/ task'[u].row = task[u].row
              \/ task[u].row # "none" /\ task'[u].row = "deleted"
  BY <1>1 DEF TasksOK, TaskOK, TaskColumns
<1>6. RunsOK' BY <1>1, <1>4 DEF RunsOK
<1>7. TasksOK' BY <1>4, <1>5 DEF TasksOK, TaskOK, Active
<1>8. FilesOK' BY <1>1, <1>5 DEF FilesOK
<1>9. RowsOK'
  <2>1. IsFiniteSet(rows') BY <1>1, FS_Subset DEF RowsOK
  <2>2. ASSUME NEW a \in rows' PROVE RowOK(a)'
    <3>1. a \in rows /\ a.run \notin lost /\ RowOK(a) BY <1>1 DEF RowsOK
    <3>2. Path(task[a.idem[1]].kind, a.idem[1], a.idem[2])'
            = Path(task[a.idem[1]].kind, a.idem[1], a.idem[2])
      BY <1>5, <3>1 DEF Path, RowOK
    <3>3. a.run \in Runs BY <3>1 DEF RowOK, TasksOK, TaskOK
    <3> QED BY <1>4, <1>5, <3>1, <3>2, <3>3 DEF RowOK
  <2> QED BY <1>1, <2>1, <2>2 DEF RowsOK
<1>10. SweeperOK' BY <1>1 DEF SweeperOK, Locked, Requested
<1>11. RequestOK' BY <1>1, <1>4, <1>5 DEF RequestOK, Unpublished
<1>12. DeleterOK' /\ StaysStopped' /\ StaysCollected' /\ StaysSwept'
  BY <1>1, AtRest DEF StaysStopped, StaysCollected, StaysSwept
<1>13. GoneIsLeft' BY <1>1, <1>2, <1>3, <1>4, <1>5 DEF GoneIsLeft, StaysCollected, TasksOK, TaskOK
<1>14. OrphansAreLate'
  BY <1>1, <1>2, <1>3, <1>4 DEF OrphansAreLate, StaysSwept, FilesOK, TasksOK, TaskOK
<1>15. ExpiredAreOver' BY <1>1, <1>5 DEF ExpiredAreOver, RowsOK, RowOK, Active
<1>16. RequestedAreOver'
  BY <1>1, <1>4, <1>5 DEF RequestedAreOver, Requested, RowsOK, RowOK, TasksOK, TaskOK, Refuses,
                          Active
<1>17. PublishedStays'
  <2> SUFFICES ASSUME NEW u \in Tasks, NEW f \in files', Succeeds(u)', run'[task'[u].run].row,
                      task'[u].run \notin resumed', f.by[1] = u, f.path = Target(u)'
               PROVE \E a \in rows' : a.idem = <<u, task'[u].sec>> /\ ~Dropping(a)'
    BY DEF PublishedStays
  <2>1. Target(u)' = Target(u) /\ task[u].run \in Runs BY <1>5 DEF Target, Path, TasksOK, TaskOK
  <2>2. task[u].run \notin lost BY <1>4, <1>5, <2>1
  <2>3. Succeeds(u) BY <1>5 DEF Succeeds
  <2>4. run[task[u].run].row /\ task[u].run \notin resumed /\ f \in files /\ f.path = Target(u)
    BY <1>1, <1>4, <1>5, <2>1, <2>2
  <2>5. PICK a \in rows : a.idem = <<u, task[u].sec>> /\ ~Dropping(a)
    BY <2>3, <2>4 DEF PublishedStays
  <2>6. a \in rows' BY <1>1, <2>2, <2>5 DEF RowsOK, RowOK
  <2>7. deleter'.done = {} BY <1>1, AtRest
  <2>8. ~Dropping(a)' BY <1>1, <2>5, <2>7 DEF Dropping
  <2> QED BY <1>5, <2>5, <2>6, <2>8
<1> QED BY <1>6, <1>7, <1>8, <1>9, <1>10, <1>11, <1>12, <1>13, <1>14, <1>15, <1>16, <1>17
-----------------------------------------------------------------------------
(* Runs are created, brought to the storyboard and resumed. *)
LEMMA RunChangeKeeps ==
  ASSUME DeletionInv, NEW r \in Runs,
         UNCHANGED <<task, files, rows, request, sweeper, project, deleter, underway>>,
         resumed \subseteq resumed', RunsOK', \A s \in Runs : s # r => run'[s] = run[s],
         run'[r].row, run[r].row \/ (run[r].status = "none" /\ project = "draft"),
         r \notin Stopped \ resumed',
         r \in resumed' \/ \A a \in rows : a.run = r /\ Requested(a) => a.expired
  PROVE DeletionInv'
<1> USE DEF DeletionInv
<1>1. run'[r].status # "none" /\ \A s \in Runs : run[s].row => run'[s].row
  BY DEF RunsOK
<1>2. \A s \in Runs : run[s].status # "none" => run'[s].status # "none" BY <1>1
<1>3. TasksOK' BY <1>2 DEF TasksOK, TaskOK
<1>4. FilesOK' /\ SweeperOK' BY DEF FilesOK, SweeperOK, Requested
<1>5. \A a : RowOK(a) => RowOK(a)'
  BY <1>1 DEF RowOK, Path, TasksOK, TaskOK
<1>6. RowsOK' BY <1>5 DEF RowsOK
<1>7. RequestOK' BY <1>2 DEF RequestOK
<1>8. DeleterOK'
  <2>1. \A s \in deleter.runs : run'[s].row BY <1>1 DEF DeleterOK
  <2>2. deleter.whole /\ deleter.phase # "list" => \A s \in Runs : run'[s].row => s \in deleter.runs
    BY DEF DeleterOK
  <2> QED BY <1>5, <2>1, <2>2 DEF DeleterOK
<1>9. StaysStopped' BY DEF StaysStopped, Stopped, DeleterOK
<1>10. StaysCollected' /\ StaysSwept' BY DEF StaysCollected, StaysSwept, Collected, Swept
<1>11. GoneIsLeft' BY <1>1 DEF GoneIsLeft, TasksOK, TaskOK
<1>12. OrphansAreLate' BY <1>1 DEF OrphansAreLate, FilesOK, TasksOK, TaskOK
<1>13. ExpiredAreOver' BY DEF ExpiredAreOver
<1>14. RequestedAreOver'
  BY DEF RequestedAreOver, Requested, Refuses, RowsOK, RowOK, TasksOK, TaskOK
<1>15. PublishedStays'
  <2>1. \A u \in Tasks : Target(u)' = Target(u) /\ (Succeeds(u)' <=> Succeeds(u))
    BY DEF Target, Path, Succeeds
  <2>2. \A u \in Tasks : Succeeds(u) /\ run'[task[u].run].row => run[task[u].run].row
    BY DEF Succeeds, TasksOK, TaskOK
  <2>3. \A a \in rows : Dropping(a)' <=> Dropping(a) BY DEF Dropping, Known
  <2> QED BY <2>1, <2>2, <2>3, PublishedCarries
<1> QED BY <1>3, <1>4, <1>6, <1>7, <1>8, <1>9, <1>10, <1>11, <1>12, <1>13, <1>14, <1>15

(* A request reads the project.                                            *)
LEMMA StartCreatingKeeps ==
  ASSUME DeletionInv, StartCreating
  PROVE DeletionInv'
<1>1. UNCHANGED <<run, task, files, rows, request, sweeper, project, deleter, underway, resumed>>
  BY DEF StartCreating, artifactVars
<1>2. Steady BY <1>1 DEF Steady
<1>3. DeleterOK' BY <1>1, <1>2, DeleterStays DEF DeletionInv
<1> QED BY <1>1, <1>3, DeleterRests, ProgressKeeps

(* A run that is created has neither tasks nor rows, and no deletion of    *)
(* the project has begun.                                                  *)
LEMMA CreateRunKeeps ==
  ASSUME DeletionInv, CreateRun
  PROVE DeletionInv'
<1> USE DEF DeletionInv
<1>1. UNCHANGED <<task, files, rows, request, sweeper, project, deleter, underway, resumed>>
  BY DEF CreateRun
<1>2. CASE UNCHANGED run
  <2>1. Steady BY <1>1, <1>2 DEF Steady
  <2>2. DeleterOK' BY <1>1, <2>1, DeleterStays
  <2> QED BY <1>1, <1>2, <2>2, DeleterRests, ProgressKeeps
<1>3. ASSUME NEW r \in Runs, project = "draft", run[r] = NoRun,
             run' = [run EXCEPT ![r] = [row |-> TRUE, status |-> "pending", stage |-> "IDEA_READY"]]
      PROVE DeletionInv'
  <2>1. RunsOK' BY <1>1, <1>3 DEF RunsOK
  <2>2. run'[r].row /\ ~run[r].row /\ run[r].status = "none"
        /\ \A s \in Runs : s # r => run'[s] = run[s]
    BY <1>3 DEF RunsOK, NoRun
  <2>3. r \notin Stopped BY <2>2 DEF Stopped, DeleterOK
  <2>4. \A a \in rows : a.run # r BY <2>2 DEF RowsOK, RowOK
  <2> QED BY <1>1, <1>3, <2>1, <2>2, <2>3, <2>4, RunChangeKeeps
<1> QED BY <1>2, <1>3 DEF CreateRun

(* A run that advances is not cancelled, so nothing of it is requested.    *)
LEMMA AdvanceKeeps ==
  ASSUME DeletionInv, Advance
  PROVE DeletionInv'
<1> USE DEF DeletionInv
<1>1. /\ UNCHANGED <<task, files, rows, request, sweeper>>
      /\ UNCHANGED <<project, deleter, creator, underway, resumed>>
  BY DEF Advance, deletionOnly
<1>2. PICK r \in Runs, s \in FirstStages :
        /\ run[r].row /\ run[r].status # "cancelled"
        /\ run' = [run EXCEPT ![r].stage = s, ![r].status = "running"]
  BY DEF Advance
<1>3. RunsOK' BY <1>1, <1>2 DEF RunsOK
<1>4. run'[r].row /\ \A q \in Runs : q # r => run'[q] = run[q] BY <1>2 DEF RunsOK
<1>5. r \notin Stopped \ resumed BY <1>2 DEF StaysStopped
<1>6. r \in resumed \/ \A a \in rows : a.run = r /\ Requested(a) => a.expired
  BY <1>2 DEF RequestedAreOver, Refuses
<1> QED BY <1>1, <1>2, <1>3, <1>4, <1>5, <1>6, RunChangeKeeps

(* A run that is resumed in the middle of a deletion is remembered.        *)
LEMMA ResumeRunKeeps ==
  ASSUME DeletionInv, ResumeRun
  PROVE DeletionInv'
<1> USE DEF DeletionInv
<1>1. UNCHANGED <<task, files, rows, request, sweeper, project, deleter, creator, underway>>
  BY DEF ResumeRun
<1>2. PICK r \in Runs :
        /\ run[r].row /\ run' = [run EXCEPT ![r].status = "running"]
        /\ resumed' = IF deleter = Resting /\ ~\E a \in rows : a.run = r /\ Requested(a)
                      THEN resumed ELSE resumed \cup {r}
  BY DEF ResumeRun
<1>3. RunsOK' BY <1>1, <1>2 DEF RunsOK
<1>4. run'[r].row /\ \A q \in Runs : q # r => run'[q] = run[q] BY <1>2 DEF RunsOK
<1>5. resumed \subseteq resumed' BY <1>2
<1>6. r \notin Stopped \ resumed' BY <1>2 DEF Stopped, Resting
<1>7. r \in resumed' \/ \A a \in rows : a.run = r /\ Requested(a) => a.expired BY <1>2
<1> QED BY <1>1, <1>2, <1>3, <1>4, <1>5, <1>6, <1>7, RunChangeKeeps
-----------------------------------------------------------------------------
(* Every step. *)
LEMMA DeletionStepKeeps ==
  ASSUME DeletionInv, [DeletionNext]_deletionVars
  PROVE DeletionInv'
<1>1. CASE ArtifactStep
  BY <1>1, WorkerStepKeeps, RequestStepKeeps, RetentionStepKeeps
     DEF ArtifactStep, DispatchStep, RetainedStep
<1>2. CASE DeleterStep
  BY <1>2, BeginningKeeps, CancelRunKeeps, RevokeTasksKeeps, NextRunKeeps, RequestDeletionKeeps,
     DeleteArtifactKeeps, DropRowsKeeps, DropDirectoryKeeps, DeleteRowsKeeps DEF DeleterStep
<1>3. CASE StartCreating \/ CreateRun \/ Advance \/ ResumeRun
  BY <1>3, StartCreatingKeeps, CreateRunKeeps, AdvanceKeeps, ResumeRunKeeps
<1>4. CASE UNCHANGED deletionVars
  <2>1. UNCHANGED <<run, task, files, rows, request, sweeper, project, deleter, underway, resumed>>
    BY <1>4 DEF deletionVars, artifactVars, deletionOnly
  <2>2. Steady BY <2>1 DEF Steady
  <2>3. DeleterOK' BY <2>1, <2>2, DeleterStays DEF DeletionInv
  <2> QED BY <2>1, <2>3, DeleterRests, ProgressKeeps
<1> QED BY <1>1, <1>2, <1>3, <1>4 DEF DeletionNext, ProjectStep

(* The invariant holds at the beginning.                                   *)
LEMMA DeletionStartsKept ==
  ASSUME DeletionInit
  PROVE DeletionInv
<1>1. /\ run \in [Runs -> {NoRun} \cup [row : {TRUE}, status : {"running"}, stage : FirstStages]]
      /\ task \in [Tasks -> {Unused(r) : r \in Runs} \cup
                     [kind : Kinds, run : Runs, sec : {All}, row : {"queued"}, message : {TRUE},
                      phase : {"off"}, delivery : {0}, quota : {"held"}]]
      /\ \A t \in Tasks : task[t].row = "queued" => run[task[t].run].row
      /\ files = {} /\ rows = {} /\ request = Idle
      /\ sweeper = [phase |-> "idle", row |-> Nothing, tried |-> {}]
      /\ project = "draft" /\ deleter = Resting
      /\ underway = [r \in Runs |-> {}] /\ resumed = {}
  BY DEF DeletionInit, ArtifactsInit
<1>2. RunsOK
  <2>1. ASSUME NEW r \in Runs
        PROVE DOMAIN run[r] = {"row", "status", "stage"} /\ run[r].row \in BOOLEAN
              /\ (run[r].row => run[r].status # "none")
    <3>1. CASE run[r] = NoRun BY <3>1 DEF NoRun
    <3>2. CASE run[r] \in [row : {TRUE}, status : {"running"}, stage : FirstStages]
      BY <3>2
    <3> QED BY <1>1, <3>1, <3>2
  <2> QED BY <1>1, <2>1 DEF RunsOK
<1>3. \A t \in Tasks : task[t].row \in {"none", "queued"} /\ task[t].delivery = 0
                       /\ task[t].phase = "off" /\ task[t].run \in Runs
                       /\ DOMAIN task[t] = TaskColumns
                       /\ (task[t].quota = "none" => task[t].row = "none")
                       /\ (task[t].row = "none" => ~task[t].message)
  <2> TAKE t \in Tasks
  <2>1. CASE \E r \in Runs : task[t] = Unused(r) BY <2>1 DEF Unused, TaskColumns
  <2>2. CASE task[t] \in [kind : Kinds, run : Runs, sec : {All}, row : {"queued"},
                          message : {TRUE}, phase : {"off"}, delivery : {0}, quota : {"held"}]
    BY <2>2 DEF TaskColumns
  <2>3. \/ \E r \in Runs : task[t] = Unused(r)
        \/ task[t] \in [kind : Kinds, run : Runs, sec : {All}, row : {"queued"},
                        message : {TRUE}, phase : {"off"}, delivery : {0}, quota : {"held"}]
    BY <1>1
  <2> QED BY <2>1, <2>2, <2>3
<1>4. TasksOK BY <1>1, <1>2, <1>3 DEF TasksOK, TaskOK, RunsOK
<1>5. FilesOK /\ RowsOK /\ SweeperOK BY <1>1, FS_EmptySet DEF FilesOK, RowsOK, SweeperOK
<1>6. RequestOK BY <1>1 DEF RequestOK, Idle, Unpublished
<1>7. DeleterOK /\ Stopped = {} /\ Collected = {} /\ Swept = {}
  BY <1>1 DEF DeleterOK, Resting, AtOne, Collecting, Stopped, Collected, Swept
<1>8. StaysStopped /\ StaysCollected /\ StaysSwept
  BY <1>7 DEF StaysStopped, StaysCollected, StaysSwept
<1>9. GoneIsLeft /\ OrphansAreLate /\ ExpiredAreOver /\ RequestedAreOver /\ PublishedStays
  BY <1>1, <1>3 DEF GoneIsLeft, OrphansAreLate, ExpiredAreOver, RequestedAreOver, PublishedStays
<1> QED BY <1>2, <1>4, <1>5, <1>6, <1>7, <1>8, <1>9 DEF DeletionInv

(* The invariant says what the runs check.                                 *)
LEMMA DeletionInvIsClean ==
  ASSUME DeletionInv
  PROVE DeletionIsClean
<1> USE DEF DeletionInv
<1>1. NoTaskSlipsThrough
  <2>1. deleter.phase \in {"rows", "mark", "objects", "drop", "tree", "delete"} =>
          deleter.runs = Collected
    BY DEF Collected, Collecting
  <2>2. \A t \in Tasks : task[t].message => ~(request.task = t /\ request.phase = "publish")
    BY DEF RequestOK, Unpublished
  <2> QED BY <2>1, <2>2 DEF NoTaskSlipsThrough, StaysCollected
<1>2. FilesHaveRows
  <2> SUFFICES ASSUME NEW f \in files, run[f.path.run].row, f.path.run \notin resumed,
                      task[f.by[1]].row = "completed", f.path = Target(f.by[1])
               PROVE \E a \in rows : a.path = f.path
    BY DEF FilesHaveRows
  <2> DEFINE t == f.by[1]
  <2>1. t \in Tasks /\ f.path.run = task[t].run BY DEF FilesOK
  <2>2. PICK a \in rows : a.idem = <<t, task[t].sec>>
    BY <2>1 DEF PublishedStays, Succeeds
  <2>3. a.path = f.path BY <2>2 DEF RowsOK, RowOK, Target
  <2> QED BY <2>3
<1> QED BY <1>1, <1>2 DEF DeletionIsClean

(* Whatever requests, workers, retention passes, users and deletions do at *)
(* the same time: a file whose run is gone was written by a worker that    *)
(* was at work when the deletion collected the tasks, no task of a         *)
(* collected run can still start unseen, and the file a task published is  *)
(* referred to as long as its run exists.                                  *)
THEOREM DeletionLeavesNoOrphans == DeletionSpec => []DeletionIsClean
<1>1. DeletionInit => DeletionInv BY DeletionStartsKept
<1>2. DeletionInv /\ [DeletionNext]_deletionVars => DeletionInv' BY DeletionStepKeeps
<1>3. DeletionInv => DeletionIsClean BY DeletionInvIsClean
<1> QED BY <1>1, <1>2, <1>3, PTL DEF DeletionSpec
=============================================================================
