---------------------------- MODULE RunWorkspace ----------------------------
(***************************************************************************)
(* The web client's project page: what it shows of a project's run while   *)
(* answers of the server arrive late, out of order or for a project the    *)
(* user has left, the actions it sends, the plan it edits, the storyboard  *)
(* and the dialog that waits for a stage.                                  *)
(***************************************************************************)
EXTENDS Integers, FiniteSets, Sequences

CONSTANTS
  Projects,       \* projects the user opens; each has one run
  Requests,       \* requests of the page under way
  Flags,          \* "approving", "goingBack", "stopping", "resuming", "generating", "restarting"
  Media,          \* "image", "audio", "subtitles"
  Scenes, Values, \* scenes of the plan and the storyboard, what a user may type
  LastVersion     \* bound on what the server writes

VARIABLES
  server,         \* what the server has: a run's version and stage, or plans
  page,           \* the project page, the storyboard or the dialog
  plan,           \* the plan it edits
  calls           \* requests: [kind, ...], answered when served

workspaceVars == <<server, page, plan, calls>>

None == "none"
Free == [kind |-> "free"]
Waiting == [n |-> -1, polled |-> FALSE]

\* Every new read, and every change of what is shown, makes older reads
\* stale; a change of project or run disowns actions and timers.
Stale(cs) == [r \in Requests |-> IF cs[r].kind = "read" THEN [cs[r] EXCEPT !.fresh = FALSE] ELSE cs[r]]
Disowned(cs) == [r \in Requests |-> IF cs[r].kind \in {"act", "read"} THEN [cs[r] EXCEPT !.owned = FALSE] ELSE cs[r]]

-----------------------------------------------------------------------------
(* The page of a project (useProjectData, useRunActions).                  *)
\* Whether an action refreshes at once, or in two seconds: a generation
\* does the latter, a render, whose button is the same, the former.
Refreshes(flag) == CASE flag = "restarting" -> {FALSE}
                     [] flag = "generating" -> BOOLEAN
                     [] OTHER -> {TRUE}

BlankPage(project) ==
  [project |-> project, shown |-> Waiting, of |-> None, seen |-> -1, told |-> -1,
   busy |-> {}, timer |-> FALSE, missed |-> FALSE]

Read(project, flag) == [kind |-> "read", project |-> project, fresh |-> TRUE, got |-> Waiting,
                        flag |-> flag, owned |-> TRUE]
Act(flag) == [kind |-> "act", flag |-> flag, owned |-> TRUE, project |-> page.project,
              done |-> None, left |-> IF flag = "restarting" THEN 2 ELSE 1]

Send(r, call) == calls[r] = Free /\ calls' = [Stale(calls) EXCEPT ![r] = call]

OpenProject(p, r) ==
  /\ p # page.project
  /\ calls[r] = Free
  /\ calls' = [q \in Requests |->
                 IF q = r THEN [kind |-> "list", project |-> p, fresh |-> TRUE, got |-> Waiting]
                 ELSE IF calls[q].kind = "list" THEN [calls[q] EXCEPT !.fresh = FALSE]
                 ELSE Disowned(Stale(calls))[q]]
  /\ page' = BlankPage(p)
  /\ UNCHANGED <<server, plan>>

\* refreshRun, by the poll of a stage that polls, or by a timer.
Refresh(r) ==
  /\ page.of = page.project /\ page.of # None
  /\ Send(r, Read(page.project, None))
  /\ \/ page.shown.polled /\ UNCHANGED page
     \/ page.timer /\ page' = [page EXCEPT !.timer = FALSE]
  /\ UNCHANGED <<server, plan>>

Show(p, got) == [page EXCEPT !.shown = got, !.of = p, !.seen = IF got.n > @ THEN got.n ELSE @]

\* The button of an action whose page is still open comes back when the
\* action, and the refresh it waits for, have ended.
NotBusy(p, flag) == [p EXCEPT !.busy = @ \ {flag}]
EndOfAction(p, c) == IF c.owned THEN NotBusy(p, c.flag) ELSE p

OwnsAnyResponse(c) == c.project = page.project                 \* no sequence
OwnsResponse(c) == c.project = page.project /\ c.fresh

\* The list of runs: shown if the project is still open, whatever was asked
\* for meanwhile, and the run it brings disowns what belonged to no run.
ReceiveList(r) ==
  /\ calls[r].kind = "list" /\ calls[r].got # Waiting
  /\ LET c == calls[r]
         mine == OwnsResponse(c)
     IN  /\ page' = IF mine THEN Show(c.project, c.got) ELSE page
         /\ calls' = [IF mine THEN Disowned(Stale(calls)) ELSE calls EXCEPT ![r] = Free]
  /\ UNCHANGED <<server, plan>>

ReceiveRead(r) ==
  /\ calls[r].kind = "read" /\ calls[r].got # Waiting
  /\ page' = EndOfAction(IF OwnsResponse(calls[r]) THEN Show(calls[r].project, calls[r].got) ELSE page,
                         calls[r])
  /\ calls' = [calls EXCEPT ![r] = Free]
  /\ UNCHANGED <<server, plan>>

\* A started generation is polled; an approval may start one.  An action's
\* button is off while an action of its kind is under way.
StartAction(r) ==
  /\ page.of = page.project /\ page.of # None
  /\ calls[r] = Free
  /\ \E flag \in Flags \ page.busy :
       /\ calls' = [calls EXCEPT ![r] = Act(flag)]
       /\ page' = [page EXCEPT !.busy = @ \cup {flag}]
  /\ UNCHANGED <<server, plan>>

ServeAction(r) ==
  /\ calls[r].kind = "act" /\ calls[r].done = None
  /\ \/ /\ server[calls[r].project].n < LastVersion
        /\ \E polled \in IF TRUE \in Refreshes(calls[r].flag) THEN BOOLEAN ELSE {TRUE} :
             server' = [server EXCEPT ![calls[r].project] = [n |-> @.n + 1, polled |-> polled]]
        /\ calls' = [calls EXCEPT ![r].done = "ok"]
     \/ calls' = [calls EXCEPT ![r].done = "failed"] /\ UNCHANGED server
  /\ UNCHANGED <<page, plan>>


\* The first half of a restart resets the stage, the second dispatches.
ReceiveAction(r) ==
  /\ calls[r].kind = "act" /\ calls[r].done # None
  /\ LET c == calls[r]
     IN  \/ /\ c.owned /\ c.done = "ok" /\ c.left = 2
            /\ calls' = [calls EXCEPT ![r].left = 1, ![r].done = None]
            /\ UNCHANGED page
         \/ /\ c.owned /\ c.done = "ok" /\ c.left = 1
            /\ LET after == [page EXCEPT !.told = server[c.project].n]
               IN \E atOnce \in Refreshes(c.flag) :
                   IF atOnce
                   THEN /\ page' = after
                        /\ calls' = [Stale(calls) EXCEPT ![r] = Read(c.project, c.flag)]
                   ELSE /\ page' = [EndOfAction(after, c) EXCEPT !.timer = TRUE]
                        /\ calls' = [calls EXCEPT ![r] = Free]
         \/ /\ ~ c.owned \/ c.done = "failed"
            /\ page' = EndOfAction(page, c)
            /\ calls' = [calls EXCEPT ![r] = Free]
  /\ UNCHANGED <<server, plan>>

\* A read is served with what the server has, or lost.
ServeRead(r) ==
  /\ calls[r].kind \in {"list", "read"} /\ calls[r].got = Waiting
  /\ calls' = [calls EXCEPT ![r].got = server[calls[r].project]]
  /\ UNCHANGED <<server, page, plan>>
LoseRead(r) ==
  /\ calls[r].kind \in {"list", "read"}
  /\ calls' = [calls EXCEPT ![r] = Free]
  /\ page' = LET p == [page EXCEPT !.missed = TRUE]
             IN  IF calls[r].kind = "read" THEN EndOfAction(p, calls[r]) ELSE p
  /\ UNCHANGED <<server, plan>>

\* Workers move the run on.
ServerWorks ==
  /\ \E p \in Projects, polled \in BOOLEAN :
       /\ server[p].n < LastVersion
       /\ server' = [server EXCEPT ![p] = [n |-> @.n + 1, polled |-> polled]]
  /\ UNCHANGED <<page, plan, calls>>

PageInit ==
  /\ server = [p \in Projects |-> [n |-> 0, polled |-> TRUE]]
  /\ page = BlankPage(None)
  /\ calls = [r \in Requests |-> Free]
  /\ plan = None
PageNext ==
  \/ \E r \in Requests :
       \/ \E p \in Projects : OpenProject(p, r)
       \/ Refresh(r) \/ ReceiveList(r) \/ ReceiveRead(r) \/ ServeRead(r) \/ LoseRead(r)
       \/ StartAction(r) \/ ServeAction(r) \/ ReceiveAction(r)
  \/ ServerWorks

-----------------------------------------------------------------------------
(* The plan (useVisualPlanManager): drafts by scene over the newest        *)
(* version seen; the server's plans by version, with a saved value each.   *)
BlankPlan == [scenes |-> <<>>, drafts |-> [s \in Scenes |-> None], version |-> 0,
              typed |-> [s \in Scenes |-> None], kept |-> [s \in Scenes |-> None], stored |-> 0]
Current == Len(server)

IsOlder(version) == version < plan.version
MergePlan(drafts, version) ==
  IF IsOlder(version) THEN [plan EXCEPT !.drafts = drafts]
  ELSE [plan EXCEPT !.drafts = drafts, !.version = version,
          !.scenes = [s \in DOMAIN server[version] \cup {t \in DOMAIN plan.scenes : drafts[t] # None} |->
                        IF s \in DOMAIN server[version] THEN server[version][s] ELSE plan.scenes[s]]]

LoadPlan(r) ==
  /\ Send(r, [kind |-> "read", fresh |-> TRUE, version |-> 0])
  /\ UNCHANGED <<server, page, plan>>
ServePlan(r) ==
  /\ calls[r].kind = "read" /\ calls[r].version = 0
  /\ calls' = [calls EXCEPT ![r].version = Current]
  /\ UNCHANGED <<server, page, plan>>
ReceivePlan(r) ==
  /\ calls[r].kind = "read" /\ calls[r].version > 0
  /\ plan' = IF calls[r].fresh THEN MergePlan(plan.drafts, calls[r].version) ELSE plan
  /\ calls' = [calls EXCEPT ![r] = Free]
  /\ UNCHANGED <<server, page>>

OnFieldChange(s, v) ==
  /\ s \in DOMAIN plan.scenes
  /\ plan' = [plan EXCEPT !.drafts[s] = v, !.typed[s] = v, !.kept[s] = None]
  /\ UNCHANGED <<server, page, calls>>

\* One save of a scene at a time, of what is typed, against the version
\* seen.
OnSaveScene(r, s) ==
  /\ calls[r] = Free
  /\ \A q \in Requests : calls[q].kind = "save" => calls[q].scene # s
  /\ plan.drafts[s] # None /\ s \in DOMAIN plan.scenes
  /\ calls' = [calls EXCEPT ![r] = [kind |-> "save", scene |-> s, value |-> plan.drafts[s],
                                    expected |-> plan.version, version |-> 0]]
  /\ UNCHANGED <<server, page, plan>>

\* The server refuses a version that is not the newest, and a scene that
\* the newest does not have; the answer may be lost.
ServeSave(r) ==
  /\ calls[r].kind = "save" /\ calls[r].version = 0
  /\ LET c == calls[r]
         accepted == c.expected = Current /\ c.scene \in DOMAIN server[Current]
     IN  \/ /\ accepted /\ Current < LastVersion
            /\ server' = Append(server, [server[Current] EXCEPT ![c.scene] = c.value])
            /\ \E answer \in {Current + 1, -1} : calls' = [calls EXCEPT ![r].version = answer]
         \/ /\ ~ accepted
            /\ calls' = [calls EXCEPT ![r].version = -1]
            /\ UNCHANGED server
  /\ UNCHANGED <<page, plan>>

\* What was saved and not typed over is no longer a draft.
ReceiveSave(r) ==
  /\ calls[r].kind = "save" /\ calls[r].version # 0
  /\ LET c == calls[r]
         mine == plan.drafts[c.scene] = c.value
         drafts == IF mine THEN [plan.drafts EXCEPT ![c.scene] = None] ELSE plan.drafts
     IN  plan' = IF c.version < 0 THEN plan
                 ELSE [MergePlan(drafts, c.version) EXCEPT
                         !.kept[c.scene] = IF mine THEN c.value ELSE @,
                         !.stored = IF c.version > @ THEN c.version ELSE @]
  /\ calls' = [calls EXCEPT ![r] = Free]
  /\ UNCHANGED <<server, page>>

\* Somebody else edits a scene, or replaces the plan with a shorter one.
OthersSave ==
  /\ Current < LastVersion
  /\ \E s \in Scenes :
       \/ s \in DOMAIN server[Current]
          /\ server' = Append(server, [server[Current] EXCEPT ![s] = "theirs"])
       \/ server' = Append(server, [t \in {s} |-> "theirs"])
  /\ UNCHANGED <<page, plan, calls>>

\* The stage leaves the ones that have a plan, and comes back: the owner
\* changes, drafts and calls are forgotten.
LeavePlan ==
  /\ plan' = BlankPlan
  /\ calls' = [r \in Requests |-> Free]
  /\ UNCHANGED <<server, page>>

PlanInit ==
  /\ server = <<[s \in Scenes |-> "model"]>>
  /\ plan = BlankPlan
  /\ calls = [r \in Requests |-> Free]
  /\ page = None
PlanNext ==
  \/ \E r \in Requests :
       \/ LoadPlan(r) \/ ServePlan(r) \/ ReceivePlan(r) \/ ServeSave(r) \/ ReceiveSave(r)
       \/ \E s \in Scenes : OnSaveScene(r, s)
  \/ \E s \in Scenes, v \in Values : OnFieldChange(s, v)
  \/ OthersSave \/ LeavePlan

-----------------------------------------------------------------------------
(* The storyboard of a run (UnifiedSceneWorkspace, useMediaActions): media  *)
(* and work by scene, as read, with work it has asked for marked at once.  *)
BlankBoard(run) == [run |-> run, of |-> None, n |-> -1, seen |-> -1, has |-> <<>>, work |-> <<>>,
                    bulk |-> FALSE]
Anew == [has |-> [s \in Scenes |-> {}], work |-> [s \in Scenes |-> None], n |-> 0]
ReadOf(run) == [kind |-> "read", run |-> run, fresh |-> TRUE, got |-> <<>>]
Everything == [r \in Requests |-> IF calls[r] = Free THEN Free
                                  ELSE [calls[r] EXCEPT !.fresh = FALSE]]

OpenBoard(run, r) ==
  /\ run # page.run /\ calls[r] = Free
  /\ page' = BlankBoard(run)
  /\ calls' = [Everything EXCEPT ![r] = ReadOf(run)]
  /\ UNCHANGED <<server, plan>>

\* Read again by the interval of work shown or of a generating stage, or
\* when the page asks for it.
LoadStoryboard(r) ==
  /\ page.run # None
  /\ Send(r, ReadOf(page.run))
  /\ UNCHANGED <<server, page, plan>>
ServeBoard(r) ==
  /\ calls[r].kind = "read" /\ calls[r].got = <<>>
  /\ calls' = [calls EXCEPT ![r].got = server[calls[r].run]]
  /\ UNCHANGED <<server, page, plan>>
ReceiveBoard(r) ==
  /\ calls[r].kind = "read" /\ calls[r].got # <<>>
  /\ LET c == calls[r]
     IN  page' = IF ~ c.fresh THEN page
                 ELSE [page EXCEPT !.of = c.run, !.n = c.got.n, !.has = c.got.has, !.work = c.got.work,
                                   !.seen = IF c.got.n > @ THEN c.got.n ELSE @]
  /\ calls' = [calls EXCEPT ![r] = Free]
  /\ UNCHANGED <<server, plan>>

\* What one click asks for: a medium of one scene, or of every scene that
\* lacks it; the bulk buttons are off while anything is under way.
Works(board) == \E s \in DOMAIN board.work : board.work[s] # None
Lacking(board, medium) ==
  {s \in DOMAIN board.has : medium \notin board.has[s]
                            /\ (medium = "subtitles" => "audio" \in board.has[s])}
Generate(r, medium) ==
  /\ calls[r] = Free /\ page.of = page.run /\ page.of # None
  /\ \/ \E s \in Scenes :
          /\ calls' = [calls EXCEPT ![r] = [kind |-> medium, run |-> page.run, fresh |-> TRUE,
                                            scenes |-> {s}, bulk |-> FALSE, done |-> None]]
          /\ UNCHANGED page
     \/ /\ ~ page.bulk /\ ~ Works(page)
        /\ calls' = [calls EXCEPT ![r] = [kind |-> medium, run |-> page.run, fresh |-> TRUE,
                                          scenes |-> Scenes, bulk |-> TRUE, done |-> None]]
        /\ page' = [page EXCEPT !.bulk = TRUE]
  /\ UNCHANGED <<server, plan>>
ServeGenerate(r) ==
  /\ calls[r].kind \in Media /\ calls[r].done = None
  /\ LET c == calls[r]
         was == server[c.run]
         idle == {s \in c.scenes : was.work[s] = None /\ (c.kind = "subtitles" => "audio" \in was.has[s])}
     IN  \/ /\ was.n < LastVersion
            /\ server' = [server EXCEPT ![c.run] =
                             [was EXCEPT !.n = @ + 1,
                                !.work = [s \in Scenes |-> IF s \in idle THEN c.kind ELSE @[s]]]]
            /\ calls' = [calls EXCEPT ![r].done = "ok", ![r].scenes = idle]
         \/ calls' = [calls EXCEPT ![r].done = "failed"] /\ UNCHANGED server
  /\ UNCHANGED <<page, plan>>

\* A started scene is shown under way; one of a bulk request only if the
\* board still lacks its medium.
Started(c) ==
  IF c.done = "failed" THEN {} ELSE IF c.bulk THEN c.scenes \cap Lacking(page, c.kind) ELSE c.scenes
OwnsBulk(c) == c.fresh
ReceiveGenerate(r) ==
  /\ calls[r].kind \in Media /\ calls[r].done # None
  /\ LET c == calls[r]
     IN  page' = IF ~ OwnsBulk(c) THEN page
                 ELSE [page EXCEPT !.bulk = IF c.bulk THEN FALSE ELSE @,
                         !.work = [s \in DOMAIN @ |-> IF s \in Started(c) THEN c.kind ELSE @[s]]]
  /\ calls' = [calls EXCEPT ![r] = Free]
  /\ UNCHANGED <<server, plan>>
WorkEnds ==
  /\ \E run \in Projects : \E s \in Scenes :
       LET was == server[run]
       IN  /\ was.work[s] # None /\ was.n < LastVersion
           /\ \E got \in {{}, {was.work[s]}} :
                server' = [server EXCEPT ![run] = [was EXCEPT !.n = @ + 1, !.work[s] = None,
                                                              !.has[s] = @ \cup got]]
  /\ UNCHANGED <<page, plan, calls>>

BoardInit ==
  /\ server = [run \in Projects |-> Anew]
  /\ page = BlankBoard(None)
  /\ calls = [r \in Requests |-> Free]
  /\ plan = None
BoardNext ==
  \/ \E r \in Requests :
       \/ \E run \in Projects : OpenBoard(run, r)
       \/ LoadStoryboard(r) \/ ServeBoard(r) \/ ReceiveBoard(r) \/ ServeGenerate(r) \/ ReceiveGenerate(r)
       \/ \E medium \in Media : Generate(r, medium)
  \/ WorkEnds

-----------------------------------------------------------------------------
(* The dialog that waits until a run has left a stage (useRunProgress).     *)
(* The stage expected is the server's stage when the dialog opens.         *)
BlankDialog == [run |-> None, beyond |-> 0, polling |-> FALSE, outcome |-> "running", reports |-> {}]

\* Opening, closing and changing run cancel the effect that polls.
OpenDialog(run) ==
  /\ run # page.run
  /\ page' = [BlankDialog EXCEPT !.run = run, !.beyond = IF run = None THEN 0 ELSE server[run].n]
  /\ calls' = [r \in Requests |-> IF calls[r] = Free THEN Free ELSE [calls[r] EXCEPT !.fresh = FALSE]]
  /\ UNCHANGED <<server, plan>>

\* One poll at a time, none after a report: the run, then its tasks.
Ended(dialog) == dialog.outcome \in {"completed", "failed"}
Poll(r) ==
  /\ page.run # None /\ ~ page.polling /\ ~ Ended(page)
  /\ calls[r] = Free
  /\ page' = [page EXCEPT !.polling = TRUE]
  /\ calls' = [calls EXCEPT ![r] = ReadOf(page.run)]
  /\ UNCHANGED <<server, plan>>
CancelledPoll(c) == ~ c.fresh
ReceivePoll(r) ==
  /\ calls[r].kind = "read"
  /\ LET c == calls[r]
         report(outcome) == [page EXCEPT !.polling = FALSE, !.outcome = outcome,
                                         !.reports = @ \cup {[run |-> c.run, as |-> outcome]}]
     IN  \/ CancelledPoll(c) /\ UNCHANGED page
         \/ ~ CancelledPoll(c) /\ page' = [page EXCEPT !.polling = FALSE, !.outcome = "error"]
         \/ /\ ~ CancelledPoll(c) /\ c.got # <<>>
            /\ page' = CASE c.got.failed -> report("failed")
                         [] ~ c.got.failed /\ c.got.n > page.beyond -> report("completed")
                         [] OTHER -> [page EXCEPT !.polling = FALSE]
  /\ calls' = [calls EXCEPT ![r] = Free]
  /\ UNCHANGED <<server, plan>>
RunMoves ==
  /\ \E run \in Projects, failed \in BOOLEAN :
       /\ server[run].n < LastVersion
       /\ server' = [server EXCEPT ![run] = [n |-> IF failed THEN @.n ELSE @.n + 1, failed |-> failed]]
  /\ UNCHANGED <<page, plan, calls>>

DialogInit ==
  /\ server = [run \in Projects |-> [n |-> 0, failed |-> FALSE]]
  /\ page = BlankDialog
  /\ calls = [r \in Requests |-> Free]
  /\ plan = None
DialogNext ==
  \/ \E r \in Requests : Poll(r) \/ ServeBoard(r) \/ ReceivePoll(r)
  \/ \E run \in Projects \cup {None} : OpenDialog(run)
  \/ RunMoves

-----------------------------------------------------------------------------
\* The page shows a run of the project that is open, and never an older
\* state of it than it has shown (useProjectData.ts:58-98).
PageIsOwn == page.of \in {None, page.project} /\ page.shown.n = page.seen

\* A button is off exactly while the page has an action of its kind under
\* way, whatever project the answers that arrive are for
\* (useRunActions.ts:52-71).
BusyIsUnderWay ==
  page.busy = {calls[r].flag : r \in {q \in Requests : calls[q].kind \in {"act", "read"} /\ calls[q].owned}}
                \ {None}

\* A page with nothing under way shows what its actions did, unless a read
\* was lost (useRunActions.ts:87-94, 140).
QuietPageIsCurrent ==
  (\A r \in Requests : calls[r] = Free) /\ ~ page.timer /\ ~ page.missed =>
    page.shown.n >= page.told

PageIsRight == PageIsOwn /\ BusyIsUnderWay /\ QuietPageIsCurrent

\* What a user types into a scene stays a draft until the server has it,
\* and the page never falls behind a version it has saved
\* (useVisualPlanManager.ts:28-36, 103-141).
TypingIsKept ==
  /\ \A s \in Scenes : plan.typed[s] # None => plan.typed[s] \in {plan.drafts[s], plan.kept[s]}
  /\ plan.version >= plan.stored

\* Scenes are shown as the version shown has them.
ShownIsServed ==
  plan.version > 0 =>
    \A s \in DOMAIN server[plan.version] : plan.scenes[s] = server[plan.version][s]

PlanIsRight == TypingIsKept /\ ShownIsServed

\* A storyboard is of the run that is open and never older than one it has
\* shown, shows no medium the server does not have, and its bulk buttons
\* are off exactly while a bulk request of this opening is under way
\* (UnifiedSceneWorkspace.tsx:115-130, useMediaActions.ts:39-46, 129-158).
BoardIsRight ==
  /\ page.of \in {None, page.run} /\ page.n = page.seen
  /\ \A s \in DOMAIN page.has : page.has[s] \subseteq server[page.run].has[s]
  /\ page.bulk = \E r \in Requests : calls[r].kind \in Media /\ calls[r].bulk /\ calls[r].fresh

\* A dialog reports its own run, and once; a run whose dialog is still
\* waiting is polled or can be polled (useRunProgress.ts:40-86).
DialogIsRight ==
  /\ \A x \in page.reports : x.run = page.run /\ x.as = page.outcome
  /\ page.polling = \E r \in Requests : calls[r].kind = "read" /\ calls[r].fresh
=============================================================================
