------------------------------ MODULE MCEditor ------------------------------
(***************************************************************************)
(* What a user edits, on small instances: the server's editor session, the *)
(* web client's panels and asynchronous controllers, the drafts of a run   *)
(* and the pages that show them.  They are separate programs; one of them  *)
(* runs in each behaviour.                                                 *)
(***************************************************************************)
EXTENDS EditorPanels, EditorClient, OptimisticEditor

CONSTANTS
  Projects, PageRequests, Flags, Media, BoardScenes, LastRunVersion,  \* of the pages
  PlannedScenes, Values, LastPlanVersion,                            \* of the plan
  Writers, Deliveries, KeyOf, Documents, Scripts, Short,              \* of the drafts
  LastDraft, LastPlan, LastAsset

\* The names of flags and media are not used for anything else.
ASSUME PagesAssumption ==
  /\ {LastRunVersion, LastPlanVersion} \subseteq Nat
  /\ "none" \notin Projects \cup Flags \cup Media \cup Values
  /\ {"free", "list", "read", "act", "save"} \cap Media = {}

ASSUME DraftsAssumption == {LastDraft, LastPlan, LastAsset} \subseteq Nat

VARIABLES
  part,
  stage, drafts, plans, asked, shelf,   \* of ScriptDrafts
  site, page, plan, calls               \* of RunWorkspace, site for its server

draftVars == <<stage, drafts, plans, asked, shelf>>
workspaceVars == <<site, page, plan, calls>>
editorVars == <<sessionVars, panelVars, clientVars, syncVars, draftVars, workspaceVars, part>>

\* Two videos of six and four ticks and a still.
MCKind == [a \in Assets |-> IF a = "still" THEN "image" ELSE "video"]
MCLength == [a \in Assets |-> CASE a = "long" -> 6 [] a = "short" -> 4 [] OTHER -> 0]
MCOrigin == [a \in Assets |-> IF a = "short" THEN "s1" ELSE "s2"]

Seg(id, scene, asset, start, dur, ts, te) ==
  [id |-> <<id>>, scene |-> scene, asset |-> asset, start |-> start, dur |-> dur,
   ts |-> ts, te |-> te, tr |-> "fade"]

\* A draft with a gap, one whose trims are partly unset, and the one the
\* panels start from, contiguous and with whole trims.
Trimmed == <<Seg("x", "s1", "long", 0, 4, 1, 5), Seg("y", "s2", "still", 5, 2, None, None),
             Seg("z", "s2", "short", 7, 2, 0, 2)>>
Plain == <<Seg("x", "s1", "short", 0, 4, None, None), Seg("y", "s1", "long", 4, 2, None, 6)>>
Whole == <<Seg("x", "s1", "long", 0, 4, 1, 5), Seg("y", "s2", "still", 4, 2, None, None),
           Seg("z", "s2", "short", 6, 2, 0, 2)>>

MCFirstCut == {Trimmed, Plain, Whole}

MCCommands(segs) ==
  LET ids == Ids(segs)
  IN  [type : {"trim"}, seg : ids, from : {1}, to : {4}]
      \cup {[type |-> "split", seg |-> segs[i].id, at |-> segs[i].start + 2] : i \in DOMAIN segs}
      \cup [type : {"delete"}, seg : ids, policy : {"gap", "ripple"}]
      \cup [type : {"replace"}, seg : ids, asset : {"short"}]
      \cup [type : {"move"}, seg : ids, to : {0}]
      \cup [type : {"resize"}, seg : ids, dur : {5}]
      \cup {[type |-> "transition", seg |-> <<"x">>, tr |-> "cut", dur |-> None]}
      \cup {[type |-> "output", preset |-> "square"]}

MCRequests ==
  [kind : {"shorten"}, target : {3, 6}, tolerance : {1}]
  \cup {[kind |-> "pace", factor |-> <<1, 2>>, scenes |-> {"s2"}, tr |-> "keep"],
        [kind |-> "pace", factor |-> <<2, 1>>, scenes |-> {"s1"}, tr |-> "cut"],
        [kind |-> "swap", seg |-> <<"z">>, asset |-> "short"],
        [kind |-> "scene", scene |-> "s1", asset |-> "short"],
        [kind |-> "model", commands |-> <<RippleDelete([id |-> <<"x">>]),
                                          [type |-> "move", seg |-> <<"y">>, to |-> 0]>>]}

\* Two requests and a redelivered task; a heading with an aside that
\* splitting drops, one without, and a script with a prompt of its own.
MCDocuments ==
  {<<[type |-> "hook", text |-> <<"p1">>], [type |-> "Body", text |-> <<"p2", "aside", "p3">>]>>,
   <<[type |-> "body", text |-> <<"p2", "aside">>]>>}
MCScripts == {<<[type |-> "hook", text |-> <<"p1">>, prompt |-> "own"],
                [type |-> "Body", text |-> <<"p2", "p3">>, prompt |-> "unset"]>>}
MCKeyOf == [d \in Deliveries |-> "task1"]
Drafts == INSTANCE ScriptDrafts

\* The page, the storyboard and the dialog of a project, and its plan.
Page == INSTANCE RunWorkspace WITH
  Requests <- PageRequests, Scenes <- BoardScenes, LastVersion <- LastRunVersion, server <- site
Plan == INSTANCE RunWorkspace WITH
  Requests <- PageRequests, Scenes <- PlannedScenes, LastVersion <- LastPlanVersion, server <- site

\* The parts of the drafts and of the pages.
Nowhere == /\ site = None /\ page = None /\ plan = None /\ calls = None
WordsBegin ==
  /\ Nowhere
  /\ \/ part = "scripts" /\ Drafts!ScriptsBegin
     \/ part = "plans" /\ Drafts!PlansBegin
     \/ part = "shelf" /\ Drafts!ShelfBegins
DraftsMove ==
  \/ part = "scripts" /\ (Drafts!ScriptStep \/ Drafts!Move)
  \/ part = "plans" /\ (Drafts!PlanStep \/ Drafts!Move)
  \/ part = "shelf" /\ Drafts!ShelfStep
PagesBegin ==
  /\ stage = None /\ drafts = <<>> /\ plans = <<>> /\ asked = None /\ shelf = None
  /\ \/ part = "page" /\ Page!PageInit
     \/ part = "plan" /\ Plan!PlanInit
     \/ part = "board" /\ Page!BoardInit
     \/ part = "dialog" /\ Page!DialogInit
PagesMove ==
  \/ part = "page" /\ Page!PageNext
  \/ part = "plan" /\ Plan!PlanNext
  \/ part = "board" /\ Page!BoardNext
  \/ part = "dialog" /\ Page!DialogNext

EditorInit ==
  /\ SessionInit /\ ClientInit /\ SyncInit
  /\ output = FirstOutput
  /\ \/ /\ Nowhere /\ stage = None /\ drafts = <<>> /\ plans = <<>> /\ asked = None /\ shelf = None
        /\ \/ part = "session" /\ now.segs # Whole /\ panel = PanelOf("none", <<>>)
           \/ /\ part = "panels" /\ now.segs = Whole
              /\ \E kind \in Panels : panel = PanelOf(kind, now.segs)
           \/ /\ part \in {"autosave", "bar", "sync"}
              /\ now.segs = Plain /\ panel = PanelOf("none", <<>>)
     \/ /\ now.segs = Plain /\ panel = PanelOf("none", <<>>)
        /\ WordsBegin \/ PagesBegin

EditorNext ==
  /\ UNCHANGED part
  /\ \/ /\ UNCHANGED <<draftVars, workspaceVars>>
        /\ \/ part = "session" /\ SessionNext /\ UNCHANGED <<panelVars, clientVars, syncVars>>
           \/ part = "panels" /\ PanelNext /\ UNCHANGED <<clientVars, syncVars>>
           \/ part = "autosave" /\ AutosaveNext /\ UNCHANGED <<sessionVars, panelVars, syncVars>>
           \/ part = "bar" /\ BarNext /\ UNCHANGED <<sessionVars, panelVars, syncVars>>
           \/ part = "sync" /\ SyncNext /\ UNCHANGED <<sessionVars, panelVars, clientVars>>
     \/ /\ UNCHANGED <<sessionVars, panelVars, clientVars, syncVars>>
        /\ \/ DraftsMove /\ UNCHANGED workspaceVars
           \/ PagesMove /\ UNCHANGED draftVars

EditorSpec == EditorInit /\ [][EditorNext]_editorVars

-----------------------------------------------------------------------------
\* No edit is lost by the autosave, no proposal is applied twice by the bar,
\* and the optimistic editor settles on what the server accepted
\* (autosave.ts:8-16, aiCommandBar.ts:106-116, optimisticEditor.ts:5-18).
ClientsKeepEdits == ControllersKeepEdits /\ SettledViewIsRight

\* No version of a script or a plan, no section and no image of a scene is
\* lost or doubled by readers, writers and redelivered tasks that overlap
\* (creator_script.py:288-431, visual_plan_service.py:201-259,
\* visual_asset_service.py:84-268).
DraftsKept == part \in {"scripts", "plans", "shelf"} => Drafts!DraftsAreKept

\* Whatever order answers arrive in and whatever the user opens meanwhile,
\* a page shows its own project and nothing older than it has shown, its
\* buttons tell what is under way, typing is kept until the server has it,
\* and a dialog reports once (useProjectData.ts:51-104, useRunActions.ts:52-94,
\* useVisualPlanManager.ts:28-141, useMediaActions.ts:39-158,
\* useRunProgress.ts:40-86).
PagesTellTheTruth ==
  /\ part = "page" => Page!PageIsRight
  /\ part = "plan" => Plan!PlanIsRight
  /\ part = "board" => Page!BoardIsRight
  /\ part = "dialog" => Page!DialogIsRight
=============================================================================
