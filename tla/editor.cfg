SPECIFICATION EditorSpec
INVARIANTS
  EditsKeepTimelinesSound
  ProposalsKeepTheirPromise
  PanelsMatchServer
  ClientsKeepEdits
  DraftsKept
  PagesTellTheTruth
CHECK_DEADLOCK FALSE
CONSTANTS
  Assets = {"long", "short", "still"}
  Kind <- MCKind
  Length <- MCLength
  Origin <- MCOrigin
  FirstCut <- MCFirstCut
  Commands <- MCCommands
  Requests <- MCRequests
  Fleeting = {"short"}
  MaxDepth = 2
  MaxSegments = 3
  Panels = {"move", "delete", "split", "resize", "replace", "transition", "output"}
  MaxEdits = 3
  MaxSaves = 4
  MaxTheirs = 2
  MaxAsks = 3
  MaxLocal = 3
  MaxForeign = 1
  MaxFresh = 1
  Projects = {"p1", "p2"}
  PageRequests = {1, 2}
  Flags = {"approving", "restarting"}
  Media = {"audio", "subtitles"}
  BoardScenes = {"s1"}
  LastRunVersion = 2
  PlannedScenes = {"s1", "s2"}
  Values = {"u", "v"}
  LastPlanVersion = 3
  Writers = {"w1", "w2"}
  Deliveries = {"d1"}
  KeyOf <- MCKeyOf
  Documents <- MCDocuments
  Scripts <- MCScripts
  Short = {"aside"}
  LastDraft = 2
  LastPlan = 3
  LastAsset = 3
