SPECIFICATION StudioSpec
INVARIANTS
  LedgerKept
  DoublesAgree
  DeletionLeavesNothing
  SharedThingsAreKept
PROPERTIES
  LateResultsAreDropped
SYMMETRY PipelineSymmetry
CHECK_DEADLOCK FALSE
CONSTANTS
  NoToken = NoToken
  t1 = t1
  t2 = t2
  Tasks = {t1, t2}
  Workers = {"worker"}
  Mortal = {}
  Reconcilers = {}
  MaxRetries = 0
  Kinds = {"generate_script", "generate_visual_plan", "generate_audio"}
  InitialStage = "SCRIPT_REVIEW"
  Faults = {}
  UserActions = {"restart", "back", "approve", "resume"}
