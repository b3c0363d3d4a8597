SPECIFICATION Spec
PROPERTIES
  ReconcilerSparesProgress
CHECK_DEADLOCK FALSE
CONSTANTS
  NoToken = NoToken
  t1 = t1
  t2 = t2
  w1 = w1
  r1 = r1
  Tasks = {t1, t2}
  Workers = {w1}
  Mortal = {}
  Reconcilers = {r1}
  MaxRetries = 0
  Kinds = {"generate_script", "generate_visual_plan"}
  InitialStage = "SCRIPT_REVIEW"
  Faults = {"broker"}
  UserActions = {"approve"}
