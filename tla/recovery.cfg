SPECIFICATION RecoveryLiveSpec
INVARIANTS
  QueuedIsRecoverable
  FinalRowReleased
PROPERTIES
  LostWorkSettles
  CurrentGenerationUntouched
CHECK_DEADLOCK FALSE
CONSTANTS
  NoToken = NoToken
  t1 = t1
  w1 = w1
  r1 = r1
  p1 = p1
  Tasks = {t1}
  Workers = {w1}
  Mortal = {w1}
  Reconcilers = {r1}
  Recoverers = {p1}
  MaxEpoch = 2
  Observed0 = 0
  MaxRetries = 1
  Kinds = {"generate_script"}
  InitialStage = "IDEA_READY"
  Faults = {"cleanup"}
  UserActions = {}
