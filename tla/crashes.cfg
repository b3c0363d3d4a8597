SPECIFICATION Spec
INVARIANTS
  OneExecutor
  CleanupIsExclusive
  QueuedIsDeliverable
PROPERTIES
  ReconcilerSparesNewer
CHECK_DEADLOCK FALSE
CONSTANTS
  NoToken = NoToken
  t1 = t1
  t2 = t2
  w1 = w1
  w2 = w2
  r1 = r1
  Tasks = {t1, t2}
  Workers = {w1, w2}
  Mortal = {w1}
  Reconcilers = {r1}
  MaxRetries = 0
  Kinds = {"generate_script"}
  InitialStage = "IDEA_READY"
  Faults = {"api", "worker", "duplicate"}
  UserActions = {}
