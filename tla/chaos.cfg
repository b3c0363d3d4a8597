SPECIFICATION Spec
INVARIANTS
  SpendIsKept
  ClaimDiscipline
PROPERTIES
  SuccessIsForever
  ImplementsTaskLife
CHECK_DEADLOCK FALSE
CONSTANTS
  NoToken = NoToken
  t1 = t1
  w1 = w1
  r1 = r1
  Tasks = {t1}
  Workers = {w1}
  Mortal = {w1}
  Reconcilers = {r1}
  MaxRetries = 1
  Kinds = {"generate_script"}
  InitialStage = "IDEA_READY"
  Faults = {"slow", "stop", "worker", "reconciler", "db", "broker", "provider", "terminate", "shutdown"}
  UserActions = {"stop"}
