SPECIFICATION LiveSpec
PROPERTIES
  TasksSettle
  CleanupEnds
  
CHECK_DEADLOCK FALSE
CONSTANTS
  NoToken = NoToken
  t1 = t1
  w1 = w1
  w2 = w2
  r1 = r1
  Tasks = {t1}
  Workers = {w1, w2}
  Mortal = {w1}
  Reconcilers = {r1}
  MaxRetries = 1
  Kinds = {"generate_script"}
  InitialStage = "IDEA_READY"
  Faults = {"api", "worker", "provider", "timeout"}
  UserActions = {}
