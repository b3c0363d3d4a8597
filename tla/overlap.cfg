SPECIFICATION Spec
INVARIANTS
  ReservationHasOwner
PROPERTIES
  CancelledUntilResumed
SYMMETRY TaskSymmetry
CHECK_DEADLOCK FALSE
CONSTANTS
  NoToken = NoToken
  t1 = t1
  t2 = t2
  w1 = w1
  r1 = r1
  Tasks = {t1, t2}
  Workers = {w1}
  Mortal = {}
  Reconcilers = {r1}
  MaxRetries = 0
  Kinds = {"generate_script"}
  InitialStage = "IDEA_READY"
  Faults = {}
  UserActions = {"stop", "resume"}
