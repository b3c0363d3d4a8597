SPECIFICATION LibrarySpec
INVARIANTS
  AssetHasObject
  ObjectsAreKnown
PROPERTIES
  CapacityComesBack
  ClaimsEnd
CHECK_DEADLOCK FALSE
CONSTANTS
  u1 = u1
  s1 = s1
  k1 = k1
  Uploads = {u1}
  Big = {}
  Sweepers = {s1}
  MaxBytes = 3
  MaxAssets = 2
  MaxReserved = 3
  CleanupLimit = 2
  UploadFaults = {"cancel", "put", "raise", "save", "ack", "delete", "crash", "sweeper"}
  Stored = {}
  Keepers = {k1}
  Approvers = {}
  UserStages = {}
  MaxRevision = 3
  LibraryFaults = {"keeper", "object"}
