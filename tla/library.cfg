SPECIFICATION LibrarySafe
INVARIANTS
  ReferencedAssetsStay
  RendersAreApproved
  BudgetKept
SYMMETRY Alike
CHECK_DEADLOCK FALSE
CONSTANTS
  u2 = u2
  u1 = u1
  k1 = k1
  p1 = p1
  p2 = p2
  Uploads = {u1, u2}
  Big = {}
  Sweepers = {}
  MaxBytes = 1
  MaxAssets = 0
  MaxReserved = 3
  CleanupLimit = 1
  UploadFaults = {}
  Stored = {}
  Keepers = {k1}
  Approvers = {p1, p2}
  UserStages = {"SUBTITLE_GENERATING", "RENDER_GENERATING", "VISUAL_ASSET_REVIEW"}
  MaxRevision = 3
  LibraryFaults = {"review", "undo", "dispatch", "stop"}
