SPECIFICATION SceneSafe
INVARIANTS
  OneActiveAsset
  UploadsAccounted
  AssetFilesStay
  
PROPERTIES
  LateBatchSparesRun
CHECK_DEADLOCK FALSE
CONSTANTS
  Batches = {b1, b2}
  Scenes = {s1}
  b1 = b1
  b2 = b2
  s1 = s1
  Starts <- MCStarts
  Redelivered = {b1, b2}
  MaxStops = 1
  CleanupRetries = 1
