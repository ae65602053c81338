SPECIFICATION SystemSpec
CONSTANTS
  Services <- ModelServices
  v1 = v1
  v2 = v2
  Versions <- ModelVersions
  None = None
  Torn = Torn
  Garbled = Garbled
  Needs <- ModelNeeds
  Aliased = {1, 2}
  MaxFaults = 1
  Sessions = {c1, c2}
  Quadlets <- ModelQuadlets
  Parallel = FALSE
  Rollbacks = {r1}
INVARIANTS SystemTypeOK
PROPERTIES RollbackInstallsArtifact CleanRollbackServes RollbacksEnd
CHECK_DEADLOCK FALSE
