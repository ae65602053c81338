SPECIFICATION SystemSpec
CONSTANTS
  Services <- ModelServices
  v1 = v1
  v2 = v2
  Versions <- ModelVersions
  None = None
  Torn = Torn
  Garbled = Garbled
  Needs <- ModelNeeds
  Aliased = {1, 2}
  MaxFaults = 0
  Sessions = {c1, c2}
  Quadlets <- ModelAllQuadlets
  Parallel = FALSE
  Rollbacks = {r1}
PROPERTIES RollbackRestoresPrevious
CHECK_DEADLOCK FALSE
