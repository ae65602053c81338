SPECIFICATION Spec
CONSTANTS
  Services <- ModelServices
  v1 = v1
  v2 = v2
  Versions <- ModelVersions
  None = None
  Torn = Torn
  Garbled = Garbled
  Needs <- ModelNeeds
  Aliased = {}
  MaxFaults = 1
  Sessions = {c1, c2}
  Quadlets <- ModelQuadlets
  Parallel = TRUE
PROPERTIES RecordsFollowSuccess
CHECK_DEADLOCK FALSE
