SPECIFICATION Spec
CONSTANTS
  Services = {1}
  v1 = v1
  v2 = v2
  Versions = {v1}
  None = None
  Torn = Torn
  Garbled = Garbled
  Needs <- OneNeeds
  Aliased = {}
  MaxFaults = 1
  Sessions = {c1, c2, c3}
  Quadlets <- OneQuadlets
  Parallel = TRUE
INVARIANTS UnreadableHasCause
CHECK_DEADLOCK FALSE
