SPECIFICATION Spec
CONSTANTS
  Services <- ModelServices
  v1 = v1
  v2 = v2
  Versions <- ModelVersions
  None = None
  Torn = Torn
  Garbled = Garbled
  Needs <- ModelNeeds
  Aliased = {1}
  MaxFaults = 2
  Sessions = {c1, c2}
  Quadlets <- ModelQuadlets
  Parallel = FALSE
INVARIANTS TypeOK WriteAhead CompletedIsLoaded
PROPERTIES RecordsAreEarned HistoryIsLog SessionsEnd
CHECK_DEADLOCK FALSE
