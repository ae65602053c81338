SPECIFICATION Spec
CONSTANTS
  Services <- ModelServices
  v1 = v1
  v2 = v2
  Versions <- ModelVersions
  None = None
  Torn = Torn
  Needs <- ModelNeeds
  Aliased = {1, 2}
  MaxFaults = 2
  here = here
  there = there
  image1 = image1
  image2 = image2
  Nodes = {here, there}
  Here = here
  Compared <- ModelCompared
  Rendered = {1, 2}
  MaxRounds = 2
INVARIANTS PlanTypeOK RoundDelivers DeletedIsDown
PROPERTIES WantedKeepRunning RoundsEnd
CHECK_DEADLOCK FALSE
