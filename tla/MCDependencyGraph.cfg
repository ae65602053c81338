CONSTANTS
    Ids <- MCIds
    Services <- MCServices
CHECK_DEADLOCK FALSE
SPECIFICATION Spec
INVARIANTS TypeOK LayersRespectDependencies LayersAreEarliest SortIsExact CyclesAreReal CyclesAreFound
PROPERTY EveryCallEnds
