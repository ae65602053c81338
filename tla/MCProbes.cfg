CONSTANTS
    Operator = "laptop"
    DefaultHost = "srv1"
    HostNames <- MCHostNames
    TargetLists <- MCTargetLists
    Ports = {22}
    Domains = {"rapidwebs.org"}
    Containers = {"web"}
    PluginLists <- MCPluginLists
    Selections <- MCSelections
    LocalTools <- MCLocalTools
    None = None
    MaxMoves = 1
    MaxFaults = 2
SPECIFICATION Spec
INVARIANTS TypeOK PortLinksAreExact ErrorsAreReported MeshAddressSurvives
CHECK_DEADLOCK FALSE
