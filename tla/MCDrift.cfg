CONSTANTS
    None = None
    Invalid = Invalid
    Overrides <- MCOverrides
    Targets <- MCTargets
    Services <- MCServices
    Configs <- MCConfigs
    Rootless <- MCRootless
    Operators <- MCOperators
    Local <- MCLocal
    PublicKey <- MCPublicKey
    Selections <- MCSelections
    Topologies <- MCTopologies
    RuleLists <- MCRuleLists
    MaxSessions = 1
    MaxMoves = 2
    MaxFaults = 1
CHECK_DEADLOCK FALSE
SPECIFICATION Spec
INVARIANTS TypeOK ObservedWasThere CleanReportIsTrue MissingIsExplained ExitZeroMeansPlaced
