CONSTANTS
    n1 = n1
    n2 = n2
    r1 = r1
    r2 = r2
    s1 = s1
    None = None
    Nodes <- MCNodes
    NamedHosts <- MCNamedHosts
    Localhost = n1
    Refs <- MCRefs
    Services <- MCServices
    MaxRetries = 3
    FreeSpace <- MCFreeSpace
    Required = 5000
    MaxChanges = 1
    MaxFaults = 3
    MaxCalls = 3
SPECIFICATION Spec
INVARIANTS TypeOK  RetriesAbsorbFaults PullSettles
PROPERTIES CallsEnd
CHECK_DEADLOCK FALSE
