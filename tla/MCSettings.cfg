CONSTANTS
    timeout = timeout
    enabled = enabled
    probe = probe
    default = default
    other = other
    bad = bad
    Unset = Unset
    Lost = Lost
    None = None
    Keys <- MCKeys
    Sections <- MCSections
    SectionOf <- MCSectionOf
    Values <- MCValues
    Valid <- MCValid
    Default <- MCDefault
    Environments <- MCTiers
    Files <- MCFiles
    CommandLines <- MCCommandLines
    MaxEdits = 2
SPECIFICATION Spec
INVARIANTS TypeOK PrecedenceUnlessReset
CHECK_DEADLOCK FALSE
