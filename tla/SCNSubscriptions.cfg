SPECIFICATION FairSpec
CONSTANTS
    Keys <- MCKeys
    StateTriggers = {"ready"}
    RoleTriggers = {}
    MaxSubs = 2
    Twice = {FALSE}
INVARIANTS
    MapMatchesList
    CalmJobTellsAll
PROPERTIES
    Converges
