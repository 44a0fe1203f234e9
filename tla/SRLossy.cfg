SPECIFICATION SRSpec
CONSTANTS
    Comps = {c1}
    Clients = {a1, a2}
    Durations = {1}
    Term = 1
    Window = 1
    Rigid = {FALSE}
    Restarts = FALSE
    Lossy = TRUE
    Prompt = FALSE
    MaxNow = 2
    MaxGen = 2
    MaxLate = 1
SYMMETRY Symmetry
INVARIANTS UnexpiredEntryIsBacked MutualExclusion
CHECK_DEADLOCK FALSE
