SPECIFICATION SRSpec
CONSTANTS
    Comps = {c1, c2}
    Clients = {a1}
    Durations = {3}
    Term = 3
    Window = 2
    Rigid = {TRUE, FALSE}
    Restarts = TRUE
    Lossy = FALSE
    Prompt = TRUE
    MaxNow = 4
    MaxGen = 2
    MaxLate = 0
SYMMETRY Symmetry
INVARIANTS HeldDoesNotExpire
CHECK_DEADLOCK FALSE
