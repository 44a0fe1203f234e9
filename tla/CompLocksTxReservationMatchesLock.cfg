SPECIFICATION TxSpec
CONSTANTS
    Comps = {c1, c2}
    Txs = {t1, t2}
    Durations = {1}
    MaxNow = 1
    MaxGen = 2
INVARIANTS ReservationMatchesLock
CHECK_DEADLOCK FALSE
