SPECIFICATION TxFairSpec
CONSTANTS
    Comps = {c1}
    Txs = {t1, t2}
    Durations = {1}
    MaxNow = 1
    MaxGen = 2
PROPERTY CallsEnd

