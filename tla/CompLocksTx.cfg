SPECIFICATION TxSpec
CONSTANTS
    Comps = {c1, c2}
    Txs = {t1, t2}
    Durations = {1}
    MaxNow = 0
    MaxGen = 2
SYMMETRY Symmetry
PROPERTIES CreationRespectsFlags RigidCreateAllOrNothing 

