CONSTANTS
    Comps = {x1, x2}
    Callers = {k1, k2}
    Ids = {i1, i2, i3}
    Mixes <- MCMixes
    Macs = {"m1"}
    Lists <- MCLists
    Owners = {"x0"}
    Descs = {"d1"}
    TypeOf <- MCTypeOf
    EthCallers = {k1, k2}
    Locs <- MCLocs
    Kind <- MCKind
    Parent <- MCParent
    Above <- MCAbove
    Ordinal <- MCOrdinal
    Bodies <- MCBodies
    Finds <- MCFinds
    HwCallers = {k1, k2}
    MaxHist <- MCMaxHist
SPECIFICATION PartSpec
INVARIANTS RecordsTypeOK OneOfEach ViewsAgree HistoryTells  
PROPERTIES PutReplaces AddressesKept NewsIsNew
SYMMETRY Symmetry
