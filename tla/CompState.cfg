CONSTANTS
    c1 = c1
    c2 = c2
    k1 = k1
    k2 = k2
    Comps = {c1, c2}
    Callers = {k1, k2}
    Mixes <- MCMixes
    Nodes <- MCNodes
    Mapped <- MCMapped
    Bmcs <- MCBmcs
    NodeRows <- MCNodeRows
    NodePosts <- MCNodePosts
    Powered = {"n"}
    PowerRows = {"p1"}
    SLSAnswers <- MCSLSAnswers
    Default <- MCDefault
    Xnames = {"c0", "s0", "b0", "n0", "r0", "b1", "m0", "p0"}
    EpOf <- MCEpOf
    HmsType <- MCHmsType
    SlotOf <- MCSlotOf
    Fits <- MCFits
    Workers = {k1, k2}
    MaxEvents = 2
    MaxOutside = 3
    Shapes <- MCShapes
    MaxFaults = 1
    MaxRuns = 2
SPECIFICATION PartSpec
SYMMETRY Symmetry
INVARIANTS PartsTypeOK QuietTellsTruth RolesTogether RiverByRaceOnly KnownIsFound 
PROPERTIES UpdatesPromise PlacesKept EachHasItsPlace OKMeansAllRead BestMAC
CHECK_DEADLOCK FALSE
