CONSTANTS
    Eps = {"e"}
    Redisc = {"e"}
    Instances = {"i1", "i2"}
    Runs = {"d1", "d2"}
    At <- MCAt
    DCalls = {"k1", "k2"}
    MaxFaults = 1
SPECIFICATION CastSpec
INVARIANTS StartedHasReason 
PROPERTY OrphansPickedUp
