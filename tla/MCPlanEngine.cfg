SPECIFICATION FairSpec
CONSTANTS
    d1 = d1
    d2 = d2
    k1 = k1
    k2 = k2
    g1 = g1
    g2 = g2
    NoParam = NoParam
    Devices <- TwoDevices
    Keys <- TwoKeys
    Groups <- TwoGroups
    GroupOf <- KeyGroups
    Values <- SomeValues
    Absent <- NoParam
    Original <- Factory
    Offered <- Submitted
    MayBeCut = TRUE
INVARIANT Prerequisites
INVARIANT ResultsAligned
INVARIANT RollbackRestores
PROPERTY KeepsOrder
PROPERTY Terminates
CHECK_DEADLOCK FALSE
