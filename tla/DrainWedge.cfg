SPECIFICATION FairSpec
CONSTANTS
    config <- BaseConfig
    Addr <- TwoAddr
    AddressMapping <- TwoMap
    RowHitLimit = 2
    WriteLowMark = 1
    FawDepth = 2
    Aw32Depth = 3
    Requests <- AllRequests
    MaxSame = 1
PROPERTIES
    DrainYieldsToReads
