SPECIFICATION FairSpec
CONSTANTS
    config <- SleepConfig
    Addr <- TwoAddr
    AddressMapping <- TwoMap
    RowHitLimit = 2
    WriteLowMark = 1
    FawDepth = 2
    Aw32Depth = 3
    Requests <- Reads
    MaxSame = 1
PROPERTIES
    IdleRankSleeps
CHECK_DEADLOCK FALSE
