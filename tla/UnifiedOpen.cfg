SPECIFICATION FairSpec
CONSTANTS
    config <- UnifiedOpenConfig
    Addr <- TwoAddr
    AddressMapping <- TwoMap
    RowHitLimit = 2
    WriteLowMark = 1
    FawDepth = 2
    Aw32Depth = 3
    Requests <- ReadsAndAWrite
    MaxSame = 2
INVARIANTS
    QueuedOnce
PROPERTIES
    NoWritePassesRead
    ImplementsService
    RequestsReturn
