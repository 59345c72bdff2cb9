SPECIFICATION MSpec
CONSTANTS
    config <- TwoChannels
    Addr <- ChannelAddr
    AddressMapping <- ChannelMap
    RowHitLimit = 2
    WriteLowMark = 1
    FawDepth = 2
    Aw32Depth = 3
    Requests <- Reads
    MaxSame = 1
    PhaseCycles = 2
INVARIANTS
    ActiveCyclesOnce
