SPECIFICATION MSpec
CONSTANTS
    config <- MonitorConfig
    Addr <- MonitorAddr
    AddressMapping <- MonitorMap
    RowHitLimit = 2
    WriteLowMark = 1
    FawDepth = 2
    Aw32Depth = 3
    Requests <- TwoRows
    MaxSame = 1
    PhaseCycles = 2
INVARIANTS
    QueuesMatchPending
    NoErrorExit
    DataBusExclusive
PROPERTIES
    BankRecovered
    RowHitsReal
    ServingHasReads
