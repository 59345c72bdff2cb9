SPECIFICATION FairSpec
CONSTANTS
    config <- BankRefreshConfig
    Addr <- TwoAddr
    AddressMapping <- RanksMap
    RowHitLimit = 2
    WriteLowMark = 1
    FawDepth = 2
    Aw32Depth = 3
    Requests <- AllRequests
    MaxSame = 1
INVARIANTS
    HeldBackForHead
    RefreshesKeepUp
PROPERTIES
    RefreshNotDisturbed
    EveryRankRefreshed
