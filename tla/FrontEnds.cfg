SPECIFICATION CpuSpec
CONSTANTS
    config <- CpuConfig
    Addr <- CpuAddr
    AddressMapping <- CpuMap
    RowHitLimit = 2
    WriteLowMark = 1
    FawDepth = 2
    Aw32Depth = 3
    Requests <- CpuRequests
    MaxSame = 1
    Classes = {"random", "stream", "trace"}
    Traces <- CpuTraces
    Endings = {TRUE, FALSE}
    Bases <- CpuBases
    ArraySize = 2
    Stride = 1
INVARIANTS
    ActivationsInWindow
    TraceInOrder
    StreamWhole
PROPERTIES
    FrontEndProgress
