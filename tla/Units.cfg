SPECIFICATION UnitSpec
CONSTANTS
    Inis <- ModelInis
    Counters = {"epoch_num", "num_cycles"}
    Values = {0, 1, 3, 5}
    start_val = 1
    end_val = 5
    num_bins = 2
    MaxEvents = 2
    MaxResets = 1
    Requests = {r1, r2}
    latency_ = 1
    MaxQueue = 8
    Geometries <- Geometry
    Types = {"READ"}
    MaxCount = 4
    IntRange = 20
    TraceCommands <- Lines
    NumberBase = 16
    repeat_ = 3
    MaxLines = 3
    MaxClk = 2
CHECK_DEADLOCK FALSE
INVARIANTS
    FieldsDisjoint
    AddressSpaceExact
    NegativeDelaysPast
    ReportExact
    BinsLabelled
    LatenessBounded
    HeatInItsBank
    BanksApart
    RoundsAlike
PROPERTIES
    ImplementsService
    RowsSwept
