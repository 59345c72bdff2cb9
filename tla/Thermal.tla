------------------------------- MODULE Thermal -------------------------------
(***************************************************************************)
(* class ThermalCalculator (built with THERMAL): which cells of the power  *)
(* maps a DRAM command heats.  The maps are a grid of numP layers of dimX  *)
(* by dimY cells, one grid per rank, or one for all vaults of a stack.     *)
(*                                                                         *)
(* The amounts of energy, the temperatures the solvers work out from them  *)
(* and the tables printed are floating-point data and left out: what is    *)
(* kept of accu_Pmap and cur_Pmap is where the command of a cycle adds.    *)
(***************************************************************************)
EXTENDS Integers, Sequences, FiniteSets, FiniteSetsExt

CONSTANTS
    Geometries,   \* the members of Config that the class reads
    Types,        \* the types of commands to a bank
    MaxCount,     \* bound: of refresh_count
    IntRange      \* bound: values of an int of a loop before it wraps

VARIABLES
    config,
    bank_x,         \* banks side by side in a chip or vault
    vault_x,        \* vaults side by side
    refresh_count,  \* [rank of a channel -> [bank -> Nat]]
    heated,         \* history: what the command of this cycle heated
    swept,          \* history: rows of a bank refreshed in this sweep
    printing,       \* the report being made, if any
    i               \* the variable of UpdateEpoch's loop over channels

chip == <<config, bank_x, vault_x>>

vars == <<chip, refresh_count, heated, swept, printing, i>>

(* Members of a geometry.  refresh is the command of its refresh_policy;   *)
(* tREFI and window (64 ms) are in one unit.                               *)
GeometryType ==
    [kind : {"HMC", "HBM", "planar"}, channels : Nat \ {0}, ranks : Nat \ {0},
     bankgroups : Nat \ {0}, banks_per_group : Nat \ {0}, rows : Nat \ {0},
     columns : Nat \ {0}, device_width : Nat \ {0}, BL : Nat \ {0},
     num_dies : Nat \ {0}, mat_dim_x : Nat \ {0}, mat_dim_y : Nat \ {0},
     bank_order : {0, 1}, bank_layer_order : {0, 1},
     refresh : {"REFRESH", "REFRESH_BANK"}, tREFI : Nat \ {0},
     window : Nat \ {0}, loc_mapping : Seq(Seq(Nat))]

Is3D  == config.kind \in {"HMC", "HBM"}
banks == config.bankgroups * config.banks_per_group

-----------------------------------------------------------------------------
(* InitThermalParams.  A bank of more than four times as many grids in x   *)
(* as in y, alone in its group, would be tiled, and its num_row_refresh,   *)
(* bank_order and the rest left unassigned: GeometryAssumption excludes    *)
(* it, so row_tile is 1.                                                   *)
CeilDiv(a, b) == (a + b - 1) \div b

GridX(g) == g.rows \div g.mat_dim_x
GridY(g) == (g.columns * g.device_width) \div g.mat_dim_y

num_x_grids == GridX(config)
num_y_grids == GridY(config)

num_row_refresh == CeilDiv(config.rows * config.tREFI, config.window)

ASSUME GeometryAssumption ==
    \A g \in Geometries :
        /\ g \in GeometryType /\ Len(g.loc_mapping) \in {0, 6}
        /\ GridX(g) > 0 /\ GridY(g) > 0
        /\ ~(GridX(g) > 4 * GridY(g) /\ g.banks_per_group = 1)

ASSUME BoundAssumption ==
    /\ Types \subseteq {"ACTIVATE", "READ", "READ_PRECHARGE", "WRITE",
                        "WRITE_PRECHARGE", "PRECHARGE", "SREF_ENTER", "SREF_EXIT"}
    /\ MaxCount \in Nat /\ IntRange \in Nat \ {0}

(***************************************************************************)
(* determineXY: total is split into columns and rows of rectangles of      *)
(* xd by yd so that the whole is as square as possible; the first of equal *)
(* ones, in the order of y.  Asr is a fraction.                            *)
(***************************************************************************)
determineXY(xd, yd, total) ==
    LET Asr(y) == LET w == (total \div y) * xd
                      h == y * yd
                  IN IF w >= h THEN <<w, h>> ELSE <<h, w>>
        Less(p, q) == p[1] * q[2] < q[1] * p[2]
        ys == {y \in 1 .. total : total % y = 0 /\ Less(Asr(y), <<1000, 1>>)}
        best == {y \in ys : \A z \in ys : ~Less(Asr(z), Asr(y))}
    IN IF ys = {} THEN 1 ELSE total \div Min(best)

(* The constructor: dimensions of the chip.                                *)
numP == IF Is3D THEN config.num_dies + 1 ELSE 1

BankX == CASE config.kind = "HMC" -> 1
           [] config.kind = "HBM" -> 8
           [] OTHER -> determineXY(num_x_grids, num_y_grids, banks)

bank_y == IF Is3D THEN 2 ELSE banks \div bank_x

VaultX == IF config.kind = "HMC"
          THEN determineXY(num_x_grids, 2 * num_y_grids, config.channels) ELSE 1

vault_y == CASE config.kind = "HMC" -> config.channels \div vault_x
             [] config.kind = "HBM" -> 2
             [] OTHER -> 1

dimX == vault_x * bank_x * num_x_grids
dimY == vault_y * bank_y * num_y_grids

num_case == IF Is3D THEN 1 ELSE config.ranks * config.channels

-----------------------------------------------------------------------------
(* Where a vault, a bank of it and its layer are.                          *)
MapToVault(channel) ==
    CASE config.kind = "HMC" ->
           IF config.bank_order = 0
           THEN <<channel % vault_x, channel \div vault_x>>
           ELSE <<channel \div vault_y, channel % vault_y>>
      [] config.kind = "HBM" -> <<0, channel % 2>>
      [] OTHER -> <<0, 0>>

num_bank_per_layer == banks \div config.num_dies

(* n banks in the order the file asks for                                  *)
InOrder(n) ==
    IF config.bank_order = 0 THEN <<n % bank_x, n \div bank_x>>
    ELSE <<n \div bank_y, n % bank_y>>

(* Mutant: the groups of a planar chip are always lined up in y.           *)
MapToBank_LineY(bankgroup, bank) ==
    LET square == IF config.bank_order = 0 THEN <<bank % 2, bank \div 2>>
                  ELSE <<bank \div 2, bank % 2>>
        abs_bank_id == bankgroup * config.banks_per_group + bank
    IN CASE config.kind = "HMC" -> InOrder(abs_bank_id % num_bank_per_layer)
         [] config.kind = "HBM" -> <<bankgroup * 2 + bank \div 2, bank % 2>>
         [] config.kind = "planar" /\ config.bankgroups > 1 ->
              <<square[1], square[2] + bankgroup * 2>>
         [] OTHER -> InOrder(abs_bank_id)

(* The banks of a group form a square; groups of a planar chip are lined   *)
(* up in the direction in which it is longer.                              *)
MapToBank(bankgroup, bank) ==
    LET square == IF config.bank_order = 0 THEN <<bank % 2, bank \div 2>>
                  ELSE <<bank \div 2, bank % 2>>
        abs_bank_id == bankgroup * config.banks_per_group + bank
    IN CASE config.kind = "HMC" -> InOrder(abs_bank_id % num_bank_per_layer)
         [] config.kind = "HBM" -> <<bankgroup * 2 + bank \div 2, bank % 2>>
         [] config.kind = "planar" /\ config.bankgroups > 1 ->
              IF bank_x <= bank_y THEN <<square[1], square[2] + bankgroup * 2>>
              ELSE <<square[1] + bankgroup * 2, square[2]>>
         [] OTHER -> InOrder(abs_bank_id)

MapToZ(channel, bank) ==
    CASE config.kind = "HMC" ->
           IF config.bank_layer_order = 0 THEN bank \div num_bank_per_layer
           ELSE numP - bank \div num_bank_per_layer - 2
      [] config.kind = "HBM" -> channel \div 2
      [] OTHER -> 0

(***************************************************************************)
(* GetPhyAddress of a channel, rank, bankgroup, bank, row and column: each *)
(* bit of a field goes to the position loc_mapping lists for it (from the  *)
(* most significant one on), and the fields are cut out again one above    *)
(* the other from the bits of a burst on.                                  *)
(***************************************************************************)
GetPhyAddress(addr) ==
    LET m == config.loc_mapping
        Bit(f, j) == (addr[f] \div 2 ^ (Len(m[f]) - j)) % 2
        hex == UNION {{m[f][j] : j \in {k \in DOMAIN m[f] : Bit(f, k) = 1}} : f \in 1 .. 6}
        column_offset == CHOOSE n \in 0 .. config.BL :
                             2 ^ n <= config.BL /\ config.BL < 2 ^ (n + 1)
        Start(f) == column_offset + MapThenSumSet(LAMBDA k : Len(m[k]), f + 1 .. 6)
    IN IF m = <<>> THEN addr
       ELSE [f \in 1 .. 6 |->
               MapThenSumSet(LAMBDA p : 2 ^ (p - Start(f)),
                             hex \cap (Start(f) .. Start(f) + Len(m[f]) - 1))]
-----------------------------------------------------------------------------
(* Commands, and where their energy goes.                                  *)
Ranks       == 0 .. config.ranks - 1
Channels    == 0 .. config.channels - 1
Bankgroups  == 0 .. config.bankgroups - 1
BanksPerGroup == 0 .. config.banks_per_group - 1
RowIds      == 0 .. config.rows - 1

(* A column of an address counts bursts.                                   *)
Commands ==
    [type : Types, rank : Ranks,
     bankgroup : Bankgroups, bank : BanksPerGroup, row : RowIds,
     column : 0 .. config.columns \div config.BL - 1]
    \cup [type : {config.refresh} \cap {"REFRESH"}, rank : Ranks,
          bankgroup : {-1}, bank : {-1}, row : {-1}, column : {-1}]
    \cup [type : {config.refresh} \cap {"REFRESH_BANK"}, rank : Ranks,
          bankgroup : Bankgroups, bank : BanksPerGroup, row : {-1}, column : {-1}]

Cell(x, y, z) == z * dimX * dimY + y * dimX + x

(* Grids of a row in y start here; a row that does not exist is beyond the *)
(* others.                                                                 *)
TileY(row) == (row \div config.rows) * num_y_grids

(* MapToXY, for the vault v and the bank b: the grids under the columns of *)
(* a burst, all in the row's own grid in x.                                *)
MapToXY(channel, cmd, v, b) ==
    LET PhyColumn(n) ==
            GetPhyAddress(<<channel, cmd.rank, cmd.bankgroup, cmd.bank, cmd.row,
                            cmd.column + n>>)[6]
        bits == {PhyColumn(n) * config.device_width + j :
                    n \in 0 .. config.BL - 1, j \in 0 .. config.device_width - 1}
        x == (v[1] * bank_x + b[1]) * num_x_grids + cmd.row \div config.mat_dim_x
        y == (v[2] * bank_y + b[2]) * num_y_grids + TileY(cmd.row)
    IN {<<x, y + bit \div config.mat_dim_y>> : bit \in bits}

LocationMappingANDaddEnergy(channel, cmd) ==
    {Cell(p[1], p[2], MapToZ(channel, cmd.bank)) :
        p \in MapToXY(channel, cmd, MapToVault(channel),
                      MapToBank(cmd.bankgroup, cmd.bank))}

(* A refreshed row heats all grids in y under it.  bank0 is the number of  *)
(* the bank in its rank.                                                   *)
LocationMappingANDaddEnergy_RF(channel, cmd, bank0, row0) ==
    LET bankgroup == bank0 \div config.banks_per_group
        bank == bank0 % config.banks_per_group
        v == MapToVault(channel)
        b == MapToBank(bankgroup, bank)
        row == GetPhyAddress(<<channel, cmd.rank, bankgroup, bank, row0, cmd.column>>)[5]
        x == (v[1] * bank_x + b[1]) * num_x_grids + row \div config.mat_dim_x
        y == (v[2] * bank_y + b[2]) * num_y_grids + TileY(row)
    IN {Cell(x, y + n, MapToZ(channel, bank)) : n \in 0 .. num_y_grids - 1}

-----------------------------------------------------------------------------
(* UpdateCMDPower                                                          *)
CaseId(channel, cmd) == IF Is3D THEN 0 ELSE channel * config.ranks + cmd.rank

RankIdx(channel, cmd) == channel * config.ranks + cmd.rank

(* The banks that the command refreshes, as the code numbers them.         *)
Refreshed(cmd) ==
    CASE cmd.type = "REFRESH" -> 0 .. banks - 1
      [] cmd.type = "REFRESH_BANK" -> {cmd.bank}
      [] OTHER -> {}

RefreshedRows(count) == count * num_row_refresh .. (count + 1) * num_row_refresh - 1

(* Mutant: the sweep starts again a refresh too late.                      *)
NextCount_Late(count) == IF count * num_row_refresh = config.rows THEN 0 ELSE count + 1

(* Mutant: the sweep starts again before the last rows.                    *)
NextCount_Early(count) == IF (count + 2) * num_row_refresh = config.rows THEN 0 ELSE count + 1

(* The sweep starts again when it meets the last row exactly.              *)
NextCount(count) == IF (count + 1) * num_row_refresh = config.rows THEN 0 ELSE count + 1

HeatedCells(channel, cmd) ==
    IF cmd.type \in {"ACTIVATE", "READ", "READ_PRECHARGE", "WRITE", "WRITE_PRECHARGE"}
    THEN LocationMappingANDaddEnergy(channel, cmd)
    ELSE UNION {UNION {LocationMappingANDaddEnergy_RF(channel, cmd, b, row) :
                          row \in RefreshedRows(refresh_count[RankIdx(channel, cmd)][b])} :
                   b \in Refreshed(cmd)}

Counted(channel, cmd) ==
    [refresh_count EXCEPT ![RankIdx(channel, cmd)] =
        [b \in DOMAIN @ |-> IF b \in Refreshed(cmd) THEN NextCount(@[b]) ELSE @[b]]]

(* The rows refreshed so far, those of this command included; all of them  *)
(* end a sweep.                                                            *)
Sweep(channel, cmd) ==
    [swept EXCEPT ![RankIdx(channel, cmd)] =
        [b \in DOMAIN @ |->
            IF b \notin Refreshed(cmd) THEN @[b]
            ELSE LET now == (@[b] \cup RefreshedRows(refresh_count[RankIdx(channel, cmd)][b]))
                 IN IF RowIds \subseteq now THEN {} ELSE now]]

NoHeat == [cells |-> {}]

UpdateCMDPower(channel, cmd) ==
    /\ \A b \in 0 .. banks - 1 : refresh_count[RankIdx(channel, cmd)][b] < MaxCount
    /\ heated' = [channel |-> channel, cmd |-> cmd,
                  case_id |-> CaseId(channel, cmd),
                  cells |-> HeatedCells(channel, cmd)]
    /\ refresh_count' = Counted(channel, cmd)
    /\ swept' = Sweep(channel, cmd)
    /\ UNCHANGED <<chip, printing, i>>

NextCycle ==
    /\ heated # NoHeat
    /\ heated' = NoHeat
    /\ UNCHANGED <<chip, refresh_count, swept, printing, i>>

(***************************************************************************)
(* PrintTransPT at the end of an epoch and PrintFinalPT at the end of the  *)
(* program add the background energy to all cells (UpdateEpoch,            *)
(* UpdatePowerMaps), solve for the temperatures and print them.  With      *)
(* planar memory, the loop that adds it tests k and increments i.          *)
(***************************************************************************)
PrintPT(report) ==
    /\ printing = "idle"
    /\ printing' = report /\ i' = 0
    /\ UNCHANGED <<chip, refresh_count, heated, swept>>

Printed ==
    /\ Is3D
    /\ \/ printing = "trans" /\ printing' = "idle"
       \/ printing = "final" /\ printing' = "done"
    /\ UNCHANGED <<chip, refresh_count, heated, swept, i>>

(* The loop of PrintFinalPT also indexes with i, beyond the map in the end.*)
BackgroundTurn ==
    /\ ~Is3D /\ printing \in {"trans", "final"}
    /\ IF printing = "final" /\ i >= numP * dimX * dimY
       THEN printing' = "undefined" /\ i' = i
       ELSE i' = (i + 1) % IntRange /\ printing' = printing
    /\ UNCHANGED <<chip, refresh_count, heated, swept>>

Init ==
    /\ config \in Geometries
    /\ bank_x = BankX /\ vault_x = VaultX
    /\ refresh_count = [r \in 0 .. config.channels * config.ranks - 1 |->
                          [b \in 0 .. banks - 1 |-> 0]]
    /\ swept = [r \in 0 .. config.channels * config.ranks - 1 |->
                  [b \in 0 .. banks - 1 |-> {}]]
    /\ heated = NoHeat
    /\ printing = "idle" /\ i = 0

Next ==
    \/ /\ printing = "idle" /\ heated = NoHeat
       /\ \E channel \in Channels : \E cmd \in Commands : UpdateCMDPower(channel, cmd)
    \/ NextCycle
    \/ heated = NoHeat /\ \E report \in {"trans", "final"} : PrintPT(report)
    \/ Printed \/ BackgroundTurn

Spec == Init /\ [][Next]_vars

-----------------------------------------------------------------------------
(* A row of the table of bank positions that PrintCSV_bank prints.         *)
BankCells(channel, bankgroup, bank) ==
    LET v == MapToVault(channel)
        b == MapToBank(bankgroup, bank)
        z == MapToZ(channel, bankgroup * config.banks_per_group + bank)
        start_x == (v[1] * bank_x + b[1]) * num_x_grids
        start_y == (v[2] * bank_y + b[2]) * num_y_grids
    IN {Cell(x, y, z) : x \in start_x .. start_x + num_x_grids - 1,
                        y \in start_y .. start_y + num_y_grids - 1}

(* The places a command of a bank or of all banks is for.                  *)
Places(channel, cmd) ==
    IF cmd.type = "REFRESH"
    THEN {BankCells(channel, bg, b) : bg \in Bankgroups, b \in BanksPerGroup}
    ELSE {BankCells(channel, cmd.bankgroup, cmd.bank)}

(***************************************************************************)
(* A command heats the bank it is for and no other: the cells it adds      *)
(* energy to are of a map that exists and in the places that bank_pos.csv  *)
(* gives for its banks, and a refresh leaves none of its banks out,        *)
(* whatever bank order, location mapping and progress of the refresh       *)
(* sweep, in every geometry whose layout has a place for each bank and     *)
(* whose rows a sweep meets exactly.                                       *)
(***************************************************************************)
HeatInItsBank ==
    heated.cells # {} =>
        /\ heated.case_id < num_case
        /\ heated.cells \subseteq UNION Places(heated.channel, heated.cmd)
        /\ \A place \in Places(heated.channel, heated.cmd) : heated.cells \cap place # {}

(***************************************************************************)
(* The layout of the chip is consistent: every bank lies on it, in a layer *)
(* of memory, and no two banks of a grid share a cell, so that heat is not *)
(* attributed to two banks and no index leaves the map.  (It depends on    *)
(* config alone and is checked when a command may come.)                   *)
(***************************************************************************)
BanksApart ==
    LET where == [channel : IF Is3D THEN Channels ELSE {0},
                  bankgroup : Bankgroups, bank : BanksPerGroup]
        CellsOf(w) == BankCells(w.channel, w.bankgroup, w.bank)
        layers == IF Is3D THEN numP - 1 ELSE 1
    IN (printing = "idle" /\ heated = NoHeat) =>
       /\ \A w \in where : CellsOf(w) \subseteq 0 .. layers * dimX * dimY - 1
       /\ Cardinality(UNION {CellsOf(w) : w \in where})
            = Cardinality(where) * num_x_grids * num_y_grids

(***************************************************************************)
(* Refreshes take turns: no row of a bank is refreshed again before all    *)
(* others have been.                                                       *)
(***************************************************************************)
RowsSwept ==
    [][heated' # NoHeat =>
         LET r == RankIdx(heated'.channel, heated'.cmd)
         IN \A b \in Refreshed(heated'.cmd) :
                RefreshedRows(refresh_count[r][b]) \cap swept[r][b] = {}]_vars
=============================================================================
