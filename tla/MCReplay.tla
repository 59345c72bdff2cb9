------------------------------ MODULE MCReplay ------------------------------
(***************************************************************************)
(* The thermal model under its two drivers: the controllers of a           *)
(* simulation, and thermalreplay.                                          *)
(***************************************************************************)
EXTENDS ThermalReplay, MCThermal

VARIABLE driver

heatVars == <<thermal, replay, driver>>

(* A planar chip with a single grid per bank, and a cube of two vaults.    *)
Chip == [Planar EXCEPT !.rows = 2, !.columns = 2]

CubeAndChip == {[Cube EXCEPT !.channels = 2], Chip}

Geometry == SoundGeometries \cup CubeAndChip

Cmd(type, channel, bank) ==
    [type |-> type, channel |-> channel, rank |-> 0, bankgroup |-> 0, bank |-> bank,
     row |-> 1, column |-> 0]

(* The lines of a trace: two banks of channel 0 opened and closed in three *)
(* ways, a bank of channel 1, a refresh, and a word that is no command.    *)
Lines ==
    {Cmd("ACTIVATE", 0, 0), Cmd("ACTIVATE", 0, 1), Cmd("PRECHARGE", 0, 0),
     Cmd("WRITE_PRECHARGE", 0, 1), Cmd("ACTIVATE", 1, 0),
     Cmd("READ_PRECHARGE", 1, 0), Cmd("REFRESH", 1, 0), Cmd("unknown", 0, 0)}

HeatInit ==
    /\ ReplayInit
    /\ \/ driver = "controllers" /\ config \in SoundGeometries
       \/ driver = "replay" /\ config \in CubeAndChip

HeatNext ==
    \/ driver = "controllers" /\ Next /\ UNCHANGED <<driver, replay>>
    \/ driver = "replay" /\ ReplayNext /\ UNCHANGED driver
=============================================================================
