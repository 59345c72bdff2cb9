------------------------------ MODULE MCUnits ------------------------------
(***************************************************************************)
(* Four parts that no other part of the program interleaves with, in one   *)
(* model: the constructor of Config, a channel's SimpleStats,              *)
(* IdealDRAMSystem, and the thermal model under its drivers.  A behaviour  *)
(* is a behaviour of one of them, while the others stay as they were       *)
(* constructed.                                                            *)
(***************************************************************************)
EXTENDS MCConfig, SimpleStats, IdealDRAMSystem, MCReplay

VARIABLE unit        \* the part whose operations are called

unitVars == <<unit, configVars, statsVars, idealVars, heatVars>>

UnitInit ==
    /\ unit \in {"Config", "SimpleStats", "IdealDRAMSystem", "Thermal"}
    /\ ConfigInit /\ StatsInit /\ IdealInit /\ HeatInit
    /\ unit # "Config" => ini = DDR4_8Gb_x8_3200
    /\ unit # "Thermal" => config = Chip /\ driver = "replay"

Constructs ==
    unit = "Config" /\ ConfigNext /\ UNCHANGED <<unit, statsVars, idealVars, heatVars>>

Counts ==
    unit = "SimpleStats" /\ StatsNext /\ UNCHANGED <<unit, configVars, idealVars, heatVars>>

Serves ==
    unit = "IdealDRAMSystem" /\ IdealNext
    /\ UNCHANGED <<unit, configVars, statsVars, heatVars>>

Heats == unit = "Thermal" /\ HeatNext /\ UNCHANGED <<unit, configVars, statsVars, idealVars>>

UnitNext == Constructs \/ Counts \/ Serves \/ Heats

UnitSpec == UnitInit /\ [][UnitNext]_unitVars
=============================================================================
