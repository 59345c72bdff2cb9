-------------------------------- MODULE Timing --------------------------------
(***************************************************************************)
(* class Timing: for every command that may be issued, the commands it     *)
(* holds back and for how many cycles, in the same bank, in the other      *)
(* banks of its bankgroup, in the other bankgroups of its rank, in the     *)
(* other ranks, and, for rank commands, in the whole rank.                 *)
(*                                                                         *)
(* A row of a table is a function from the constrained command types to    *)
(* the delay; a command without a row has the empty function.              *)
(***************************************************************************)
EXTENDS DRAMCommon

(* The bankgroup switch of the constructor: with a single bankgroup the    *)
(* short (_S) parameters replace the long (_L) ones.                       *)
LongOr(long, short) == IF config.bankgroups = 1 THEN short ELSE long

read_to_read_l == Later(config.burst_cycle, LongOr(config.tCCD_L, config.tCCD_S))
read_to_read_s == Later(config.burst_cycle, config.tCCD_S)
read_to_read_o == config.burst_cycle + config.tRTRS
read_to_write == RL + config.burst_cycle - WL + config.tRTRS

(* Mutant: the burst of the first access is forgotten.                     *)
read_to_write_o_NoBurst == read_delay + config.tRTRS - write_delay

read_to_write_o == read_delay + config.burst_cycle + config.tRTRS - write_delay
read_to_precharge == config.AL + config.tRTP
readp_to_act == config.AL + config.burst_cycle + config.tRTP + config.tRP

write_to_read_l == write_delay + LongOr(config.tWTR_L, config.tWTR_S)
write_to_read_s == write_delay + config.tWTR_S

(* Mutant: the burst of the first access is forgotten.                     *)
write_to_read_o_NoBurst == write_delay + config.tRTRS - read_delay

write_to_read_o == write_delay + config.burst_cycle + config.tRTRS - read_delay
write_to_write_l == read_to_read_l
write_to_write_s == read_to_read_s
write_to_write_o == config.burst_cycle

(* Mutant: the write recovery time is forgotten.                           *)
write_to_precharge_NoRecovery == WL + config.burst_cycle

write_to_precharge == WL + config.burst_cycle + config.tWR

read_to_activate == read_to_precharge + config.tRP
write_to_activate == write_to_precharge + config.tRP

activate_to_activate_l == LongOr(config.tRRD_L, config.tRRD_S)
activate_to_read ==
    IF IsGDDR \/ IsHBM THEN config.tRCDRD ELSE config.tRCD - config.AL
activate_to_write ==
    IF IsGDDR \/ IsHBM THEN config.tRCDWR ELSE config.tRCD - config.AL

-----------------------------------------------------------------------------
(* Rows of the tables.                                                     *)

NoRow == [t \in {} |-> 0]

(* reads are held back r cycles and writes w cycles                        *)
RWRow(r, w) == [t \in RWTypes |-> IF t \in ReadTypes THEN r ELSE w]

(* the commands a closed bank accepts, but ACTIVATE: held back d cycles    *)
RefreshRow(d) == [t \in {"REFRESH", "REFRESH_BANK", "SREF_ENTER"} |-> d]

(* row f with the delay of one more command type                           *)
Also(f, type, d) == [t \in DOMAIN f \cup {type} |-> IF t = type THEN d ELSE f[t]]

Only(type, d) == Also(NoRow, type, d)

(* the commands that need tPPD between two precharges                      *)
UsesPPD == IsGDDR \/ config.protocol = "LPDDR4"

same_bank ==
    [t \in CommandType |->
       CASE t = "READ" -> Also(RWRow(read_to_read_l, read_to_write),
                               "PRECHARGE", read_to_precharge)
         [] t = "WRITE" -> Also(RWRow(write_to_read_l, write_to_write_l),
                                "PRECHARGE", write_to_precharge)
         [] t = "READ_PRECHARGE" ->
              Also(RefreshRow(read_to_activate), "ACTIVATE", readp_to_act)
         [] t = "WRITE_PRECHARGE" ->
              Also(RefreshRow(write_to_activate), "ACTIVATE", write_to_activate)
         [] t = "ACTIVATE" ->
              Also(Also(RWRow(activate_to_read, activate_to_write),
                        "ACTIVATE", tRC),
                   "PRECHARGE", config.tRAS)
         [] t = "PRECHARGE" ->
              Also(RefreshRow(config.tRP), "ACTIVATE", config.tRP)
         [] OTHER -> NoRow]

other_banks_same_bankgroup ==
    [t \in CommandType |->
       CASE t \in ReadTypes -> RWRow(read_to_read_l, read_to_write)
         [] t \in WriteTypes -> RWRow(write_to_read_l, write_to_write_l)
         [] t = "ACTIVATE" -> Also(Only("ACTIVATE", activate_to_activate_l),
                                   "REFRESH_BANK", tRC)
         [] t = "PRECHARGE" /\ UsesPPD -> Only("PRECHARGE", config.tPPD)
         [] t = "REFRESH_BANK" -> Also(Only("ACTIVATE", config.tRFC),
                                       "REFRESH_BANK", config.tREFI)
         [] OTHER -> NoRow]

other_bankgroups_same_rank ==
    [t \in CommandType |->
       CASE t \in ReadTypes -> RWRow(read_to_read_s, read_to_write)
         [] t \in WriteTypes -> RWRow(write_to_read_s, write_to_write_s)
         [] t = "ACTIVATE" -> Also(Only("ACTIVATE", config.tRRD_S),
                                   "REFRESH_BANK", tRC)
         [] t = "PRECHARGE" /\ UsesPPD -> Only("PRECHARGE", config.tPPD)
         [] t = "REFRESH_BANK" -> Also(Only("ACTIVATE", config.tRFC),
                                       "REFRESH_BANK", config.tREFI)
         [] OTHER -> NoRow]

other_ranks ==
    [t \in CommandType |->
       CASE t \in ReadTypes -> RWRow(read_to_read_o, read_to_write_o)
         [] t \in WriteTypes -> RWRow(write_to_read_o, write_to_write_o)
         [] OTHER -> NoRow]

(* The row of REFRESH_BANK is filled but no method of ChannelState reads   *)
(* it: UpdateTiming looks rank tables up for rank commands only.           *)
same_rank ==
    [t \in CommandType |->
       CASE t = "REFRESH_BANK" ->
              Also(RefreshRow(config.tRFCb), "ACTIVATE", config.tRFCb)
         [] t = "REFRESH" ->
              Also(Also(Only("ACTIVATE", config.tRFC), "REFRESH", config.tRFC),
                   "SREF_ENTER", config.tRFC)
         [] t = "SREF_ENTER" -> Only("SREF_EXIT", config.tCKESR)
         [] t = "SREF_EXIT" ->
              Also(RefreshRow(config.tXS), "ACTIVATE", config.tXS)
         [] OTHER -> NoRow]

-----------------------------------------------------------------------------
(***************************************************************************)
(* Two accesses of a channel are never due in the same cycle: the delay    *)
(* between them is at least one cycle in every table that applies (the     *)
(* last one only if there is another rank).  The code does not check it.   *)
(* The HBM files of configs/ satisfy it with their one rank; with two,     *)
(* write_to_read_o of HBM2_4Gb_x128.ini is negative.                       *)
(***************************************************************************)
AccessesSpaced ==
    /\ read_to_read_l > 0 /\ read_to_read_s > 0 /\ read_to_write > 0
    /\ write_to_read_l > 0 /\ write_to_read_s > 0
    /\ config.ranks > 1 => /\ read_to_read_o > 0 /\ read_to_write_o > 0
                           /\ write_to_read_o > 0 /\ write_to_write_o > 0
=============================================================================
