------------------------------ MODULE DRAMCommon ------------------------------
(***************************************************************************)
(* The vocabulary shared by all classes of the simulator: the run          *)
(* configuration (class Config), decoded addresses, commands and           *)
(* transactions (common.h).                                                *)
(*                                                                         *)
(* Every class of the simulator that owns no thread of control of its own  *)
(* is an operator module: an object is a record whose fields carry the     *)
(* names of the C++ members, and a method is an operator that takes the    *)
(* object and returns its new value.  The modules with VARIABLES are the   *)
(* ones the program is driven through.                                     *)
(*                                                                         *)
(* Time.  The code keeps absolute cycle numbers and compares them with     *)
(* clk_.  The modules keep the number of cycles left instead (0 when the   *)
(* moment has come or is past), and one operator per class, Elapse, lets a *)
(* cycle pass.  All comparisons in the code are of the form clk >= t, so   *)
(* nothing is lost, and the state space is finite.                         *)
(***************************************************************************)
EXTENDS Integers, Sequences, FiniteSets, SequencesExt

CONSTANTS
    config,          \* the Config object: one field per parameter read
    Addr,            \* the hexadecimal addresses that requests may carry
    AddressMapping   \* [Addr -> decoded address], Config::AddressMapping

(***************************************************************************)
(* Literals of the code, as constants so that small instances reach them.  *)
(***************************************************************************)
CONSTANTS
    RowHitLimit,     \* 4  in CommandQueue::ArbitratePrecharge
    WriteLowMark,    \* 8  in Controller::ScheduleTransaction
    FawDepth,        \* 4  in ChannelState::IsFAWReady
    Aw32Depth        \* 32 in ChannelState::Is32AWReady

Channels      == 0 .. config.channels - 1
Ranks         == 0 .. config.ranks - 1
Bankgroups    == 0 .. config.bankgroups - 1
BanksPerGroup == 0 .. config.banks_per_group - 1

(* The banks of a channel, as the index triples of bank_states_.           *)
Banks == Ranks \X Bankgroups \X BanksPerGroup

banks == config.bankgroups * config.banks_per_group

(* Latencies the configuration derives from its parameters.                *)
RL          == config.AL + config.CL
WL          == config.AL + config.CWL
read_delay  == RL + config.burst_cycle
write_delay == WL + config.burst_cycle
tRC         == config.tRAS + config.tRP

IsGDDR == config.protocol \in {"GDDR5", "GDDR5X", "GDDR6"}
IsHBM  == config.protocol \in {"HBM", "HBM2"}

-----------------------------------------------------------------------------
(* Commands.                                                               *)

ReadTypes  == {"READ", "READ_PRECHARGE"}
WriteTypes == {"WRITE", "WRITE_PRECHARGE"}
RWTypes    == ReadTypes \cup WriteTypes
RankTypes  == {"REFRESH", "SREF_ENTER", "SREF_EXIT"}

CommandType == RWTypes \cup RankTypes
               \cup {"ACTIVATE", "PRECHARGE", "REFRESH_BANK"}

(* A decoded address; -1 marks a field that is not set.                    *)
Address(rank, bankgroup, bank, row, column) ==
    [rank |-> rank, bankgroup |-> bankgroup, bank |-> bank,
     row |-> row, column |-> column]

NoAddress == Address(-1, -1, -1, -1, -1)

BankOf(addr) == <<addr.rank, addr.bankgroup, addr.bank>>

(***************************************************************************)
(* A command.  The field by is the type of the command on whose behalf     *)
(* this one is issued; it stands for activate_by_who and                   *)
(* precharge_by_refresh, which GetReadyCommand leaves in the bank and      *)
(* IssueCommand reads right after the call that produced the command.      *)
(***************************************************************************)
Command(cmd_type, addr, hex_addr, by) ==
    [cmd_type |-> cmd_type, addr |-> addr, hex_addr |-> hex_addr, by |-> by]

(* Command(): the invalid command, CommandType::SIZE.                      *)
NoCommand == Command("SIZE", NoAddress, -1, "SIZE")

(* The answer of a call that ended the program with AbruptExit.            *)
AbruptExit == Command("EXIT", NoAddress, -1, "SIZE")

IsValid(cmd)     == cmd.cmd_type # "SIZE"
IsExit(cmd)      == cmd.cmd_type = "EXIT"
IsRead(cmd)      == cmd.cmd_type \in ReadTypes
IsWrite(cmd)     == cmd.cmd_type \in WriteTypes
IsReadWrite(cmd) == cmd.cmd_type \in RWTypes
IsRefresh(cmd)   == cmd.cmd_type \in {"REFRESH", "REFRESH_BANK"}
IsRankCMD(cmd)   == cmd.cmd_type \in RankTypes

Transaction(addr, is_write) == [addr |-> addr, is_write |-> is_write]

Transactions == [addr : Addr, is_write : BOOLEAN]

(* One cycle less to wait; an expired timer stays at 0.                    *)
OneLess(t) == IF t > 0 THEN t - 1 ELSE 0

(* The larger of two delays, std::max.                                     *)
Later(a, b) == IF a >= b THEN a ELSE b

-----------------------------------------------------------------------------
(***************************************************************************)
(* What the configuration reader guarantees, or the rest of the code       *)
(* presupposes: counts are positive, delays are not negative, the refresh  *)
(* interval is not zero (Refresh::ClockTick divides by it).                *)
(***************************************************************************)
DelayNames ==
    {"burst_cycle", "AL", "CL", "CWL", "tCCD_L", "tCCD_S", "tRTRS", "tRTP",
     "tWTR_L", "tWTR_S", "tWR", "tRP", "tRRD_L", "tRRD_S", "tRAS", "tRCD",
     "tRFC", "tRFCb", "tCKESR", "tXS", "tFAW", "t32AW", "tPPD", "tRCDRD",
     "tRCDWR", "sref_threshold"}

ASSUME CountsAssumption ==
    /\ config.channels \in Nat \ {0}
    /\ config.ranks \in Nat \ {0}
    /\ config.bankgroups \in Nat \ {0}
    /\ config.banks_per_group \in Nat \ {0}
    /\ config.cmd_queue_size \in Nat \ {0}
    /\ config.trans_queue_size \in Nat \ {0}
    /\ config.epoch_period \in Nat \ {0, 1}

ASSUME DelaysAssumption == \A d \in DelayNames : config[d] \in Nat

(* A read takes at least one cycle: burst_cycle and CL are not both 0.     *)
ASSUME ReadDelayAssumption == read_delay > 0

ASSUME RefreshAssumption ==
    /\ config.tREFI \in Nat /\ config.tREFI >= config.ranks
    /\ config.tREFIb \in Nat \ {0}
    /\ config.refresh_policy \in {"RANK_LEVEL_SIMULTANEOUS",
                                  "RANK_LEVEL_STAGGERED",
                                  "BANK_LEVEL_STAGGERED"}

ASSUME SwitchesAssumption ==
    /\ config.unified_queue \in BOOLEAN
    /\ config.enable_self_refresh \in BOOLEAN
    /\ config.enable_hbm_dual_cmd \in BOOLEAN
    /\ config.enable_hbm_dual_cmd => IsHBM
    /\ config.queue_structure \in {"PER_BANK", "PER_RANK"}

ASSUME LimitsAssumption ==
    /\ RowHitLimit \in Nat \ {0} /\ WriteLowMark \in Nat
    /\ FawDepth \in Nat \ {0} /\ Aw32Depth \in Nat \ {0}

(* Requests carry byte addresses, never the -1 of a refresh command.       *)
ASSUME AddrAssumption ==
    /\ Addr \subseteq Nat
    /\ AddressMapping \in
         [Addr -> [channel : Channels, rank : Ranks, bankgroup : Bankgroups,
                   bank : BanksPerGroup, row : Nat, column : Nat]]
=============================================================================
