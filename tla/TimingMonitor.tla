---------------------------- MODULE TimingMonitor ----------------------------
(***************************************************************************)
(* A monitor on the command bus of every channel, as a DRAM device or a    *)
(* Verilog model fed with the command trace would see it.  It adds two     *)
(* history variables to PhaseStats and restricts none of its steps.        *)
(* The delays it checks are end to end: most of them are the sum of        *)
(* several entries of the tables of class Timing, which hold back one      *)
(* command by another.                                                     *)
(***************************************************************************)
EXTENDS PhaseStats

VARIABLES
    dist,  \* per channel and bank: cycles from the last ACTIVATE, READ and
           \* WRITE of the bank to a command that would be issued now
    bus    \* per channel: how many bursts use the data bus k cycles from now

mvars == <<pvars, dist, bus>>

(* Distances are told apart up to the longest one that is checked.         *)
Horizon ==
    Later(tRC, Later(config.AL + config.tRTP, WL + config.burst_cycle + config.tWR)
               + config.tRP)

BusCycles == 0 .. Later(RL, WL) + config.burst_cycle

Kinds == {"act", "rd", "wr"}

OfKind(kind, cmd) ==
    CASE kind = "act" -> cmd.cmd_type = "ACTIVATE"
      [] kind = "rd" -> IsRead(cmd)
      [] kind = "wr" -> IsWrite(cmd)

(* The commands that a channel's last cycle put on the command bus.        *)
Seen(c) == {c.cmd_trace_[i] : i \in DOMAIN c.cmd_trace_}

Measured(d, seen) ==
    [b \in Banks |-> [kind \in Kinds |->
        IF \E cmd \in seen : BankOf(cmd.addr) = b /\ OfKind(kind, cmd) THEN 1
        ELSE IF d[b][kind] < Horizon THEN d[b][kind] + 1 ELSE Horizon]]

(* The cycles from now in which the data of cmd are on the bus.            *)
Burst(cmd) ==
    CASE IsRead(cmd) -> RL .. RL + config.burst_cycle - 1
      [] IsWrite(cmd) -> WL .. WL + config.burst_cycle - 1
      [] OTHER -> {}

(* One cycle on, with the bursts of the commands just seen; cmd_trace_     *)
(* belongs to the cycle before.                                            *)
Transferred(use, seen) ==
    [k \in BusCycles |->
        (IF k + 1 \in BusCycles THEN use[k + 1] ELSE 0)
        + Cardinality({cmd \in seen : k + 1 \in Burst(cmd)})]

MInit ==
    /\ PInit
    /\ dist = [ch \in Channels |-> [b \in Banks |-> [kind \in Kinds |-> Horizon]]]
    /\ bus = [ch \in Channels |-> [k \in BusCycles |-> 0]]

MAddTransaction(t) == PAddTransaction(t) /\ UNCHANGED <<dist, bus>>

MClockTick ==
    /\ PClockTick
    /\ dist' = [ch \in Channels |-> Measured(dist[ch], Seen(ctrls_'[ch]))]
    /\ bus' = [ch \in Channels |-> Transferred(bus[ch], Seen(ctrls_'[ch]))]

MStats == stats_mo /\ UNCHANGED <<dist, bus>>

MNext == (\E t \in Requests : MAddTransaction(t)) \/ MClockTick \/ MStats

MSpec == MInit /\ [][MNext]_mvars

-----------------------------------------------------------------------------
(* No two bursts of a channel are on the data bus in the same cycle,       *)
(* whatever ranks, bankgroups and banks they come from, although reads and *)
(* writes start their bursts at different distances from the command and   *)
(* every pair of banks is held back by another table of class Timing.      *)
DataBusExclusive == \A ch \in Channels, k \in BusCycles : bus[ch][k] <= 1

(* The commands that find a bank precharged.                               *)
NeedsPrecharged(cmd, b) ==
    /\ cmd.cmd_type \in {"ACTIVATE", "REFRESH", "REFRESH_BANK", "SREF_ENTER"}
    /\ b \in Targets(cmd)

(***************************************************************************)
(* A bank is activated, refreshed or sent to sleep only when its last      *)
(* accesses are finished (tRTP after a read, tWR after the last data of a  *)
(* write, and tRP for the precharge) and no sooner than tRC after its last *)
(* activation, whether the row was closed by a PRECHARGE of the queues or  *)
(* by one towards a refresh.  The tables hold back a refresh by the        *)
(* PRECHARGE before it, not by the ACTIVATE or by the accesses.            *)
(***************************************************************************)
BankRecovered ==
    [][ClockTick => \A ch \in Channels : \A cmd \in Issued(ch)', b \in Banks :
        NeedsPrecharged(cmd, b) =>
            /\ dist[ch][b]["rd"] >= config.AL + config.tRTP + config.tRP
            /\ dist[ch][b]["wr"] >= WL + config.burst_cycle + config.tWR + config.tRP
            /\ dist[ch][b]["act"] >= tRC]_mvars
=============================================================================
