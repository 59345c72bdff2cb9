---------------------------- MODULE ThermalReplay ----------------------------
(***************************************************************************)
(* thermalreplay: reads the commands of a trace (such as a controller built*)
(* with CMD_TRACE writes), issues them repeat_ times to the thermal model  *)
(* and counts the cycles in which a rank has an open bank or none.         *)
(*                                                                         *)
(* The counters of commands and what is printed of them are left out; the  *)
(* index into channel_stats_ is kept.                                      *)
(***************************************************************************)
EXTENDS Thermal

LOCAL INSTANCE SequencesExt

CONSTANTS
    TraceCommands,  \* commands in the lines of a trace
    NumberBase,     \* the base in which a line gives rows and columns
    repeat_,
    MaxLines,       \* bound: lines of a trace
    MaxClk          \* bound: cycles of a trace

VARIABLES
    timed_commands_,
    at,              \* ctor, run, report, or how the program has ended
    j,               \* the next command of this round
    clk,             \* the cycle at which this round has begun
    last_clk_,
    bank_active_,    \* the open banks <<channel, rank, bankgroup, bank>>
    cycles,          \* rank_active_cycles and all_bank_idle_cycles
    rounds           \* history: rank_active_cycles after each round

thermal == vars
replay  == <<timed_commands_, at, j, clk, last_clk_, bank_active_, cycles, rounds>>

ASSUME ReplayAssumption ==
    /\ NumberBase \in {10, 16}
    /\ repeat_ \in Nat \ {0} /\ MaxLines \in Nat \ {0} /\ MaxClk \in Nat

ChannelRanks == Channels \X Ranks

-----------------------------------------------------------------------------
(* std::stoi with its default base, of a number written in NumberBase: it  *)
(* stops at the x of 0x..                                                  *)
Stoi(n) == IF NumberBase = 10 THEN n ELSE 0

(* A command as operator<< writes it and ParseLine reads it back.  A word  *)
(* that cmd_map does not have becomes its first enumerator.                *)
Parsed(cmd) ==
    [cmd EXCEPT !.row = Stoi(@), !.column = Stoi(@),
                !.type = IF @ = "unknown" THEN "READ" ELSE @]

(* One turn of the loop that reads the trace; its lines are in the order   *)
(* of their cycles.                                                        *)
ParseLine(n, cmd) ==
    /\ at = "ctor" /\ Len(timed_commands_) < MaxLines
    /\ timed_commands_ # <<>> => n >= Last(timed_commands_).clk
    /\ timed_commands_' = Append(timed_commands_, [clk |-> n, cmd |-> Parsed(cmd)])
    /\ UNCHANGED <<at, j, clk, last_clk_, bank_active_, cycles, rounds, thermal>>

(* A line without eight words ends the program.                            *)
ParseMalformed ==
    /\ at = "ctor" /\ at' = "exit"
    /\ UNCHANGED <<timed_commands_, j, clk, last_clk_, bank_active_,
                   cycles, rounds, thermal>>

Run ==
    /\ at = "ctor" /\ at' = "run"
    /\ UNCHANGED <<timed_commands_, j, clk, last_clk_, bank_active_,
                   cycles, rounds, thermal>>

-----------------------------------------------------------------------------
(* ProcessCMD *)
IsRankActive(r) == \E b \in bank_active_ : <<b[1], b[2]>> = r

BankAt(cmd) == <<cmd.channel, cmd.rank, cmd.bankgroup, cmd.bank>>

ActiveAfter(cmd) ==
    CASE cmd.type = "ACTIVATE" -> bank_active_ \cup {BankAt(cmd)}
      [] cmd.type \in {"READ_PRECHARGE", "WRITE_PRECHARGE", "PRECHARGE"} ->
           bank_active_ \ {BankAt(cmd)}
      [] OTHER -> bank_active_

PastClks(now) == now - last_clk_

ProcessCMD(cmd, now) ==
    /\ cycles' = [r \in ChannelRanks |->
                    IF IsRankActive(r)
                    THEN [cycles[r] EXCEPT !.active = @ + PastClks(now)]
                    ELSE [cycles[r] EXCEPT !.idle = @ + PastClks(now)]]
    /\ bank_active_' = ActiveAfter(cmd)
    /\ last_clk_' = now

(* A turn of the inner loop of Run.  Whatever channel the command names,   *)
(* its heat is for channel 0.                                              *)
ReplayCommand ==
    /\ at = "run" /\ j <= Len(timed_commands_)
    /\ LET t == timed_commands_[j]
       IN IF t.cmd.channel \in Channels
          THEN /\ ProcessCMD(t.cmd, clk + t.clk)
               /\ UpdateCMDPower(0, t.cmd)
               /\ j' = j + 1 /\ at' = at
          ELSE /\ at' = "undefined"
               /\ UNCHANGED <<cycles, bank_active_, last_clk_, j, thermal>>
    /\ UNCHANGED <<timed_commands_, clk, rounds>>

(* Mutant: the next round begins with the banks that this one left open.   *)
ResetBanks_Keeps == bank_active_

ResetBanks == {}

(* The rest of a turn of the outer loop.                                   *)
EndRound ==
    /\ at = "run" /\ j > Len(timed_commands_)
    /\ clk' = clk + (IF timed_commands_ = <<>> THEN 0 ELSE Last(timed_commands_).clk)
    /\ bank_active_' = ResetBanks
    /\ rounds' = Append(rounds, [r \in ChannelRanks |-> cycles[r].active])
    /\ j' = 1
    /\ at' = IF Len(rounds') = repeat_ THEN "report" ELSE "run"
    /\ UNCHANGED <<timed_commands_, last_clk_, cycles, thermal>>

FinalReport ==
    /\ at = "report"
    /\ PrintPT("final") \/ Printed \/ BackgroundTurn
    /\ UNCHANGED replay

ReplayInit ==
    /\ Init
    /\ timed_commands_ = <<>>
    /\ at = "ctor" /\ j = 1
    /\ clk = 0 /\ last_clk_ = 0
    /\ bank_active_ = {}
    /\ cycles = [r \in ChannelRanks |-> [active |-> 0, idle |-> 0]]
    /\ rounds = <<>>

ReplayNext ==
    \/ \E n \in 0 .. MaxClk, cmd \in TraceCommands : ParseLine(n, cmd)
    \/ ParseMalformed \/ Run \/ ReplayCommand \/ EndRound \/ FinalReport

ReplaySpec == ReplayInit /\ [][ReplayNext]_<<thermal, replay>>

-----------------------------------------------------------------------------
(* The cycles in which a rank of the trace is open in one round: from an   *)
(* activation of one of its banks to the command that leaves none open.    *)
OpenIn(r) ==
    LET Cmd(k) == timed_commands_[k].cmd
        Opened(k, b) ==
            /\ Cmd(k).type = "ACTIVATE" /\ BankAt(Cmd(k)) = b
        Closed(k, b) ==
            /\ Cmd(k).type \in {"PRECHARGE", "READ_PRECHARGE", "WRITE_PRECHARGE"}
            /\ BankAt(Cmd(k)) = b
        OpenAfter(k) ==
            \E b \in {BankAt(Cmd(l)) : l \in 1 .. k} :
                /\ <<b[1], b[2]>> = r
                /\ \E l \in 1 .. k : Opened(l, b) /\ \A m \in l + 1 .. k : ~Closed(m, b)
    IN MapThenSumSet(LAMBDA k : IF OpenAfter(k)
                                THEN timed_commands_[k + 1].clk - timed_commands_[k].clk
                                ELSE 0,
                     1 .. Len(timed_commands_) - 1)

(***************************************************************************)
(* Every repetition of the trace finds the banks as the first one did:     *)
(* each adds the cycles in which the commands of one pass keep a rank open,*)
(* although a trace may end with open banks.                               *)
(***************************************************************************)
RoundsAlike ==
    \A k \in DOMAIN rounds, r \in ChannelRanks : rounds[k][r] = k * OpenIn(r)
=============================================================================
