----------------------------- MODULE PhaseStats -----------------------------
(***************************************************************************)
(* The statistics of BaseDRAMSystem on locality and parallelism, gathered  *)
(* while JedecDRAMSystem runs and printed by stats_mo, which the host      *)
(* simulator calls once per phase.  The members never shrink and only      *)
(* their growth since the last call is printed (the difference with the    *)
(* members named last_...), so the growth is what the module keeps.        *)
(***************************************************************************)
EXTENDS JedecDRAMSystem

CONSTANT PhaseCycles  \* bound: cycles of a phase

ASSUME PhaseAssumption == PhaseCycles \in Nat \ {0}

VARIABLES
    phase,   \* growth of the members since the last stats_mo
    cycles,  \* history: cycles since the last stats_mo
    touched  \* history: banks accessed since their last ACTIVATE

pvars == <<vars, phase, cycles, touched>>

NewPhase ==
    [read_cmds |-> 0, write_cmds |-> 0, read_row_hits |-> 0,
     write_row_hits |-> 0, active_cycles |-> 0, concurrent_serve |-> 0]

BankIn(ch, cmd) == ctrls_[ch].channel_state_.bank_states_[BankOf(cmd.addr)]

(***************************************************************************)
(* UpdateCommandStats, before the command changes the state of its bank: a *)
(* read counts for all requests that were pending on its address.          *)
(***************************************************************************)
RequestsOf(ch, cmd) == IF IsRead(cmd) THEN ctrls_[ch].pending_rd_q_[cmd.hex_addr] ELSE 1

RowHit(ch, cmd) == BankIn(ch, cmd).row_hit_count_ # 0

Accesses(ch, types) == {cmd \in Issued(ch)' : cmd.cmd_type \in types}

Counted(types, hits) ==
    MapThenSumSet(
        LAMBDA ch : MapThenSumSet(LAMBDA cmd : RequestsOf(ch, cmd),
                                  {cmd \in Accesses(ch, types) : hits => RowHit(ch, cmd)}),
        Channels)

(* Calculate_stats, after the tick: banks of a channel that are serving.   *)
InServe(ch) ==
    Cardinality({b \in Banks : ctrls_[ch].channel_state_.bank_states_[b].in_serve})

(* The controllers that report an active cycle: the loop of ClockTick adds *)
(* one to active_cycles for each of them, as its flag changed starts anew. *)
ActiveChannels == {ch \in Channels : InServe(ch) > 0}

Grown(p) ==
    [read_cmds |-> p.read_cmds + Counted(ReadTypes, FALSE),
     write_cmds |-> p.write_cmds + Counted(WriteTypes, FALSE),
     read_row_hits |-> p.read_row_hits + Counted(ReadTypes, TRUE),
     write_row_hits |-> p.write_row_hits + Counted(WriteTypes, TRUE),
     active_cycles |-> p.active_cycles + Cardinality(ActiveChannels'),
     concurrent_serve |->
        p.concurrent_serve + MapThenSumSet(LAMBDA ch : InServe(ch)', ActiveChannels')]

-----------------------------------------------------------------------------
PInit ==
    /\ Init
    /\ phase = NewPhase
    /\ cycles = 0
    /\ touched = [ch \in Channels |-> {}]

PAddTransaction(t) == AddTransaction(t) /\ UNCHANGED <<phase, cycles, touched>>

Touched(banks_, cmds) ==
    (banks_ \ {BankOf(cmd.addr) : cmd \in {x \in cmds : x.cmd_type = "ACTIVATE"}})
    \cup {BankOf(cmd.addr) : cmd \in {x \in cmds : IsReadWrite(x)}}

PClockTick ==
    /\ cycles < PhaseCycles
    /\ ClockTick
    /\ phase' = Grown(phase)
    /\ cycles' = cycles + 1
    /\ touched' = [ch \in Channels |-> Touched(touched[ch], Issued(ch)')]

stats_mo ==
    /\ phase' = NewPhase
    /\ cycles' = 0
    /\ UNCHANGED <<vars, touched>>

PNext == (\E t \in Requests : PAddTransaction(t)) \/ PClockTick \/ stats_mo

PSpec == PInit /\ [][PNext]_pvars

-----------------------------------------------------------------------------
(* The reads whose data a bank has to deliver.                             *)
ReadsOf(ch, b) ==
    {t \in Transactions : /\ ~t.is_write /\ GetChannel(t.addr) = ch
                          /\ BankOf(AddressMapping[t.addr]) = b}

(***************************************************************************)
(* A bank that counts as serving has a read to serve: one that waits for   *)
(* its READ, whose data are on their way, or that is handed to its         *)
(* callback in this very cycle.  IssueCommand sets in_serve at commands of *)
(* three kinds, some of them made for writes or refreshes, and moves       *)
(* serve_end_cycle at some of them only; Calculate_stats clears in_serve   *)
(* in one single cycle, whose number may be left over from an earlier      *)
(* read, or while the row is closed.                                       *)
(***************************************************************************)
ServingHasReads ==
    [][ClockTick => \A ch \in Channels, b \in Banks :
         LET c == ctrls_'[ch]
         IN ~c.exited /\ c.channel_state_.bank_states_[b].in_serve =>
              \E t \in ReadsOf(ch, b) : Owed(c, t) > 0 \/ returned'[t] > 0]_pvars

(* A row hit is an access to a row that was accessed before since it was   *)
(* activated: the count that UpdateCommandStats reads before the command   *)
(* changes it is reset whenever the row is closed, whoever closes it.      *)
RowHitsReal ==
    [][ClockTick => \A ch \in Channels :
         \A cmd \in Accesses(ch, RWTypes) :
             RowHit(ch, cmd) <=> BankOf(cmd.addr) \in touched[ch]]_pvars

(***************************************************************************)
(* What the loop of ClockTick says of active_cycles: a cycle in which some *)
(* controller is active is an active cycle, and however many are, the      *)
(* counter grows only once.                                                *)
(***************************************************************************)
ActiveCyclesOnce == phase.active_cycles <= cycles
=============================================================================
