---------------------------- MODULE JedecDRAMSystem ----------------------------
(***************************************************************************)
(* class JedecDRAMSystem: one controller per channel behind the interface  *)
(* that a CPU model drives.  AddTransaction and ClockTick are its two      *)
(* entry points; a completed request is handed to a callback inside        *)
(* ClockTick.                                                              *)
(***************************************************************************)
EXTENDS Controller

CONSTANTS
    Requests,  \* the requests the driver makes
    MaxSame    \* bound: identical requests accepted and not yet returned

ASSUME RequestsAssumption == Requests \subseteq Transactions

VARIABLES
    clk_,      \* the clock, modulo epoch_period, its only use here
    ctrls_,    \* the controller of each channel
    returned   \* callbacks made by the last step: request -> how many

vars == <<clk_, ctrls_, returned>>

GetChannel(a) == AddressMapping[a].channel

Nothing == [t \in Transactions |-> 0]

(* f[0] + ... + f[n]                                                       *)
SumUpTo(f, n) ==
    LET sum[i \in 0 .. n] == f[i] + (IF i = 0 THEN 0 ELSE sum[i - 1])
    IN sum[n]

(* The requests like t that controller c has accepted and not yet          *)
(* returned: reads that wait for their READ, and what has been completed.  *)
Owed(c, t) ==
    (IF t.is_write THEN 0 ELSE c.pending_rd_q_[t.addr])
    + SumUpTo([w \in 0 .. MaxWait |-> c.return_queue_[Return(t.addr, t.is_write, w)]],
              MaxWait)

(* Accepted and not yet returned requests like t.                          *)
Outstanding(t) == Owed(ctrls_[GetChannel(t.addr)], t)

Running == \A ch \in Channels : ~ctrls_[ch].exited

Init ==
    /\ clk_ = 0
    /\ ctrls_ = [ch \in Channels |-> NewController]
    /\ returned = Nothing

(* AddTransaction, called only when WillAcceptTransaction says so: the     *)
(* code asserts it.                                                        *)
AddTransaction(t) ==
    /\ Running
    /\ Outstanding(t) < MaxSame
    /\ WillAcceptTransaction(ctrls_[GetChannel(t.addr)], t.is_write)
    /\ ctrls_' = [ctrls_ EXCEPT ![GetChannel(t.addr)] =
                    ControllerAddTransaction(@, t)]
    /\ returned' = Nothing
    /\ UNCHANGED clk_

(* The clock advances; it does so in every ClockTick and nowhere else.     *)
Advance ==
    /\ Running
    /\ clk_' = (clk_ + 1) % config.epoch_period

(* ClockTick: all requests that are done are returned, then every          *)
(* controller runs for a cycle.  The epoch statistics are left out.        *)
ClockTick ==
    /\ Advance
    /\ returned' = [t \in Transactions |-> DoneTrans(ctrls_[GetChannel(t.addr)], t)]
    /\ ctrls_' = [ch \in Channels |-> ControllerClockTick(ReturnDoneTrans(ctrls_[ch]))]

Next == (\E t \in Requests : AddTransaction(t)) \/ ClockTick

Spec == Init /\ [][Next]_vars

(* The driver's main loop calls ClockTick once per cycle for ever; when    *)
(* and what it adds is its own choice.  ClockTick is enabled exactly when  *)
(* Advance is, and is the only step that changes clk_, so this is weak     *)
(* fairness of ClockTick in a form whose ENABLED TLC evaluates quickly.    *)
FairSpec == Spec /\ WF_clk_(Advance)

-----------------------------------------------------------------------------
(* Types.                                                                  *)

Rows == {AddressMapping[a].row : a \in Addr}
Columns == {AddressMapping[a].column : a \in Addr}

BankType ==
    [state_ : {"OPEN", "CLOSED", "SREF"}, cmd_timing_ : [CommandType -> Nat],
     open_row_ : Rows \cup {-1}, row_hit_count_ : 0 .. RowHitLimit,
     in_serve : BOOLEAN, serve_end : -1 .. read_delay + 1]

AddressType ==
    [rank : Ranks, bankgroup : Bankgroups \cup {-1},
     bank : BanksPerGroup \cup {-1}, row : Rows \cup {-1}, column : Columns \cup {-1}]

CommandRecord ==
    [cmd_type : CommandType, addr : AddressType, hex_addr : Addr \cup {-1},
     by : CommandType]

(* What may be issued: a command that is not for a whole rank names a      *)
(* bank, one that opens a row names the row, an access names its address.  *)
IssueType ==
    {cmd \in CommandRecord :
        /\ ~IsRankCMD(cmd) => BankOf(cmd.addr) \in Banks
        /\ cmd.cmd_type = "ACTIVATE" => cmd.addr.row \in Rows
        /\ IsReadWrite(cmd) => cmd.hex_addr \in Addr}

RefreshCommands ==
    {RankRefresh(r) : r \in Ranks} \cup {BankRefresh(b[1], b[2], b[3]) : b \in Banks}

QueueCommands == {TransToCommand(t) : t \in Transactions}

ChannelStateType ==
    [rank_idle_cycles : [Ranks -> 0 .. config.sref_threshold],
     rank_is_sref_ : [Ranks -> BOOLEAN], bank_states_ : [Banks -> BankType],
     refresh_q_ : Seq(RefreshCommands),
     four_aw_ : [Ranks -> Seq(Nat)], thirty_two_aw_ : [Ranks -> Seq(Nat)]]

CommandQueueType ==
    [rank_q_empty : [Ranks -> BOOLEAN], queues_ : [QueueIdx -> Seq(QueueCommands)],
     ref_q_indices_ : SUBSET QueueIdx, is_in_ref_ : BOOLEAN, queue_idx_ : QueueIdx]

RefreshType ==
    [clk_ : 0 .. refresh_interval_, next_rank_ : Ranks, next_bg_ : Bankgroups,
     next_bank_ : BanksPerGroup]

ControllerType ==
    [channel_state_ : ChannelStateType, cmd_queue_ : CommandQueueType,
     refresh_ : RefreshType, unified_queue_ : Seq(Transactions),
     read_queue_ : Seq(Transactions), write_buffer_ : Seq(Transactions),
     pending_rd_q_ : [Addr -> Nat], pending_wr_q_ : [Addr -> Nat],
     return_queue_ : [Returns -> Nat], write_draining_ : Int,
     cmd_trace_ : Seq(IssueType), exited : BOOLEAN]

(* Every member of every object of the system has a value of its type: the *)
(* counters of row hits, idle cycles and refresh cycles stay in range and  *)
(* the queues hold nothing but the commands TransToCommand makes and the   *)
(* refreshes InsertRefresh makes.                                          *)
TypeOK ==
    /\ ctrls_ \in [Channels -> ControllerType]
    /\ returned \in [Transactions -> Nat]
    /\ clk_ \in 0 .. config.epoch_period - 1

-----------------------------------------------------------------------------
(* Safety.                                                                 *)

Pending(c, t) == IF t.is_write THEN c.pending_wr_q_[t.addr] ELSE c.pending_rd_q_[t.addr]

QueueOf(c, t) == c.cmd_queue_.queues_[GetQueueIndex(AddressMapping[t.addr])]

InTransQueue(c, t) ==
    \E i \in DOMAIN c[QueueFor(t.is_write)] : c[QueueFor(t.is_write)][i] = t
InCommandQueue(c, t) ==
    \E i \in DOMAIN QueueOf(c, t) : QueueOf(c, t)[i] = TransToCommand(t)

(***************************************************************************)
(* No request is lost and no queue entry is orphaned: an address has reads *)
(* (a write) pending exactly while the transaction queue or the command    *)
(* queue of its bank holds an entry for them.  AddTransaction,             *)
(* ScheduleTransaction, EraseRWCommand and IssueCommand each update only   *)
(* some of the queues involved.                                            *)
(***************************************************************************)
QueuesMatchPending ==
    \A t \in Transactions :
        LET c == ctrls_[GetChannel(t.addr)]
        IN (Pending(c, t) > 0) <=> (InTransQueue(c, t) \/ InCommandQueue(c, t))

(* An address is queued at most once per direction, so that one READ       *)
(* serves all reads pending on it and a second READ finds none, where      *)
(* IssueCommand would exit.                                                *)
QueuedOnce ==
    \A t \in Transactions :
        LET c == ctrls_[GetChannel(t.addr)]
            tq == c[QueueFor(t.is_write)]
            cq == QueueOf(c, t)
        IN /\ ~(InTransQueue(c, t) /\ InCommandQueue(c, t))
           /\ \A i, j \in DOMAIN tq : tq[i] = t /\ tq[j] = t => i = j
           /\ \A i, j \in DOMAIN cq :
                cq[i] = TransToCommand(t) /\ cq[j] = TransToCommand(t) => i = j

(* No interleaving of arrivals, refreshes and bank states drives a         *)
(* controller into exit(1) or AbruptExit: no access is issued that nobody  *)
(* waits for, and no bank gets a command its state does not accept.        *)
NoErrorExit == Running

(* The drain counter never exceeds the writes left to drain and never      *)
(* falls below zero, where no test of ScheduleTransaction would ever start *)
(* a drain again.                                                          *)
DrainWithinBuffer ==
    \A ch \in Channels :
        ctrls_[ch].write_draining_ \in 0 .. Len(ctrls_[ch].write_buffer_)

(* The queues held back are those of the refresh at the head of            *)
(* refresh_q_, from the first call of FinishRefresh until the refresh is   *)
(* issued, and none otherwise: ref_q_indices_ is never stale.              *)
HeldBackForHead ==
    \A ch \in Channels :
        LET cs == ctrls_[ch].channel_state_
            cq == ctrls_[ch].cmd_queue_
        IN IF cq.is_in_ref_
           THEN /\ IsRefreshWaiting(cs)
                /\ cq.ref_q_indices_ = GetRefQIndices(PendingRefCommand(cs))
           ELSE cq.ref_q_indices_ = {}

(* At most FawDepth activations of a rank are younger than tFAW, although  *)
(* UpdateActivationTimes drops at most one entry per activation.           *)
ActivationsInWindow ==
    \A ch \in Channels, r \in Ranks :
        LET cs == ctrls_[ch].channel_state_
            Live(window) == {i \in DOMAIN window : window[i] > 0}
        IN /\ Cardinality(Live(cs.four_aw_[r])) <= FawDepth
           /\ Cardinality(Live(cs.thirty_two_aw_[r])) <= Aw32Depth

(* Refreshes keep up with the rate they are requested at: no rank or bank  *)
(* is queued for a refresh while an earlier one for it is still waiting.   *)
RefreshesKeepUp ==
    \A ch \in Channels :
        LET q == ctrls_[ch].channel_state_.refresh_q_
        IN \A i, j \in DOMAIN q : q[i] = q[j] => i = j

-----------------------------------------------------------------------------
(* Action properties.  Issued: the commands a cycle has put on the bus.    *)

Issued(ch) == {ctrls_[ch].cmd_trace_[i] : i \in DOMAIN ctrls_[ch].cmd_trace_}

(* A WRITE never reaches the bank while a read accepted before it is       *)
(* pending on the same address: the read would return the new data.        *)
(* Separate queues rely on ScheduleTransaction, a unified queue on         *)
(* HasRWDependency.                                                        *)
NoWritePassesRead ==
    [][ClockTick =>
        \A ch \in Channels : \A cmd \in Issued(ch)' :
            IsWrite(cmd) => ctrls_'[ch].pending_rd_q_[cmd.hex_addr] = 0]_vars

(* While a refresh is prepared no bank it is for is opened or accessed     *)
(* again, whatever order FinishRefresh and GetCommandToIssue issue in.     *)
RefreshNotDisturbed ==
    [][ClockTick =>
        \A ch \in Channels :
            LET cs == ctrls_'[ch].channel_state_
            IN ctrls_'[ch].cmd_queue_.is_in_ref_ /\ IsRefreshWaiting(cs) =>
                \A cmd \in Issued(ch)' :
                    cmd.cmd_type \in RWTypes \cup {"ACTIVATE"} =>
                        BankOf(cmd.addr) \notin Targets(PendingRefCommand(cs))]_vars

-----------------------------------------------------------------------------
(* Refinement: what the system as a whole promises its driver.             *)
Service == INSTANCE MemoryService
             WITH Requests <- Transactions,
                  outstanding <- [t \in Transactions |-> Outstanding(t)]

(* Each accepted request is handed to a callback exactly once, with its    *)
(* own address and direction, however reads merge, writes bypass reads     *)
(* and commands are reordered.                                             *)
ImplementsService == Service!Spec

-----------------------------------------------------------------------------
(* Liveness, under FairSpec.                                               *)

(* Every accepted request is returned by a later ClockTick.                *)
RequestsReturn ==
    \A t \in Transactions : Outstanding(t) > 0 ~> returned[t] > 0

(* No rank is forgotten: each one is refreshed again and again.            *)
EveryRankRefreshed ==
    \A ch \in Channels, r \in Ranks :
        []<>(\E cmd \in Issued(ch) : IsRefresh(cmd) /\ cmd.addr.rank = r)

(* Every drain ends.                                                       *)
DrainsEnd == \A ch \in Channels : ctrls_[ch].write_draining_ > 0 ~> ctrls_[ch].write_draining_ = 0

(* A drain does not lock the reads out: a read in read_queue_ becomes a    *)
(* command in the end, since a drain ends when it meets a write that has   *)
(* to wait for a read, or when the writes it started with are scheduled.   *)
DrainYieldsToReads ==
    \A ch \in Channels, a \in Addr :
        LET InReadQueue ==
              \E i \in DOMAIN ctrls_[ch].read_queue_ : ctrls_[ch].read_queue_[i].addr = a
        IN InReadQueue ~> ~InReadQueue

(* The program runs, nothing is outstanding and no command is queued.      *)
Quiet ==
    /\ Running
    /\ \A t \in Transactions : Outstanding(t) = 0
    /\ \A ch \in Channels : QueueEmpty(ctrls_[ch].cmd_queue_)

(* Idle ranks are moved into self-refresh: one that has nothing to do for  *)
(* ever does not stay awake for ever.                                      *)
IdleRankSleeps ==
    <>[]Quiet =>
        \A ch \in Channels, r \in Ranks :
            []<>IsRankSelfRefreshing(ctrls_[ch].channel_state_, r)
=============================================================================
