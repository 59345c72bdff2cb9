------------------------------ MODULE Controller ------------------------------
(***************************************************************************)
(* class Controller: one channel's transactions, from their arrival in the *)
(* transaction queues, through the command queues and the DRAM commands    *)
(* they need, to their completion in the return queue.                     *)
(***************************************************************************)
EXTENDS CommandQueue, Refresh

(* The longest time a completed transaction waits in return_queue_.        *)
MaxWait == read_delay

(* A transaction of return_queue_, wait cycles before its complete_cycle.  *)
Returns == [addr : Addr, is_write : BOOLEAN, wait : 0 .. MaxWait]

Return(addr, is_write, wait) ==
    [addr |-> addr, is_write |-> is_write, wait |-> wait]

(***************************************************************************)
(* pending_rd_q_ and pending_wr_q_ are multimaps of which only the number  *)
(* of entries per address matters.  return_queue_ is scanned in full every *)
(* cycle, so it is the number of entries of each kind.  cmd_trace_ is what *)
(* the last cycle wrote to the command trace.  exited is set where the     *)
(* code calls exit(1) or AbruptExit.  Statistics are left out but for      *)
(* in_serve of the banks.                                                  *)
(***************************************************************************)
NewController ==
    [channel_state_ |-> NewChannelState,
     cmd_queue_     |-> NewCommandQueue,
     refresh_       |-> NewRefresh,
     unified_queue_ |-> <<>>,
     read_queue_    |-> <<>>,
     write_buffer_  |-> <<>>,
     pending_rd_q_  |-> [a \in Addr |-> 0],
     pending_wr_q_  |-> [a \in Addr |-> 0],
     return_queue_  |-> [r \in Returns |-> 0],
     write_draining_ |-> 0,
     cmd_trace_     |-> <<>>,
     exited         |-> FALSE]

Exit(c) == [c EXCEPT !.exited = TRUE]

-----------------------------------------------------------------------------
(* The queue a transaction enters, and its capacity.                       *)
QueueFor(is_write) ==
    IF config.unified_queue THEN "unified_queue_"
    ELSE IF is_write THEN "write_buffer_" ELSE "read_queue_"

WillAcceptTransaction(c, is_write) ==
    Len(c[QueueFor(is_write)]) < config.trans_queue_size

(* trans is complete and is returned wait cycles from now                  *)
Complete(c, addr, is_write, n, wait) ==
    [c EXCEPT !.return_queue_[Return(addr, is_write, wait)] = @ + n]

Enqueue(c, trans) == [c EXCEPT ![QueueFor(trans.is_write)] = Append(@, trans)]

(* A write is complete once it is buffered; writes to one address merge.   *)
AddWrite(c, a) ==
    LET buffered == IF c.pending_wr_q_[a] > 0 THEN c
                    ELSE Enqueue([c EXCEPT !.pending_wr_q_[a] = @ + 1],
                                 Transaction(a, TRUE))
    IN Complete(buffered, a, TRUE, 1, 1)

(* Mutant: every read is queued, also one that a pending read covers.      *)
AddRead_NoMerge(c, a) ==
    IF c.pending_wr_q_[a] > 0 THEN Complete(c, a, FALSE, 1, 1)
    ELSE Enqueue([c EXCEPT !.pending_rd_q_[a] = @ + 1], Transaction(a, FALSE))

(* A read is served from a pending write to its address; otherwise it is   *)
(* pending, and queued if it is the first one for the address.             *)
AddRead(c, a) ==
    IF c.pending_wr_q_[a] > 0 THEN Complete(c, a, FALSE, 1, 1)
    ELSE LET pending == [c EXCEPT !.pending_rd_q_[a] = @ + 1]
         IN IF pending.pending_rd_q_[a] = 1
            THEN Enqueue(pending, Transaction(a, FALSE))
            ELSE pending

ControllerAddTransaction(c, trans) ==
    IF trans.is_write THEN AddWrite(c, trans.addr) ELSE AddRead(c, trans.addr)

(* ReturnDoneTrans, called until it finds nothing: what is returned in     *)
(* this cycle, and the controller without it.                              *)
DoneTrans(c, trans) == c.return_queue_[Return(trans.addr, trans.is_write, 0)]

ReturnDoneTrans(c) ==
    [c EXCEPT !.return_queue_ = [r \in Returns |-> IF r.wait = 0 THEN 0 ELSE @[r]]]

-----------------------------------------------------------------------------
(* TransToCommand                                                          *)
TransToCommand(trans) ==
    LET m == AddressMapping[trans.addr]
        type == IF config.row_buf_policy = "CLOSE_PAGE"
                THEN IF trans.is_write THEN "WRITE_PRECHARGE" ELSE "READ_PRECHARGE"
                ELSE IF trans.is_write THEN "WRITE" ELSE "READ"
    IN Command(type, Address(m.rank, m.bankgroup, m.bank, m.row, m.column),
               trans.addr, type)

(* The value of write_draining_ that a cycle's scheduling starts from: a   *)
(* full buffer, or one above the low mark while no command is queued,      *)
(* starts a drain of the whole buffer.                                     *)
DrainGoal(c) ==
    LET n == Len(c.write_buffer_)
    IN IF /\ c.write_draining_ = 0 /\ ~config.unified_queue
          /\ \/ n >= config.trans_queue_size
             \/ n > WriteLowMark /\ QueueEmpty(c.cmd_queue_)
       THEN n ELSE c.write_draining_

(* Mutant: off by one, the write buffer is served without a drain.         *)
ScheduledQueue_OffByOne(goal) == QueueFor(goal >= 0)

(* The queue that is scheduled from.                                       *)
ScheduledQueue(goal) == QueueFor(goal > 0)

(* Mutant: the dependency is looked up among the writes.                   *)
HasOlderReads_Writes(c, trans) ==
    ~config.unified_queue /\ trans.is_write /\ c.pending_wr_q_[trans.addr] > 1

(* The R->W dependency that keeps a write out of the command queues.       *)
HasOlderReads(c, trans) ==
    ~config.unified_queue /\ trans.is_write /\ c.pending_rd_q_[trans.addr] > 0

(* The i-th transaction of a queue becomes a command.                      *)
ToCommandQueue(c, which, i) ==
    LET added == [c EXCEPT !.cmd_queue_ = AddCommand(@, TransToCommand(c[which][i]))]
    IN [added EXCEPT ![which] = RemoveAt(@, i)]

(***************************************************************************)
(* ScheduleTransaction: the first transaction of the chosen queue whose    *)
(* command queue has room becomes a command.  A write whose address has    *)
(* reads pending does not, and ends the drain.                             *)
(***************************************************************************)
ScheduleTransaction(c) ==
    LET goal == DrainGoal(c)
        which == ScheduledQueue(goal)
        accepted == {i \in DOMAIN c[which] :
            WillAcceptCommand(c.cmd_queue_, AddressMapping[c[which][i].addr])}
        first == Min(accepted)
        drains == ~config.unified_queue /\ c[which][first].is_write
    IN IF accepted = {} THEN [c EXCEPT !.write_draining_ = goal]
       ELSE IF HasOlderReads(c, c[which][first])
       THEN [c EXCEPT !.write_draining_ = 0]
       ELSE [ToCommandQueue(c, which, first) EXCEPT
               !.write_draining_ = IF drains THEN goal - 1 ELSE goal]

-----------------------------------------------------------------------------
(* Mutant: only one of the reads pending on the address is returned.       *)
Settle_One(c, cmd) ==
    LET a == cmd.hex_addr IN
    CASE IsRead(cmd) ->
           [Complete(c, a, FALSE, 1, read_delay) EXCEPT !.pending_rd_q_[a] = 0]
      [] IsWrite(cmd) -> [c EXCEPT !.pending_wr_q_[a] = @ - 1]
      [] OTHER -> c

(* The first part of IssueCommand: all reads pending on the address        *)
(* complete together read_delay later; a write leaves pending_wr_q_.       *)
Settle(c, cmd) ==
    LET a == cmd.hex_addr IN
    CASE IsRead(cmd) ->
           [Complete(c, a, FALSE, c.pending_rd_q_[a], read_delay)
               EXCEPT !.pending_rd_q_[a] = 0]
      [] IsWrite(cmd) -> [c EXCEPT !.pending_wr_q_[a] = @ - 1]
      [] OTHER -> c

(* The last part of IssueCommand: which bank now counts as serving.        *)
MarkInServe(c, cmd) ==
    LET b == BankOf(cmd.addr) IN
    CASE IsRead(cmd) ->
           [c EXCEPT !.channel_state_.bank_states_[b] =
                        [@ EXCEPT !.in_serve = TRUE, !.serve_end = read_delay + 1]]
      [] \/ cmd.cmd_type = "ACTIVATE" /\ cmd.by \in ReadTypes
         \/ cmd.cmd_type = "PRECHARGE" /\ cmd.by \in RWTypes ->
           [c EXCEPT !.channel_state_.bank_states_[b].in_serve = TRUE]
      [] OTHER -> c

(* IssueCommand: exits on an access nobody waits for and on a command that *)
(* a bank does not accept.                                                 *)
IssueCommand(c, cmd) ==
    LET traced == [c EXCEPT !.cmd_trace_ = Append(@, cmd)]
    IN IF \/ IsExit(cmd)
          \/ IsRead(cmd) /\ c.pending_rd_q_[cmd.hex_addr] = 0
          \/ IsWrite(cmd) /\ c.pending_wr_q_[cmd.hex_addr] = 0
          \/ ~ChannelAccepts(c.channel_state_, cmd)
       THEN Exit(c)
       ELSE MarkInServe([Settle(traced, cmd) EXCEPT
                !.channel_state_ = UpdateTimingAndStates(@, cmd)], cmd)

(* The command ClockTick issues first: one towards the pending refresh if  *)
(* there is one that can go now, otherwise the next one of the queues.     *)
OrFromQueues(cs, refresh) ==
    IF IsValid(refresh.cmd) THEN refresh ELSE GetCommandToIssue(cs, refresh.cq)

FirstCommand(c) ==
    OrFromQueues(c.channel_state_,
                 IF IsRefreshWaiting(c.channel_state_)
                 THEN FinishRefresh(c.channel_state_, c.cmd_queue_)
                 ELSE [cmd |-> NoCommand, cq |-> c.cmd_queue_])

(* Mutant: the second command is issued only if it is no access.           *)
IssueSecond_RowOnly(c, first, second) ==
    LET taken == [c EXCEPT !.cmd_queue_ = second.cq]
    IN IF IsValid(second.cmd) /\ ~IsReadWrite(second.cmd)
       THEN IssueCommand(taken, second.cmd)
       ELSE taken

(* enable_hbm_dual_cmd: a second command in the cycle, if just one of the  *)
(* two is an access.  It has left its queue in any case.                   *)
IssueSecond(c, first, second) ==
    LET taken == [c EXCEPT !.cmd_queue_ = second.cq]
    IN IF \/ IsExit(second.cmd)
          \/ IsValid(second.cmd) /\ IsReadWrite(second.cmd) # IsReadWrite(first.cmd)
       THEN IssueCommand(taken, second.cmd)
       ELSE taken

(* The rest of the issue phase once the first command has been issued.     *)
AndSecond(issued, first) ==
    IF issued.exited \/ ~config.enable_hbm_dual_cmd THEN issued
    ELSE IssueSecond(issued, first,
                     GetCommandToIssue(issued.channel_state_, issued.cmd_queue_))

(* The issue phase once the first command has been taken from its queue.   *)
IssueFirst(c, first) ==
    LET taken == [c EXCEPT !.cmd_queue_ = first.cq]
    IN IF ~IsValid(first.cmd) THEN taken
       ELSE AndSecond(IssueCommand(taken, first.cmd), first)

(* The issue phase of ClockTick.                                           *)
IssuePhase(c) == IssueFirst(c, FirstCommand(c))

(* Power updates, part 1: how long each rank has been idle.                *)
CountIdle(c) ==
    LET cs == c.channel_state_
        Counted(r) ==
            CASE IsRankSelfRefreshing(cs, r) -> cs.rank_idle_cycles[r]
              [] ~IsRankSelfRefreshing(cs, r) /\ IsAllBankIdleInRank(cs, r) ->
                   IF cs.rank_idle_cycles[r] < config.sref_threshold
                   THEN cs.rank_idle_cycles[r] + 1 ELSE config.sref_threshold
              [] OTHER -> 0
    IN [c EXCEPT !.channel_state_.rank_idle_cycles = [r \in Ranks |-> Counted(r)]]

(* The command the self-refresh loop finds for a rank.                     *)
SelfRefreshCommand(c, r) ==
    LET cs == c.channel_state_
        Rank(type) == Command(type, Address(r, -1, -1, -1, -1), -1, type)
    IN CASE IsRankSelfRefreshing(cs, r) /\ ~c.cmd_queue_.rank_q_empty[r] ->
              ChannelGetReadyCommand(cs, Rank("SREF_EXIT"))
         [] /\ ~IsRankSelfRefreshing(cs, r) /\ c.cmd_queue_.rank_q_empty[r]
            /\ cs.rank_idle_cycles[r] >= config.sref_threshold ->
              ChannelGetReadyCommand(cs, Rank("SREF_ENTER"))
         [] OTHER -> NoCommand

(* Power updates, part 2: in a cycle that issued nothing, the first rank   *)
(* that can enters or leaves self-refresh.                                 *)
SelfRefresh(c) ==
    LET found == {r \in Ranks : IsValid(SelfRefreshCommand(c, r))}
    IN IF ~config.enable_self_refresh \/ c.cmd_trace_ # <<>> \/ found = {} THEN c
       ELSE IssueCommand(c, SelfRefreshCommand(c, Min(found)))

(* Mutant: only a closed row ends the service.                             *)
Calculate_stats_ClosedOnly(c) ==
    [c EXCEPT !.channel_state_.bank_states_ =
        [b \in Banks |->
            IF IsRowClosed(@[b]) THEN [@[b] EXCEPT !.in_serve = FALSE] ELSE @[b]]]

(* Calculate_stats: banks that have finished serving.                      *)
Calculate_stats(c) ==
    [c EXCEPT !.channel_state_.bank_states_ =
        [b \in Banks |->
            IF @[b].serve_end = 0 \/ IsRowClosed(@[b])
            THEN [@[b] EXCEPT !.in_serve = FALSE] ELSE @[b]]]

(* A cycle passes: clk_ of the controller, its queues and its timers.      *)
Elapse(c) ==
    [c EXCEPT !.channel_state_ = ChannelElapse(@),
              !.return_queue_ =
                [r \in Returns |->
                    (IF r.wait < MaxWait THEN @[[r EXCEPT !.wait = r.wait + 1]] ELSE 0)
                    + (IF r.wait = 0 THEN @[r] ELSE 0)]]

(***************************************************************************)
(* ClockTick: refresh_ ticks, commands are issued, power states change and *)
(* a transaction is scheduled.  Nothing follows once the program has ended.*)
(***************************************************************************)
RefreshPhase(c) ==
    LET tick == RefreshClockTick(c.channel_state_, c.refresh_)
    IN [c EXCEPT !.channel_state_ = tick.cs, !.refresh_ = tick.rf, !.cmd_trace_ = <<>>]

PowerPhase(c) == IF c.exited THEN c ELSE SelfRefresh(CountIdle(c))

SchedulePhase(c) ==
    IF c.exited THEN c ELSE Elapse(ScheduleTransaction(Calculate_stats(c)))

ControllerClockTick(c) == SchedulePhase(PowerPhase(IssuePhase(RefreshPhase(c))))
=============================================================================
