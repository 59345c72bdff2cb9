----------------------------- MODULE CommandQueue -----------------------------
(***************************************************************************)
(* class CommandQueue: the read and write commands of a channel, in one    *)
(* queue per bank or per rank, the round-robin choice of the next command  *)
(* and the queues that are held back while a refresh is prepared.          *)
(***************************************************************************)
EXTENDS ChannelState

PerRank     == config.queue_structure = "PER_RANK"
num_queues_ == IF PerRank THEN config.ranks ELSE banks * config.ranks
QueueIdx    == 0 .. num_queues_ - 1

NewCommandQueue ==
    [rank_q_empty   |-> [r \in Ranks |-> TRUE],
     queues_        |-> [q \in QueueIdx |-> <<>>],
     ref_q_indices_ |-> {},
     is_in_ref_     |-> FALSE,
     queue_idx_     |-> 0]

GetQueueIndex(addr) ==
    IF PerRank THEN addr.rank
    ELSE addr.rank * banks + addr.bankgroup * config.banks_per_group + addr.bank

WillAcceptCommand(cq, addr) ==
    Len(cq.queues_[GetQueueIndex(addr)]) < config.cmd_queue_size

QueueEmpty(cq) == \A q \in QueueIdx : cq.queues_[q] = <<>>

(* AddCommand, whose only caller has asked WillAcceptCommand.              *)
AddCommand(cq, cmd) ==
    [cq EXCEPT !.queues_[GetQueueIndex(cmd.addr)] = Append(@, cmd),
               !.rank_q_empty[cmd.addr.rank] = FALSE]

(* Mutant: a bank refresh holds back no queue.                             *)
GetRefQIndices_RankOnly(ref) ==
    IF ref.cmd_type = "REFRESH"
    THEN {q \in QueueIdx : (IF PerRank THEN q ELSE q \div banks) = ref.addr.rank}
    ELSE {}

(* The queues that feed the banks a pending refresh is for.                *)
GetRefQIndices(ref) ==
    IF ref.cmd_type = "REFRESH"
    THEN {q \in QueueIdx : (IF PerRank THEN q ELSE q \div banks) = ref.addr.rank}
    ELSE {GetQueueIndex(ref.addr)}

-----------------------------------------------------------------------------
(***************************************************************************)
(* A precharge on behalf of queue[i]: not while an older command wants the *)
(* same bank, and not while a younger one hits the open row, unless the    *)
(* row has served RowHitLimit accesses.                                    *)
(***************************************************************************)
ArbitratePrecharge(cs, queue, i) ==
    LET SameBank(j) == BankOf(queue[j].addr) = BankOf(queue[i].addr)
        pending_row_hits_exist ==
            \E j \in i .. Len(queue) :
                SameBank(j) /\ queue[j].addr.row = OpenRow(cs, queue[i].addr)
    IN /\ \A j \in 1 .. i - 1 : ~SameBank(j)
       /\ \/ ~pending_row_hits_exist
          \/ RowHitCount(cs, queue[i].addr) >= RowHitLimit

(* Mutant: the write looks for older writes instead of older reads.        *)
HasRWDependency_Writes(queue, i) ==
    \E j \in 1 .. i - 1 :
        /\ IsWrite(queue[j])
        /\ [queue[j].addr EXCEPT !.rank = -1] = [queue[i].addr EXCEPT !.rank = -1]

(* An older read of the same bank, row and column (the rank is not         *)
(* compared: all commands of a queue go to the same rank).                 *)
HasRWDependency(queue, i) ==
    \E j \in 1 .. i - 1 :
        /\ IsRead(queue[j])
        /\ [queue[j].addr EXCEPT !.rank = -1] = [queue[i].addr EXCEPT !.rank = -1]

(* The command that goes first, given what each entry of the queue needs.  *)
FirstEligible(cs, queue, ready) ==
    LET eligible ==
            {i \in DOMAIN queue :
                /\ IsValid(ready[i])
                /\ ready[i].cmd_type = "PRECHARGE" => ArbitratePrecharge(cs, queue, i)
                /\ IsWrite(ready[i]) => ~HasRWDependency(queue, i)}
    IN IF eligible = {} THEN NoCommand ELSE ready[Min(eligible)]

GetFirstReadyInQueue(cs, queue) ==
    FirstEligible(cs, queue,
                  [i \in DOMAIN queue |-> ChannelGetReadyCommand(cs, queue[i])])

(* The entries EraseRWCommand may find; it ends the program if none.       *)
Entries(queue, cmd) ==
    {i \in DOMAIN queue : /\ queue[i].hex_addr = cmd.hex_addr
                          /\ queue[i].cmd_type = cmd.cmd_type}

(* Mutant: the issued access stays in its queue.                           *)
EraseRWCommand_Keeps(cq, cmd) == cq

EraseRWCommand(cq, cmd) ==
    [cq EXCEPT !.queues_[GetQueueIndex(cmd.addr)] =
        RemoveAt(@, Min(Entries(@, cmd)))]

(* The queue GetNextQueue reaches in its k-th call.                        *)
GetNextQueue(cq, k) == (cq.queue_idx_ + k) % num_queues_

(* What each queue has ready; those held back for a refresh are skipped.   *)
ReadyInQueues(cs, cq) ==
    [k \in 1 .. num_queues_ |->
        LET q == GetNextQueue(cq, k)
        IN IF cq.is_in_ref_ /\ q \in cq.ref_q_indices_ THEN NoCommand
           ELSE GetFirstReadyInQueue(cs, cq.queues_[q])]

(* cmd is taken for issue in the k-th queue; an access leaves its queue.   *)
TakeCommand(cq, k, cmd) ==
    LET next == [cq EXCEPT !.queue_idx_ = GetNextQueue(cq, k)]
    IN IF ~IsReadWrite(cmd) THEN [cmd |-> cmd, cq |-> next]
       ELSE IF Entries(cq.queues_[GetQueueIndex(cmd.addr)], cmd) = {}
            THEN [cmd |-> AbruptExit, cq |-> next]
            ELSE [cmd |-> cmd, cq |-> EraseRWCommand(next, cmd)]

(***************************************************************************)
(* GetCommandToIssue visits every queue once, starting after queue_idx_,   *)
(* and stops at the first that has a command to issue.  The result is the  *)
(* command and the new state of the object; queue_idx_ is back where it    *)
(* was when no queue had one.                                              *)
(***************************************************************************)
TakeFirst(cq, ready) ==
    LET found == {k \in 1 .. num_queues_ : IsValid(ready[k])}
    IN IF found = {} THEN [cmd |-> NoCommand, cq |-> cq]
       ELSE TakeCommand(cq, Min(found), ready[Min(found)])

GetCommandToIssue(cs, cq) == TakeFirst(cq, ReadyInQueues(cs, cq))

(* Mutant: the held back queues are not released by the refresh.           *)
FinishRefresh_Sticky(cs, cq) ==
    LET ref == PendingRefCommand(cs)
    IN [cmd |-> ChannelGetReadyCommand(cs, ref),
        cq  |-> IF cq.is_in_ref_ THEN cq
                ELSE [cq EXCEPT !.ref_q_indices_ = GetRefQIndices(ref),
                                !.is_in_ref_ = TRUE]]

(***************************************************************************)
(* FinishRefresh: the next command towards the oldest pending refresh, a   *)
(* precharge or the refresh itself; the queues it concerns are held back   *)
(* until the refresh goes out.                                             *)
(***************************************************************************)
FinishRefresh(cs, cq) ==
    LET ref == PendingRefCommand(cs)
        cmd == ChannelGetReadyCommand(cs, ref)
        held == IF cq.is_in_ref_ THEN cq
                ELSE [cq EXCEPT !.ref_q_indices_ = GetRefQIndices(ref),
                                !.is_in_ref_ = TRUE]
    IN [cmd |-> cmd,
        cq  |-> IF IsRefresh(cmd)
                THEN [held EXCEPT !.ref_q_indices_ = {}, !.is_in_ref_ = FALSE]
                ELSE held]
=============================================================================
