---------------------------- MODULE JedecQueueProofs ----------------------------
(***************************************************************************)
(* What becomes of a request between its arrival and its access, for every *)
(* configuration: it is queued once, it is queued exactly as long as it is *)
(* pending, no write overtakes a read of its address, no access disturbs a *)
(* refresh that is being prepared and no controller ends the program.      *)
(* The invariants are about a single controller, as in JedecSafetyProofs,  *)
(* and the lemmas follow them through the phases of                        *)
(* Controller::ClockTick.                                                  *)
(***************************************************************************)
EXTENDS JedecSafetyProofs

Reading(a) == Transaction(a, FALSE)
Writing(a) == Transaction(a, TRUE)

(* The transactions that wait in a transaction queue, and those that have  *)
(* become commands.                                                        *)
Waiting(c)   == {t \in Transactions : InTransQueue(c, t)}
Scheduled(c) == {t \in Transactions : InCommandQueue(c, t)}

(* A command is in the queue of its bank or rank.                          *)
HomeOk(cq) ==
    \A q \in QueueIdx : \A i \in DOMAIN cq.queues_[q] :
        GetQueueIndex(cq.queues_[q][i].addr) = q

(* No queue holds the same entry twice.                                    *)
NoRepeats(c) ==
    /\ IsInjective(c.unified_queue_) /\ IsInjective(c.read_queue_)
    /\ IsInjective(c.write_buffer_)
    /\ \A q \in QueueIdx : IsInjective(c.cmd_queue_.queues_[q])

(* A queued transaction is in one queue only, and is pending; a write is   *)
(* pending at most once.                                                   *)
Backed(c) ==
    /\ Waiting(c) \cap Scheduled(c) = {}
    /\ \A t \in Waiting(c) \cup Scheduled(c) : Pending(c, t) > 0
    /\ \A a \in Addr : c.pending_wr_q_[a] <= 1

Linked(c) == HomeOk(c.cmd_queue_) /\ NoRepeats(c) /\ Backed(c)

(* What is pending is queued.                                              *)
Covered(c) ==
    \A t \in Transactions : Pending(c, t) > 0 => t \in Waiting(c) \cup Scheduled(c)

(* x comes before y wherever both occur in s.                              *)
Before(s, x, y) == \A i, j \in DOMAIN s : s[i] = x /\ s[j] = y => i < j

(***************************************************************************)
(* Why a write stays behind the reads of its address.  With a unified      *)
(* queue the read is ahead of the write in either queue and becomes a      *)
(* command first; otherwise a write becomes a command only when no read is *)
(* pending.                                                                *)
(***************************************************************************)
Ordered(c) ==
    \A a \in Addr :
        IF config.unified_queue
        THEN /\ Before(c.unified_queue_, Reading(a), Writing(a))
             /\ Before(QueueOf(c, Writing(a)), TransToCommand(Reading(a)),
                       TransToCommand(Writing(a)))
             /\ Writing(a) \in Scheduled(c) => Reading(a) \notin Waiting(c)
        ELSE Writing(a) \in Scheduled(c) => c.pending_rd_q_[a] = 0

(* The writes of this cycle have left no read of their address behind.     *)
WritesClear(c) ==
    \A i \in DOMAIN c.cmd_trace_ :
        IsWrite(c.cmd_trace_[i]) => c.pending_rd_q_[c.cmd_trace_[i].hex_addr] = 0

(* A command that does not touch the banks of the refresh in preparation.  *)
Harmless(cs, cq, cmd) ==
    cq.is_in_ref_ /\ cmd.cmd_type \in RWTypes \cup {"ACTIVATE"} =>
        BankOf(cmd.addr) \notin Targets(PendingRefCommand(cs))

Undisturbed(c) ==
    \A i \in DOMAIN c.cmd_trace_ :
        Harmless(c.channel_state_, c.cmd_queue_, c.cmd_trace_[i])

(* No bank sleeps.                                                         *)
Awake(cs) == \A b \in Banks : cs.bank_states_[b].state_ # "SREF"

-----------------------------------------------------------------------------
(* Sequences without repetitions, as sets.                                 *)

(* Append adds an element to the set and, if it is new, no repetition.     *)
LEMMA AppendSet ==
    ASSUME NEW S, NEW s \in Seq(S), NEW e \in S
    PROVE  /\ ToSet(Append(s, e)) = ToSet(s) \cup {e}
           /\ IsInjective(s) /\ e \notin ToSet(s) => IsInjective(Append(s, e))
<1>1. /\ DOMAIN s \subseteq DOMAIN Append(s, e)
      /\ \A k \in DOMAIN s : Append(s, e)[k] = s[k]
      /\ Len(s) + 1 \in DOMAIN Append(s, e) /\ Append(s, e)[Len(s) + 1] = e
      /\ \A k \in DOMAIN Append(s, e) : k \in DOMAIN s \/ k = Len(s) + 1
  BY AppendSource
<1>2. QED
  BY <1>1 DEF ToSet, IsInjective

(* RemoveAt takes an element out of the set of a sequence without          *)
(* repetitions.                                                            *)
LEMMA RemoveSet ==
    ASSUME NEW S, NEW s \in Seq(S), NEW i \in DOMAIN s, IsInjective(s)
    PROVE  /\ ToSet(RemoveAt(s, i)) = ToSet(s) \ {s[i]}
           /\ IsInjective(RemoveAt(s, i))
<1>1. /\ \A k, l \in DOMAIN RemoveAt(s, i) :
           RemoveAt(s, i)[k] = RemoveAt(s, i)[l] => k = l
      /\ \A k \in DOMAIN RemoveAt(s, i) : RemoveAt(s, i)[k] # s[i]
  BY RemoveAtInjective DEF IsInjective
<1>2. \A j \in DOMAIN RemoveAt(s, i) : \E k \in DOMAIN s : RemoveAt(s, i)[j] = s[k]
  BY RemoveAtSource
<1>3. \A k \in DOMAIN s : k # i => \E j \in DOMAIN RemoveAt(s, i) : RemoveAt(s, i)[j] = s[k]
  BY RemoveAtKeeps
<1>4. QED
  BY <1>1, <1>2, <1>3 DEF ToSet, IsInjective

(* The order of two elements survives both.                                *)
LEMMA BeforeAppend ==
    ASSUME NEW S, NEW s \in Seq(S), NEW e \in S, NEW x, NEW y, x # y,
           Before(s, x, y), e = x => y \notin ToSet(s)
    PROVE  Before(Append(s, e), x, y)
<1>1. /\ DOMAIN s \subseteq DOMAIN Append(s, e)
      /\ \A k \in DOMAIN s : Append(s, e)[k] = s[k]
      /\ Len(s) + 1 \in DOMAIN Append(s, e) /\ Append(s, e)[Len(s) + 1] = e
      /\ \A k \in DOMAIN Append(s, e) : k \in DOMAIN s \/ k = Len(s) + 1
  BY AppendSource
<1>2. \A k \in DOMAIN s : k < Len(s) + 1
  OBVIOUS
<1>3. QED
  BY <1>1, <1>2 DEF Before, ToSet

(* Removing an element from a sequence keeps the order of the others.      *)
LEMMA BeforeRemove ==
    ASSUME NEW S, NEW s \in Seq(S), NEW i \in DOMAIN s, NEW x, NEW y, Before(s, x, y)
    PROVE  Before(RemoveAt(s, i), x, y)
<1>1. /\ DOMAIN RemoveAt(s, i) = 1 .. Len(s) - 1 /\ Len(s) \in Nat
      /\ DOMAIN s = 1 .. Len(s) /\ i \in 1 .. Len(s)
  BY RemoveAtProperties
<1> DEFINE src(k) == IF k < i THEN k ELSE k + 1
<1>2. ASSUME NEW k \in 1 .. Len(s) - 1
      PROVE  src(k) \in DOMAIN s /\ RemoveAt(s, i)[k] = s[src(k)]
  <2>1. RemoveAt(s, i)[k] = IF k < i THEN s[k] ELSE s[k + 1]
    BY RemoveAtProperties
  <2>2. QED
    BY <2>1, <1>1
<1>3. \A k, l \in 1 .. Len(s) - 1 : src(k) < src(l) => k < l
  BY <1>1
<1> HIDE DEF src
<1>4. QED
  BY <1>1, <1>2, <1>3 DEF Before

-----------------------------------------------------------------------------
(* Transactions and their commands.                                        *)

(* TransToCommand in full: the command carries the address, its type tells *)
(* the direction, and it is issued on its own behalf.                      *)
LEMMA CommandOf ==
    ASSUME NEW t \in Transactions
    PROVE  LET cmd == TransToCommand(t)
           IN /\ cmd \in QueueCommands /\ cmd.hex_addr = t.addr
              /\ cmd.by = cmd.cmd_type
              /\ IsReadWrite(cmd)
              /\ IsWrite(cmd) <=> t.is_write
              /\ IsRead(cmd) <=> ~t.is_write
              /\ cmd = Command(cmd.cmd_type, cmd.addr, cmd.hex_addr, cmd.by)
              /\ GetQueueIndex(cmd.addr) = GetQueueIndex(AddressMapping[t.addr])
              /\ GetQueueIndex(cmd.addr) \in QueueIdx
<1>1. t.is_write \in BOOLEAN
  BY DEF Transactions
<1>2. TransToCommand(t) \in QueueCommands
  BY DEF QueueCommands
<1>3. GetQueueIndex(TransToCommand(t).addr) \in QueueIdx
  BY <1>2, QueueCommandsTyped, QueueIndexInRange
<1>4. QED
  BY <1>1, <1>2, <1>3 DEF TransToCommand, Command, Address, IsReadWrite, IsWrite, IsRead,
        RWTypes, ReadTypes, WriteTypes, GetQueueIndex

(* Different transactions have different commands.                         *)
LEMMA CommandsDiffer ==
    ASSUME NEW t \in Transactions, NEW u \in Transactions,
           TransToCommand(t).hex_addr = TransToCommand(u).hex_addr,
           TransToCommand(t).cmd_type = TransToCommand(u).cmd_type
    PROVE  t = u
<1>1. t.addr = u.addr /\ t.is_write = u.is_write
  BY CommandOf DEF IsWrite, IsRead, Transactions
<1>2. QED
  BY <1>1 DEF Transactions

(* The queues, seen as sets of transactions.                               *)
LEMMA WaitingSet ==
    ASSUME NEW c, NEW t \in Transactions
    PROVE  /\ t \in Waiting(c) <=> t \in ToSet(c[QueueFor(t.is_write)])
           /\ t \in Scheduled(c) <=> TransToCommand(t) \in ToSet(QueueOf(c, t))
BY DEF Waiting, Scheduled, InTransQueue, InCommandQueue, ToSet

-----------------------------------------------------------------------------
(* The choice of the next command.                                         *)

(* What a bank answers to an entry of a queue, by its state.               *)
LEMMA QueueAnswer ==
    ASSUME NEW cs \in ChannelStateType, NEW cmd \in QueueCommands
    PROVE  LET r == ChannelGetReadyCommand(cs, cmd)
               b == cs.bank_states_[BankOf(cmd.addr)]
           IN \/ r = NoCommand
              \/ /\ r.addr = cmd.addr /\ b.cmd_timing_[r.cmd_type] = 0
                 /\ \/ r.cmd_type = "ACTIVATE" /\ b.state_ = "CLOSED"
                    \/ r.cmd_type = "PRECHARGE" /\ b.state_ = "OPEN"
                    \/ r.cmd_type = "SREF_EXIT" /\ b.state_ = "SREF"
                    \/ r = cmd /\ b.state_ = "OPEN"
<1> DEFINE b == cs.bank_states_[BankOf(cmd.addr)]
           t == RequiredType(b, cmd)
           ans == Command(t, cmd.addr, cmd.hex_addr, cmd.cmd_type)
<1>1. cmd.cmd_type \in RWTypes /\ BankOf(cmd.addr) \in Banks /\ ~IsRankCMD(cmd)
  BY QueueCommandsTyped DEF IsRankCMD, RankTypes, RWTypes, ReadTypes, WriteTypes
<1>2. b \in BankType
  BY <1>1 DEF ChannelStateType
<1>3. cmd = Command(cmd.cmd_type, cmd.addr, cmd.hex_addr, cmd.cmd_type)
  <2>1. PICK u \in Transactions : cmd = TransToCommand(u)
    BY DEF QueueCommands
  <2>2. QED
    BY <2>1, CommandOf
<1> HIDE DEF b
<1>4. \/ t = "ACTIVATE" /\ b.state_ = "CLOSED"
      \/ t = "PRECHARGE" /\ b.state_ = "OPEN"
      \/ t = "SREF_EXIT" /\ b.state_ = "SREF"
      \/ t = cmd.cmd_type /\ b.state_ = "OPEN"
  BY <1>1, <1>2 DEF RequiredType, BankType, RWTypes, ReadTypes, WriteTypes
<1>5. t # "EXIT"
  BY <1>1, <1>4 DEF RWTypes, ReadTypes, WriteTypes
<1> HIDE DEF t
<1>6. \/ ChannelGetReadyCommand(cs, cmd) = NoCommand
      \/ ChannelGetReadyCommand(cs, cmd) = ans /\ b.cmd_timing_[t] = 0
  BY <1>1, <1>5 DEF ChannelGetReadyCommand, BankGetReadyCommand, b, t
<1>7. ans.cmd_type = t /\ ans.addr = cmd.addr
  BY DEF Command
<1>8. t = cmd.cmd_type => ans = cmd
  BY <1>3
<1> HIDE DEF ans
<1>9. QED
  BY <1>4, <1>6, <1>7, <1>8 DEF b

(* The command a queue offers is the answer to one of its entries, and a   *)
(* write that is offered has no older read of its location in the queue.   *)
LEMMA FirstReadySource ==
    ASSUME NEW cs \in ChannelStateType, NEW queue \in Seq(QueueCommands),
           IsValid(GetFirstReadyInQueue(cs, queue))
    PROVE  \E i \in DOMAIN queue :
             /\ GetFirstReadyInQueue(cs, queue) = ChannelGetReadyCommand(cs, queue[i])
             /\ IsWrite(GetFirstReadyInQueue(cs, queue)) => ~HasRWDependency(queue, i)
<1> DEFINE ready == [i \in DOMAIN queue |-> ChannelGetReadyCommand(cs, queue[i])]
           eligible ==
             {i \in DOMAIN queue :
                /\ IsValid(ready[i])
                /\ ready[i].cmd_type = "PRECHARGE" => ArbitratePrecharge(cs, queue, i)
                /\ IsWrite(ready[i]) => ~HasRWDependency(queue, i)}
<1>1. \A i \in DOMAIN queue : ready[i] = ChannelGetReadyCommand(cs, queue[i])
  OBVIOUS
<1>2. /\ eligible \in SUBSET Nat /\ eligible \subseteq DOMAIN queue
      /\ \A i \in eligible : IsWrite(ready[i]) => ~HasRWDependency(queue, i)
  OBVIOUS
<1>3. GetFirstReadyInQueue(cs, queue) =
        IF eligible = {} THEN NoCommand ELSE ready[Min(eligible)]
  BY DEF GetFirstReadyInQueue, FirstEligible
<1> HIDE DEF ready, eligible
<1>4. eligible # {}
  BY <1>3 DEF IsValid, NoCommand, Command
<1>5. Min(eligible) \in eligible
  BY <1>2, <1>4, MinIsLeast
<1>6. QED
  BY <1>1, <1>2, <1>3, <1>4, <1>5

(* The queues once the i-th entry of queue q has left.                     *)
Without(queues, q, i) == [queues EXCEPT ![q] = RemoveAt(queues[q], i)]

(***************************************************************************)
(* got is what the queues give: nothing, or the answer to the i-th entry   *)
(* of a queue that is not held back, which leaves the queue if the answer  *)
(* is the entry itself.                                                    *)
(***************************************************************************)
TakenFrom(cs, cq, got, q, i) ==
    /\ ~(cq.is_in_ref_ /\ q \in cq.ref_q_indices_)
    /\ IsValid(got.cmd) /\ got.cmd = ChannelGetReadyCommand(cs, cq.queues_[q][i])
    /\ IsWrite(got.cmd) => ~HasRWDependency(cq.queues_[q], i)
    /\ got.cq.queues_ = IF IsReadWrite(got.cmd)
                        THEN Without(cq.queues_, q, i)
                        ELSE cq.queues_

Offered(cs, cq, got) ==
    \/ ~IsValid(got.cmd) /\ got.cq = cq
    \/ \E q \in QueueIdx : \E i \in DOMAIN cq.queues_[q] : TakenFrom(cs, cq, got, q, i)

(* EraseRWCommand finds the entry the access came from, and no other.      *)
LEMMA EraseSource ==
    ASSUME NEW cq \in CommandQueueType, HomeOk(cq), NEW q \in QueueIdx,
           IsInjective(cq.queues_[q]), NEW i \in DOMAIN cq.queues_[q]
    PROVE  LET cmd == cq.queues_[q][i]
           IN /\ GetQueueIndex(cmd.addr) = q
              /\ Entries(cq.queues_[q], cmd) = {i}
              /\ EraseRWCommand(cq, cmd).queues_ =
                   Without(cq.queues_, q, i)
<1> DEFINE queue == cq.queues_[q]
           cmd == queue[i]
<1>1. GetQueueIndex(cmd.addr) = q
  BY DEF HomeOk
<1>2. queue \in Seq(QueueCommands) /\ i \in Nat
  BY DEF CommandQueueType
<1>3. ASSUME NEW j \in DOMAIN queue, queue[j].hex_addr = cmd.hex_addr,
             queue[j].cmd_type = cmd.cmd_type
      PROVE  j = i
  <2>1. queue[j] \in QueueCommands /\ cmd \in QueueCommands
    BY <1>2
  <2>2. PICK t \in Transactions, u \in Transactions :
          queue[j] = TransToCommand(t) /\ cmd = TransToCommand(u)
    BY <2>1 DEF QueueCommands
  <2>3. t = u
    BY <1>3, <2>2, CommandsDiffer
  <2>4. queue[j] = queue[i]
    BY <2>2, <2>3
  <2>5. QED
    BY <2>4 DEF IsInjective
<1>4. Entries(queue, cmd) = {i}
  BY <1>3 DEF Entries
<1>5. Min({i}) = i
  <2>1. {i} \in SUBSET Nat /\ {i} # {}
    BY <1>2
  <2>2. Min({i}) \in {i}
    BY <2>1, MinIsLeast
  <2>3. QED
    BY <2>2
<1>6. EraseRWCommand(cq, cmd).queues_ = Without(cq.queues_, q, i)
  BY <1>1, <1>4, <1>5 DEF EraseRWCommand, CommandQueueType, Without
<1>7. QED
  BY <1>1, <1>4, <1>6

(* GetCommandToIssue, when every queue is in order.                        *)
LEMMA GetCommandSource ==
    ASSUME NEW cs \in ChannelStateType, NEW cq \in CommandQueueType, HomeOk(cq),
           \A q \in QueueIdx : IsInjective(cq.queues_[q])
    PROVE  Offered(cs, cq, GetCommandToIssue(cs, cq))
<1> DEFINE ready == ReadyInQueues(cs, cq)
           found == {k \in 1 .. num_queues_ : IsValid(ready[k])}
           got == GetCommandToIssue(cs, cq)
<1>1. ASSUME NEW k \in 1 .. num_queues_, IsValid(ready[k])
      PROVE  \E q \in QueueIdx : \E i \in DOMAIN cq.queues_[q] :
               /\ ~(cq.is_in_ref_ /\ q \in cq.ref_q_indices_)
               /\ ready[k] = ChannelGetReadyCommand(cs, cq.queues_[q][i])
               /\ IsWrite(ready[k]) => ~HasRWDependency(cq.queues_[q], i)
  <2> DEFINE q == GetNextQueue(cq, k)
  <2>1. q \in QueueIdx
    BY NextQueueInRange, QueuesArePositive
  <2>2. ready[k] = IF cq.is_in_ref_ /\ q \in cq.ref_q_indices_ THEN NoCommand
                   ELSE GetFirstReadyInQueue(cs, cq.queues_[q])
    BY DEF ReadyInQueues
  <2>3. ~IsValid(NoCommand)
    BY DEF IsValid, NoCommand, Command
  <2> HIDE DEF q, ready
  <2>4. /\ ~(cq.is_in_ref_ /\ q \in cq.ref_q_indices_)
        /\ ready[k] = GetFirstReadyInQueue(cs, cq.queues_[q])
    BY <1>1, <2>2, <2>3
  <2>5. cq.queues_[q] \in Seq(QueueCommands)
    BY <2>1 DEF CommandQueueType
  <2>6. QED
    BY <1>1, <2>1, <2>4, <2>5, FirstReadySource
<1>2. found \in SUBSET Nat /\ found \subseteq 1 .. num_queues_
      /\ \A k \in found : IsValid(ready[k])
  BY QueuesArePositive
<1>3. got = IF found = {} THEN [cmd |-> NoCommand, cq |-> cq]
            ELSE TakeCommand(cq, Min(found), ready[Min(found)])
  BY DEF GetCommandToIssue, TakeFirst
<1> HIDE DEF found, ready, got
<1>4. CASE found = {}
  BY <1>3, <1>4 DEF Offered, IsValid, NoCommand, Command, got
<1>5. CASE found # {}
  <2> DEFINE k == Min(found)
             cmd == ready[k]
             next == [cq EXCEPT !.queue_idx_ = GetNextQueue(cq, k)]
  <2>1. k \in found
    BY <1>2, <1>5, MinIsLeast
  <2>2. k \in 1 .. num_queues_ /\ IsValid(cmd) /\ k \in Nat
    BY <1>2, <2>1
  <2> HIDE DEF k
  <2>3. PICK q \in QueueIdx : \E i \in DOMAIN cq.queues_[q] :
          /\ ~(cq.is_in_ref_ /\ q \in cq.ref_q_indices_)
          /\ cmd = ChannelGetReadyCommand(cs, cq.queues_[q][i])
          /\ IsWrite(cmd) => ~HasRWDependency(cq.queues_[q], i)
    BY <1>1, <2>2
  <2>4. PICK i \in DOMAIN cq.queues_[q] :
          /\ ~(cq.is_in_ref_ /\ q \in cq.ref_q_indices_)
          /\ cmd = ChannelGetReadyCommand(cs, cq.queues_[q][i])
          /\ IsWrite(cmd) => ~HasRWDependency(cq.queues_[q], i)
    BY <2>3
  <2> HIDE DEF cmd
  <2>5. next \in CommandQueueType /\ next.queues_ = cq.queues_
    BY <2>2, NextQueueInRange DEF CommandQueueType
  <2> HIDE DEF next
  <2>6. got = IF ~IsReadWrite(cmd) THEN [cmd |-> cmd, cq |-> next]
              ELSE IF Entries(cq.queues_[GetQueueIndex(cmd.addr)], cmd) = {}
                   THEN [cmd |-> AbruptExit, cq |-> next]
                   ELSE [cmd |-> cmd, cq |-> EraseRWCommand(next, cmd)]
    BY <1>3, <1>5 DEF TakeCommand, next, cmd, k
  <2>7. CASE ~IsReadWrite(cmd)
    <3>1. got.cmd = cmd /\ got.cq.queues_ = cq.queues_
      BY <2>5, <2>6, <2>7
    <3>2. TakenFrom(cs, cq, got, q, i)
      BY <2>2, <2>4, <2>7, <3>1 DEF TakenFrom, cmd
    <3>3. QED
      BY <3>2 DEF Offered, got
  <2>8. CASE IsReadWrite(cmd)
    <3>1. cq.queues_[q][i] \in QueueCommands
      BY DEF CommandQueueType
    <3>2. cmd = cq.queues_[q][i]
      BY <2>4, <2>8, <3>1, QueueAnswer
         DEF IsReadWrite, RWTypes, ReadTypes, WriteTypes, NoCommand, Command
    <3>3. HomeOk(next) /\ IsInjective(next.queues_[q]) /\ i \in DOMAIN next.queues_[q]
      BY <2>5 DEF HomeOk
    <3>4. /\ GetQueueIndex(cmd.addr) = q /\ Entries(cq.queues_[q], cmd) = {i}
          /\ EraseRWCommand(next, cmd).queues_ =
               Without(cq.queues_, q, i)
      BY <2>5, <3>2, <3>3, EraseSource
    <3>5. got = [cmd |-> cmd, cq |-> EraseRWCommand(next, cmd)]
      BY <2>6, <2>8, <3>4
    <3>6. got.cmd = cmd /\ got.cq.queues_ =
                             Without(cq.queues_, q, i)
      BY <3>4, <3>5
    <3>7. TakenFrom(cs, cq, got, q, i)
      BY <2>2, <2>4, <2>8, <3>6 DEF TakenFrom, cmd
    <3>8. QED
      BY <3>7 DEF Offered, got
  <2>9. QED
    BY <2>7, <2>8
<1>6. QED
  BY <1>4, <1>5

-----------------------------------------------------------------------------
(* Preparing a refresh.                                                    *)

(* The two digits of an index can be read back.                            *)
LEMMA Digits ==
    ASSUME NEW n \in Nat \ {0}, NEW i \in Nat, NEW j \in 0 .. n - 1
    PROVE  (i * n + j) \div n = i /\ (i * n + j) % n = j
<1> DEFINE a == i * n + j
           d == a \div n
           m == a % n
<1>1. a \in Nat /\ i * n \in Nat
  OBVIOUS
<1>2. d \in Int /\ m \in 0 .. n - 1 /\ a = n * d + m
  BY <1>1
<1>3. n * d = d * n
  BY <1>2
<1> HIDE DEF d, m
<1>4. i * n + j = d * n + m
  BY <1>2, <1>3
<1>5. d = i
  <2>1. ASSUME NEW x \in Int, NEW y \in Int, x < y PROVE x * n + n <= y * n
    BY <2>1
  <2>2. ~(d < i)
    BY <1>2, <1>4, <2>1
  <2>3. ~(i < d)
    BY <1>2, <1>4, <2>1
  <2>4. QED
    BY <1>2, <2>2, <2>3
<1>6. m = j
  BY <1>1, <1>2, <1>4, <1>5
<1>7. QED
  BY <1>5, <1>6 DEF d, m

(* The loops over bankgroups and banks reach every bank of a rank.         *)
LEMMA RankBankReaches ==
    ASSUME NEW b \in Banks
    PROVE  \E k \in 1 .. banks : RankBank(b[1], k) = b
<1> DEFINE n == config.banks_per_group
           k == b[2] * n + b[3] + 1
<1>1. /\ b = <<b[1], b[2], b[3]>> /\ b[2] \in 0 .. config.bankgroups - 1
      /\ b[3] \in 0 .. n - 1
  BY DEF Banks, Bankgroups, BanksPerGroup
<1>2. n \in Nat \ {0} /\ config.bankgroups \in Nat \ {0} /\ b[2] \in Nat
  BY <1>1, CountsAssumption
<1> HIDE DEF n
<1>3. b[2] * n + b[3] \in 0 .. config.bankgroups * n - 1
  BY <1>1, <1>2, MixedRadix
<1>4. (b[2] * n + b[3]) \div n = b[2] /\ (b[2] * n + b[3]) % n = b[3]
  BY <1>1, <1>2, Digits
<1>5. k - 1 = b[2] * n + b[3]
  BY <1>3
<1>6. k \in 1 .. banks
  BY <1>2, <1>3 DEF banks, n
<1> HIDE DEF k
<1>7. RankBank(b[1], k) = b
  BY <1>1, <1>4, <1>5 DEF RankBank, n
<1>8. QED
  BY <1>6, <1>7

(* What a bank answers to a refresh.                                       *)
LEMMA BankRefreshAnswer ==
    ASSUME NEW b \in BankType, NEW ref, IsRefresh(ref)
    PROVE  LET r == BankGetReadyCommand(b, ref)
           IN \/ r = NoCommand
              \/ r = AbruptExit /\ b.state_ = "SREF"
              \/ r = Command("PRECHARGE", ref.addr, ref.hex_addr, ref.cmd_type)
                 /\ b.state_ = "OPEN"
              \/ r = Command(ref.cmd_type, ref.addr, ref.hex_addr, ref.cmd_type)
                 /\ b.state_ = "CLOSED"
<1> DEFINE t == RequiredType(b, ref)
<1>1. \/ t = "EXIT" /\ b.state_ = "SREF"
      \/ t = "PRECHARGE" /\ b.state_ = "OPEN"
      \/ t = ref.cmd_type /\ b.state_ = "CLOSED"
  BY DEF RequiredType, BankType, IsRefresh, RWTypes, ReadTypes, WriteTypes
<1>2. ref.cmd_type # "EXIT"
  BY DEF IsRefresh
<1> HIDE DEF t
<1>3. BankGetReadyCommand(b, ref) =
        IF t = "EXIT" THEN AbruptExit
        ELSE IF b.cmd_timing_[t] = 0 THEN Command(t, ref.addr, ref.hex_addr, ref.cmd_type)
        ELSE NoCommand
  BY DEF BankGetReadyCommand, t
<1>4. QED
  BY <1>1, <1>2, <1>3

(* What the channel answers to a refresh: a PRECHARGE of a bank that is    *)
(* open, or the refresh itself once all its banks are closed.              *)
LEMMA RefreshAnswer ==
    ASSUME NEW cs \in ChannelStateType, NEW ref \in RefreshCommands
    PROVE  LET r == ChannelGetReadyCommand(cs, ref)
           IN \/ r = NoCommand
              \/ r = AbruptExit /\ ~Awake(cs)
              \/ /\ r.cmd_type = "PRECHARGE" /\ BankOf(r.addr) \in Banks
                 /\ cs.bank_states_[BankOf(r.addr)].state_ = "OPEN"
              \/ /\ r.cmd_type = ref.cmd_type /\ r.addr = ref.addr
                 /\ \A b \in Targets(ref) : cs.bank_states_[b].state_ = "CLOSED"
<1>0. /\ cs.bank_states_ \in [Banks -> BankType] /\ IsRefresh(ref)
      /\ ref.addr.rank \in Ranks
  BY RefreshCommandsTyped DEF ChannelStateType, IsRefresh, CommandRecord, AddressType
<1> DEFINE r == ChannelGetReadyCommand(cs, ref)
<1>1. CASE ~IsRankCMD(ref)
  <2> DEFINE b == BankOf(ref.addr)
             ans == BankGetReadyCommand(cs.bank_states_[b], ref)
  <2>1. ref.cmd_type = "REFRESH_BANK" /\ b \in Banks
    BY <1>1, RefreshCommandsTyped DEF IsRankCMD, RankTypes
  <2>2. Targets(ref) = {b}
    BY <1>1 DEF Targets
  <2>3. r = IF ans.cmd_type = "ACTIVATE" /\ ~ActivationWindowOk(cs, ref.addr.rank)
            THEN NoCommand ELSE ans
    BY <1>1 DEF ChannelGetReadyCommand
  <2> HIDE DEF r
  <2>4. \/ ans = NoCommand
        \/ ans = AbruptExit /\ cs.bank_states_[b].state_ = "SREF"
        \/ ans = Command("PRECHARGE", ref.addr, ref.hex_addr, ref.cmd_type)
           /\ cs.bank_states_[b].state_ = "OPEN"
        \/ ans = Command(ref.cmd_type, ref.addr, ref.hex_addr, ref.cmd_type)
           /\ cs.bank_states_[b].state_ = "CLOSED"
    BY <1>0, <2>1, BankRefreshAnswer
  <2> HIDE DEF ans
  <2>5. r = NoCommand \/ r = ans
    BY <2>3
  <2>6. QED
    BY <2>1, <2>2, <2>4, <2>5 DEF Awake, Command, r
<1>2. CASE IsRankCMD(ref)
  <2> DEFINE rank == ref.addr.rank
             Bank(k) == cs.bank_states_[RankBank(rank, k)]
             ready == [k \in 1 .. banks |->
                         BankGetReadyCommand(cs.bank_states_[RankBank(rank, k)], ref)]
             decisive == {k \in 1 .. banks :
                            IsValid(ready[k]) /\ ready[k].cmd_type # ref.cmd_type}
             least == Min(decisive)
             b == RankBank(rank, least)
  <2>1. ASSUME NEW k \in 1 .. banks
        PROVE  /\ RankBank(rank, k) \in Banks
               /\ \/ ready[k] = NoCommand
                  \/ ready[k] = AbruptExit /\ Bank(k).state_ = "SREF"
                  \/ ready[k] = Command("PRECHARGE", ref.addr, ref.hex_addr, ref.cmd_type)
                     /\ Bank(k).state_ = "OPEN"
                  \/ ready[k] = Command(ref.cmd_type, ref.addr, ref.hex_addr, ref.cmd_type)
                     /\ Bank(k).state_ = "CLOSED"
    <3>1. RankBank(rank, k) \in Banks
      BY <1>0, RankBankIsBank
    <3>2. Bank(k) \in BankType
      BY <1>0, <3>1
    <3>3. QED
      BY <1>0, <3>1, <3>2, BankRefreshAnswer
  <2>2. r = RankDecides(ref, ready)
    BY <1>2 DEF ChannelGetReadyCommand, RankGetReadyCommand
  <2> HIDE DEF ready, r
  <2>3. CASE decisive # {}
    <3>0. decisive \in SUBSET Nat /\ decisive \subseteq 1 .. banks
          /\ \A k \in decisive : IsValid(ready[k]) /\ ready[k].cmd_type # ref.cmd_type
      OBVIOUS
    <3>1. r = IF IsExit(ready[least]) THEN AbruptExit
              ELSE [ready[least] EXCEPT !.addr = Address(rank, b[2], b[3], -1, -1)]
      BY <2>2, <2>3 DEF RankDecides
    <3> HIDE DEF decisive
    <3>2. least \in decisive
      BY <2>3, <3>0, MinIsLeast
    <3> HIDE DEF least
    <3>3. /\ least \in 1 .. banks /\ IsValid(ready[least])
          /\ ready[least].cmd_type # ref.cmd_type
      BY <3>0, <3>2
    <3>4. CASE ready[least] = AbruptExit /\ Bank(least).state_ = "SREF"
      <4>1. r = AbruptExit
        BY <3>1, <3>4 DEF IsExit, AbruptExit, Command
      <4>2. ~Awake(cs)
        BY <2>1, <3>3, <3>4 DEF Awake
      <4>3. QED
        BY <4>1, <4>2 DEF r
    <3>5. CASE ready[least] = Command("PRECHARGE", ref.addr, ref.hex_addr, ref.cmd_type)
               /\ Bank(least).state_ = "OPEN"
      <4>1. r = [ready[least] EXCEPT !.addr = Address(rank, b[2], b[3], -1, -1)]
        BY <3>1, <3>5 DEF IsExit, Command
      <4>2. r.cmd_type = "PRECHARGE" /\ r.addr = Address(rank, b[2], b[3], -1, -1)
        BY <3>5, <4>1 DEF Command
      <4>3. b = <<rank, b[2], b[3]>>
        BY DEF RankBank
      <4>4. BankOf(r.addr) = b
        BY <4>2, <4>3 DEF BankOf, Address
      <4>5. QED
        BY <2>1, <3>3, <3>5, <4>2, <4>4 DEF r
    <3>6. ready[least] # NoCommand
      BY <3>3 DEF IsValid, NoCommand, Command
    <3>7. ready[least] # Command(ref.cmd_type, ref.addr, ref.hex_addr, ref.cmd_type)
      BY <3>3 DEF Command
    <3>8. QED
      BY <2>1, <3>3, <3>4, <3>5, <3>6, <3>7
  <2>4. CASE decisive = {}
    <3>1. r = IF \A k \in 1 .. banks : IsValid(ready[k])
              THEN Command(ref.cmd_type, ref.addr, ref.hex_addr, ref.cmd_type)
              ELSE NoCommand
      BY <2>2, <2>4 DEF RankDecides
    <3>2. CASE \A k \in 1 .. banks : IsValid(ready[k])
      <4>1. ASSUME NEW k \in 1 .. banks PROVE Bank(k).state_ = "CLOSED"
        <5>1. ready[k].cmd_type = ref.cmd_type
          BY <2>4, <3>2
        <5>2. ref.cmd_type # "EXIT" /\ ref.cmd_type # "PRECHARGE"
              /\ ref.cmd_type # "SIZE"
          BY <1>0 DEF IsRefresh
        <5>3. QED
          BY <2>1, <5>1, <5>2 DEF AbruptExit, NoCommand, Command
      <4>2. ASSUME NEW x \in Targets(ref) PROVE cs.bank_states_[x].state_ = "CLOSED"
        <5>1. x \in Banks /\ x[1] = rank
          BY <1>2 DEF Targets
        <5>2. PICK k \in 1 .. banks : RankBank(x[1], k) = x
          BY <5>1, RankBankReaches
        <5>3. QED
          BY <4>1, <5>1, <5>2
      <4>3. r.cmd_type = ref.cmd_type /\ r.addr = ref.addr
        BY <3>1, <3>2 DEF Command
      <4>4. QED
        BY <4>2, <4>3 DEF r
    <3>3. CASE ~\A k \in 1 .. banks : IsValid(ready[k])
      BY <3>1, <3>3 DEF r
    <3>4. QED
      BY <3>2, <3>3
  <2>5. QED
    BY <2>3, <2>4
<1>3. QED
  BY <1>1, <1>2

(* FinishRefresh leaves the entries of the queues alone and asks for       *)
(* neither an access nor an ACTIVATE.                                      *)
LEMMA FinishRefreshSource ==
    ASSUME NEW cs \in ChannelStateType, NEW cq \in CommandQueueType, IsRefreshWaiting(cs)
    PROVE  LET got == FinishRefresh(cs, cq)
           IN /\ got.cq.queues_ = cq.queues_
              /\ got.cmd = ChannelGetReadyCommand(cs, PendingRefCommand(cs))
              /\ PendingRefCommand(cs) \in RefreshCommands
              /\ got.cmd.cmd_type \notin RWTypes \cup {"ACTIVATE"}
<1> DEFINE ref == PendingRefCommand(cs)
           cmd == ChannelGetReadyCommand(cs, ref)
           held == IF cq.is_in_ref_ THEN cq
                   ELSE [cq EXCEPT !.ref_q_indices_ = GetRefQIndices(ref),
                                   !.is_in_ref_ = TRUE]
           freed == [held EXCEPT !.ref_q_indices_ = {}, !.is_in_ref_ = FALSE]
<1>1. ref \in RefreshCommands
  BY DEF ChannelStateType, PendingRefCommand, IsRefreshWaiting
<1>2. held.queues_ = cq.queues_ /\ freed.queues_ = cq.queues_
  BY DEF CommandQueueType
<1>3. cmd.cmd_type \notin RWTypes \cup {"ACTIVATE"}
  BY <1>1, RefreshAnswer, RefreshCommandsTyped
     DEF NoCommand, AbruptExit, Command, RWTypes, ReadTypes, WriteTypes
<1> HIDE DEF cmd, held, freed
<1>4. FinishRefresh(cs, cq) = [cmd |-> cmd, cq |-> IF IsRefresh(cmd) THEN freed ELSE held]
  BY DEF FinishRefresh, cmd, held, freed
<1>5. QED
  BY <1>1, <1>2, <1>3, <1>4 DEF cmd

-----------------------------------------------------------------------------
(* The command that is chosen, whether it prepares a refresh or serves the *)
(* queues: an access is an entry of a queue, for an open bank, and leaves  *)
(* it; any other command leaves the queues alone.                          *)

Chosen(cs, queues, got) ==
    IF IsReadWrite(got.cmd)
    THEN \E q \in QueueIdx : \E i \in DOMAIN queues[q] :
           /\ got.cmd = queues[q][i]
           /\ got.cq.queues_ = Without(queues, q, i)
           /\ cs.bank_states_[BankOf(got.cmd.addr)].state_ = "OPEN"
           /\ cs.bank_states_[BankOf(got.cmd.addr)].cmd_timing_[got.cmd.cmd_type] = 0
           /\ IsWrite(got.cmd) => ~HasRWDependency(queues[q], i)
    ELSE got.cq.queues_ = queues

(* Its banks take the command, and no rank is sent to sleep; if no bank    *)
(* sleeps there is no other answer.                                        *)
Acceptable(cs, cmd) ==
    IsValid(cmd) /\ (Awake(cs) \/ IsReadWrite(cmd)) =>
        ~IsExit(cmd) /\ ChannelAccepts(cs, cmd) /\ cmd.cmd_type # "SREF_ENTER"

(* A bank command reaches its bank only.                                   *)
LEMMA BankTarget ==
    ASSUME NEW cmd, cmd.cmd_type \in RWTypes \cup {"ACTIVATE", "PRECHARGE", "REFRESH_BANK"}
    PROVE  /\ Targets(cmd) = {BankOf(cmd.addr)} /\ ~IsExit(cmd) /\ IsValid(cmd)
           /\ cmd.cmd_type # "SREF_ENTER"
BY DEF Targets, IsRankCMD, RankTypes, RWTypes, ReadTypes, WriteTypes, IsExit, IsValid

(* What the queues give is chosen and acceptable.                          *)
LEMMA OfferedChosen ==
    ASSUME NEW cs \in ChannelStateType, NEW cq \in CommandQueueType, NEW got,
           Offered(cs, cq, got)
    PROVE  Chosen(cs, cq.queues_, got) /\ Acceptable(cs, got.cmd)
<1>1. CASE ~IsValid(got.cmd) /\ got.cq = cq
  <2>1. ~IsReadWrite(got.cmd)
    BY <1>1 DEF IsValid, IsReadWrite, RWTypes, ReadTypes, WriteTypes
  <2>2. QED
    BY <1>1, <2>1 DEF Chosen, Acceptable
<1>2. ASSUME NEW q \in QueueIdx, NEW i \in DOMAIN cq.queues_[q], TakenFrom(cs, cq, got, q, i)
      PROVE  Chosen(cs, cq.queues_, got) /\ Acceptable(cs, got.cmd)
  <2> DEFINE entry == cq.queues_[q][i]
             b == cs.bank_states_[BankOf(entry.addr)]
             cmd == got.cmd
  <2>1. entry \in QueueCommands
    BY DEF CommandQueueType
  <2>2. IsReadWrite(entry) /\ BankOf(entry.addr) \in Banks
    BY <2>1, QueueCommandsTyped DEF IsReadWrite
  <2>3. b.state_ = "SREF" => ~Awake(cs)
    BY <2>2 DEF Awake
  <2>4. cmd = ChannelGetReadyCommand(cs, entry) /\ IsValid(cmd)
    BY <1>2 DEF TakenFrom
  <2>5. cmd # NoCommand
    BY <2>4 DEF IsValid, NoCommand, Command
  <2>6. /\ cmd.addr = entry.addr /\ b.cmd_timing_[cmd.cmd_type] = 0
        /\ \/ cmd.cmd_type = "ACTIVATE" /\ b.state_ = "CLOSED"
           \/ cmd.cmd_type = "PRECHARGE" /\ b.state_ = "OPEN"
           \/ cmd.cmd_type = "SREF_EXIT" /\ b.state_ = "SREF"
           \/ cmd = entry /\ b.state_ = "OPEN"
    BY <2>1, <2>4, <2>5, QueueAnswer
  <2> HIDE DEF entry, cmd, b
  <2>7. IsReadWrite(cmd) => cmd = entry /\ b.state_ = "OPEN"
    BY <2>6 DEF IsReadWrite, RWTypes, ReadTypes, WriteTypes
  <2>8. Chosen(cs, cq.queues_, got)
    BY <1>2, <2>6, <2>7 DEF TakenFrom, Chosen, cmd, entry, b
  <2>9. Acceptable(cs, cmd)
    <3>1. CASE cmd.cmd_type = "SREF_EXIT"
      <4>1. b.state_ = "SREF" /\ ~IsReadWrite(cmd)
        BY <2>2, <2>6, <3>1 DEF IsReadWrite, RWTypes, ReadTypes, WriteTypes
      <4>2. QED
        BY <2>3, <4>1 DEF Acceptable
    <3>2. CASE cmd.cmd_type # "SREF_EXIT"
      <4>1. cmd.cmd_type \in RWTypes \cup {"ACTIVATE", "PRECHARGE"}
        BY <2>2, <2>6, <3>2 DEF IsReadWrite
      <4>2. /\ Targets(cmd) = {BankOf(cmd.addr)} /\ ~IsExit(cmd)
            /\ cmd.cmd_type # "SREF_ENTER"
        BY <4>1, BankTarget
      <4>3. BankAccepts(b, cmd.cmd_type)
        BY <2>2, <2>6, <3>2 DEF BankAccepts, IsReadWrite
      <4>4. QED
        BY <2>6, <4>2, <4>3 DEF Acceptable, ChannelAccepts, b
    <3>3. QED
      BY <3>1, <3>2
  <2>10. QED
    BY <2>8, <2>9 DEF cmd
<1>3. QED
  BY <1>1, <1>2 DEF Offered

(* A command of a queue that is not held back leaves the banks of the      *)
(* refresh in preparation alone.                                           *)
LEMMA OfferedHarmless ==
    ASSUME NEW cs \in ChannelStateType, NEW cq \in CommandQueueType, HomeOk(cq),
           HeldOk(cs, cq), NEW got, Offered(cs, cq, got),
           got.cq.is_in_ref_ = cq.is_in_ref_
    PROVE  Harmless(cs, got.cq, got.cmd)
<1> DEFINE cmd == got.cmd
           ref == PendingRefCommand(cs)
<1>1. SUFFICES ASSUME cq.is_in_ref_, cmd.cmd_type \in RWTypes \cup {"ACTIVATE"},
                      BankOf(cmd.addr) \in Targets(ref)
               PROVE  FALSE
  BY DEF Harmless
<1>2. /\ IsRefreshWaiting(cs) /\ cq.ref_q_indices_ = GetRefQIndices(ref)
  BY <1>1 DEF HeldOk
<1>3. IsValid(cmd)
  BY <1>1 DEF IsValid, RWTypes, ReadTypes, WriteTypes
<1>4. PICK q \in QueueIdx : \E i \in DOMAIN cq.queues_[q] : TakenFrom(cs, cq, got, q, i)
  BY <1>3 DEF Offered
<1>4a. PICK i \in DOMAIN cq.queues_[q] : TakenFrom(cs, cq, got, q, i)
  BY <1>4
<1> DEFINE entry == cq.queues_[q][i]
<1>5. entry \in QueueCommands /\ GetQueueIndex(entry.addr) = q
  BY DEF CommandQueueType, HomeOk
<1>6. cmd.addr = entry.addr
  <2>1. cmd = ChannelGetReadyCommand(cs, entry) /\ cmd # NoCommand
    BY <1>3, <1>4a DEF TakenFrom, IsValid, NoCommand, Command
  <2>2. QED
    BY <1>5, <2>1, QueueAnswer
<1>7. q \notin GetRefQIndices(ref)
  BY <1>1, <1>2, <1>4a DEF TakenFrom
<1>8. BankOf(entry.addr) \in Banks /\ BankOf(entry.addr) \in Targets(ref)
  BY <1>1, <1>5, <1>6, QueueCommandsTyped
<1>9. ref \in RefreshCommands
  BY <1>2 DEF ChannelStateType, PendingRefCommand, IsRefreshWaiting
<1> HIDE DEF ref, entry
<1>10. CASE ref.cmd_type = "REFRESH"
  <2> DEFINE rank == entry.addr.rank
             inRank == entry.addr.bankgroup * config.banks_per_group + entry.addr.bank
  <2>1. Targets(ref) = {b \in Banks : b[1] = ref.addr.rank}
    BY <1>10 DEF Targets, IsRankCMD, RankTypes
  <2>2. rank = ref.addr.rank
    BY <1>8, <2>1 DEF BankOf
  <2>3. CASE PerRank
    BY <1>5, <1>7, <1>10, <2>2, <2>3 DEF GetRefQIndices, GetQueueIndex
  <2>4. CASE ~PerRank
    <3>1. /\ rank \in Nat /\ entry.addr.bankgroup \in 0 .. config.bankgroups - 1
          /\ entry.addr.bank \in 0 .. config.banks_per_group - 1
      BY <1>8, CountsAssumption DEF BankOf, Banks, Ranks, Bankgroups, BanksPerGroup
    <3>2. inRank \in 0 .. banks - 1
      BY <3>1, MixedRadix, CountsAssumption DEF banks
    <3> HIDE DEF rank, inRank
    <3>3. (rank * banks + inRank) \div banks = rank
      BY <3>1, <3>2, Digits, BanksIsPositive
    <3> USE DEF rank, inRank
    <3>4. entry.addr.bankgroup * config.banks_per_group \in Nat
      BY <3>1, CountsAssumption
    <3>5. q = rank * banks + entry.addr.bankgroup * config.banks_per_group + entry.addr.bank
      BY <1>5, <2>4 DEF GetQueueIndex
    <3>6. q = rank * banks + inRank
      BY <3>1, <3>4, <3>5, BanksIsPositive
    <3>7. q \div banks = ref.addr.rank
      BY <2>2, <3>3, <3>6
    <3>8. QED
      BY <1>7, <1>10, <2>4, <3>7 DEF GetRefQIndices
  <2>5. QED
    BY <2>3, <2>4
<1>11. CASE ref.cmd_type # "REFRESH"
  <2>1. ref.cmd_type = "REFRESH_BANK"
    BY <1>9, <1>11, RefreshCommandsTyped
  <2>2. BankOf(entry.addr) = BankOf(ref.addr)
    BY <1>8, <2>1, BankTarget
  <2>3. GetQueueIndex(ref.addr) = q
    BY <1>5, <2>2 DEF GetQueueIndex, BankOf
  <2>4. QED
    BY <1>7, <1>11, <2>3 DEF GetRefQIndices
<1>12. QED
  BY <1>10, <1>11

(* The first command of a cycle.                                           *)
LEMMA FirstCommandChosen ==
    ASSUME NEW c \in ControllerType, HeldOk(c.channel_state_, c.cmd_queue_),
           HomeOk(c.cmd_queue_), \A q \in QueueIdx : IsInjective(c.cmd_queue_.queues_[q])
    PROVE  LET first == FirstCommand(c)
           IN /\ Chosen(c.channel_state_, c.cmd_queue_.queues_, first)
              /\ Acceptable(c.channel_state_, first.cmd)
              /\ Harmless(c.channel_state_, first.cq, first.cmd)
<1> DEFINE cs == c.channel_state_
           queues == c.cmd_queue_.queues_
           refresh == IF IsRefreshWaiting(cs) THEN FinishRefresh(cs, c.cmd_queue_)
                      ELSE [cmd |-> NoCommand, cq |-> c.cmd_queue_]
           got == GetCommandToIssue(cs, refresh.cq)
<1>1. cs \in ChannelStateType /\ c.cmd_queue_ \in CommandQueueType
  BY ControllerFields
<1>2. FirstCommand(c) = IF IsValid(refresh.cmd) THEN refresh ELSE got
  BY DEF FirstCommand, OrFromQueues
<1>3. ~IsValid(NoCommand) /\ ~IsRefresh(NoCommand)
  BY DEF IsValid, IsRefresh, NoCommand, Command
<1>4. refresh.cq \in CommandQueueType /\ refresh.cq.queues_ = queues
  BY <1>1, FinishRefreshTyped, FinishRefreshSource
<1>5. HeldAfter(cs, refresh.cmd, refresh.cq)
  BY <1>1, <1>3, FinishRefreshHeld DEF HeldAfter
<1>6. IsValid(refresh.cmd) => IsRefreshWaiting(cs) /\ refresh = FinishRefresh(cs, c.cmd_queue_)
  BY <1>3
<1> HIDE DEF refresh, cs
<1>7. CASE IsValid(refresh.cmd)
  <2> DEFINE ref == PendingRefCommand(cs)
             cmd == refresh.cmd
  <2>1. /\ cmd = ChannelGetReadyCommand(cs, ref) /\ ref \in RefreshCommands
        /\ cmd.cmd_type \notin RWTypes \cup {"ACTIVATE"}
    BY <1>1, <1>6, <1>7, FinishRefreshSource
  <2>2. \/ cmd = AbruptExit /\ ~Awake(cs)
        \/ /\ cmd.cmd_type = "PRECHARGE" /\ BankOf(cmd.addr) \in Banks
           /\ cs.bank_states_[BankOf(cmd.addr)].state_ = "OPEN"
        \/ /\ cmd.cmd_type = ref.cmd_type /\ cmd.addr = ref.addr
           /\ \A b \in Targets(ref) : cs.bank_states_[b].state_ = "CLOSED"
    BY <1>1, <1>3, <1>7, <2>1, RefreshAnswer
  <2> HIDE DEF cmd, ref
  <2>3. ~IsReadWrite(cmd)
    BY <2>1 DEF IsReadWrite
  <2>4. Chosen(cs, queues, refresh)
    BY <1>4, <2>3 DEF Chosen, cmd
  <2>5. Harmless(cs, refresh.cq, cmd)
    BY <2>1 DEF Harmless
  <2>6. Acceptable(cs, cmd)
    <3>1. CASE ~Awake(cs)
      BY <2>3, <3>1 DEF Acceptable
    <3>2. CASE cmd.cmd_type = "PRECHARGE" /\ cs.bank_states_[BankOf(cmd.addr)].state_ = "OPEN"
      BY <3>2, BankTarget DEF Acceptable, ChannelAccepts, BankAccepts
    <3>3. CASE /\ cmd.cmd_type = ref.cmd_type /\ cmd.addr = ref.addr
               /\ \A b \in Targets(ref) : cs.bank_states_[b].state_ = "CLOSED"
      <4>1. Targets(cmd) = Targets(ref)
        BY <3>3 DEF Targets, IsRankCMD
      <4>2. cmd.cmd_type \in {"REFRESH", "REFRESH_BANK"}
        BY <2>1, <3>3, RefreshCommandsTyped
      <4>3. QED
        BY <3>3, <4>1, <4>2 DEF Acceptable, ChannelAccepts, BankAccepts, IsExit
    <3>4. QED
      BY <2>2, <3>1, <3>2, <3>3
  <2>7. QED
    BY <1>2, <1>7, <2>4, <2>5, <2>6 DEF cmd, cs
<1>8. CASE ~IsValid(refresh.cmd)
  <2>1. HeldOk(cs, refresh.cq)
    BY <1>5, <1>8 DEF HeldAfter, IsValid, IsRefresh
  <2>2. HomeOk(refresh.cq) /\ \A q \in QueueIdx : IsInjective(refresh.cq.queues_[q])
    BY <1>4 DEF HomeOk
  <2>3. Offered(cs, refresh.cq, got)
    BY <1>1, <1>4, <2>2, GetCommandSource
  <2>4. got.cq.is_in_ref_ = refresh.cq.is_in_ref_
    BY <1>1, <1>4, GetCommandHeld
  <2> HIDE DEF got
  <2>5. Chosen(cs, queues, got) /\ Acceptable(cs, got.cmd)
    BY <1>1, <1>4, <2>3, OfferedChosen
  <2>6. Harmless(cs, got.cq, got.cmd)
    BY <1>1, <1>4, <2>1, <2>2, <2>3, <2>4, OfferedHarmless
  <2>7. QED
    BY <1>2, <1>8, <2>5, <2>6 DEF cs
<1>9. QED
  BY <1>7, <1>8

-----------------------------------------------------------------------------
(* Issuing a command.                                                      *)

(* The states, timers and counts of hits of the banks.                     *)
SameBanks(new, cs) ==
    \A b \in Banks :
        /\ new.bank_states_[b].state_ = cs.bank_states_[b].state_
        /\ new.bank_states_[b].cmd_timing_ = cs.bank_states_[b].cmd_timing_
        /\ new.bank_states_[b].row_hit_count_ = cs.bank_states_[b].row_hit_count_

(* The members that say which requests there are.                          *)
SamePending(d, c) ==
    d.pending_rd_q_ = c.pending_rd_q_ /\ d.pending_wr_q_ = c.pending_wr_q_

SameWork(d, c) ==
    /\ d.unified_queue_ = c.unified_queue_ /\ d.read_queue_ = c.read_queue_
    /\ d.write_buffer_ = c.write_buffer_ /\ d.cmd_queue_.queues_ = c.cmd_queue_.queues_
    /\ SamePending(d, c)

(* Marking a bank as serving changes no state, timer or count.             *)
LEMMA MarkEffect ==
    ASSUME NEW c \in ControllerType, NEW cmd
    PROVE  LET d == MarkInServe(c, cmd)
           IN /\ d = [c EXCEPT !.channel_state_ = d.channel_state_]
              /\ d.channel_state_.refresh_q_ = c.channel_state_.refresh_q_
              /\ SameBanks(d.channel_state_, c.channel_state_)
<1> DEFINE b == BankOf(cmd.addr)
           opens == \/ cmd.cmd_type = "ACTIVATE" /\ cmd.by \in ReadTypes
                    \/ cmd.cmd_type = "PRECHARGE" /\ cmd.by \in RWTypes
           cs == c.channel_state_
           bs == cs.bank_states_
<1>0. cs \in ChannelStateType /\ bs \in [Banks -> BankType]
  BY ControllerFields DEF ChannelStateType
<1>1. ~(IsRead(cmd) /\ opens)
  BY DEF IsRead, ReadTypes
<1>2. ASSUME NEW new,
             b \in Banks => /\ new.state_ = bs[b].state_ /\ new.cmd_timing_ = bs[b].cmd_timing_
                            /\ new.row_hit_count_ = bs[b].row_hit_count_,
             MarkInServe(c, cmd) = [c EXCEPT !.channel_state_.bank_states_[b] = new]
      PROVE  LET d == MarkInServe(c, cmd)
             IN /\ d = [c EXCEPT !.channel_state_ = d.channel_state_]
                /\ d.channel_state_.refresh_q_ = cs.refresh_q_
                /\ SameBanks(d.channel_state_, cs)
  <2> DEFINE d == MarkInServe(c, cmd)
  <2>1. d = [c EXCEPT !.channel_state_ = [cs EXCEPT !.bank_states_ = [bs EXCEPT ![b] = new]]]
    BY <1>2
  <2> HIDE DEF b, d
  <2>2. /\ d.channel_state_ = [cs EXCEPT !.bank_states_ = [bs EXCEPT ![b] = new]]
        /\ d = [c EXCEPT !.channel_state_ = d.channel_state_]
    BY <2>1 DEF ControllerType
  <2>3. /\ d.channel_state_.refresh_q_ = cs.refresh_q_
        /\ d.channel_state_.bank_states_ = [bs EXCEPT ![b] = new]
    BY <1>0, <2>2 DEF ChannelStateType
  <2>4. SameBanks(d.channel_state_, cs)
    BY <1>0, <1>2, <2>3 DEF SameBanks
  <2>5. QED
    BY <2>2, <2>3, <2>4 DEF d
<1>3. CASE IsRead(cmd)
  <2> DEFINE serving == [bs[b] EXCEPT !.in_serve = TRUE, !.serve_end = read_delay + 1]
  <2>1. MarkInServe(c, cmd) = [c EXCEPT !.channel_state_.bank_states_[b] = serving]
    BY <1>1, <1>3 DEF MarkInServe
  <2>2. b \in Banks =>
          /\ serving.state_ = bs[b].state_ /\ serving.cmd_timing_ = bs[b].cmd_timing_
          /\ serving.row_hit_count_ = bs[b].row_hit_count_
    BY <1>0 DEF BankType
  <2> HIDE DEF serving
  <2>3. QED
    BY <1>2, <2>1, <2>2
<1>4. CASE opens
  <2> DEFINE serving == [bs[b] EXCEPT !.in_serve = TRUE]
  <2>1. MarkInServe(c, cmd) = [c EXCEPT !.channel_state_.bank_states_[b] = serving]
    BY <1>1, <1>4 DEF MarkInServe
  <2>2. b \in Banks =>
          /\ serving.state_ = bs[b].state_ /\ serving.cmd_timing_ = bs[b].cmd_timing_
          /\ serving.row_hit_count_ = bs[b].row_hit_count_
    BY <1>0 DEF BankType
  <2> HIDE DEF serving
  <2>3. QED
    BY <1>2, <2>1, <2>2
<1>5. CASE ~IsRead(cmd) /\ ~opens
  <2>1. MarkInServe(c, cmd) = c
    BY <1>5 DEF MarkInServe
  <2>2. c = [c EXCEPT !.channel_state_ = c.channel_state_]
    BY DEF ControllerType
  <2>3. QED
    BY <2>1, <2>2 DEF SameBanks
<1>6. QED
  BY <1>3, <1>4, <1>5

(* What a command settles.                                                 *)
Settled(d, c, cmd) ==
    /\ d.pending_rd_q_ = IF IsRead(cmd) THEN [c.pending_rd_q_ EXCEPT ![cmd.hex_addr] = 0]
                         ELSE c.pending_rd_q_
    /\ d.pending_wr_q_ = IF IsWrite(cmd)
                         THEN [c.pending_wr_q_ EXCEPT ![cmd.hex_addr] =
                                 c.pending_wr_q_[cmd.hex_addr] - 1]
                         ELSE c.pending_wr_q_

(* IssueCommand settles what waited for the command and leaves all queues  *)
(* alone.                                                                  *)
LEMMA SettleEffect ==
    ASSUME NEW c \in ControllerType, NEW cmd
    PROVE  LET d == Settle(c, cmd)
           IN /\ Settled(d, c, cmd) /\ SameQueues(d, c)
              /\ d.unified_queue_ = c.unified_queue_ /\ d.exited = c.exited
              /\ d.cmd_trace_ = c.cmd_trace_ /\ d.channel_state_ = c.channel_state_
<1>1. ~(IsRead(cmd) /\ IsWrite(cmd))
  BY DEF IsRead, IsWrite, ReadTypes, WriteTypes
<1> DEFINE a == cmd.hex_addr
           d == Settle(c, cmd)
<1> HIDE DEF a
<1>2. CASE IsRead(cmd)
  <2> DEFINE e == Complete(c, a, FALSE, c.pending_rd_q_[a], read_delay)
             q == e.return_queue_
  <2>1. d = [e EXCEPT !.pending_rd_q_[a] = 0]
    BY <1>1, <1>2 DEF Settle, a
  <2>2. e = [c EXCEPT !.return_queue_ = q]
    BY DEF Complete, ControllerType
  <2> HIDE DEF d, e, q
  <2>3. d = [[c EXCEPT !.return_queue_ = q] EXCEPT !.pending_rd_q_ =
               [c.pending_rd_q_ EXCEPT ![a] = 0]]
    BY <2>1, <2>2 DEF ControllerType
  <2>4. QED
    BY <1>1, <1>2, <2>3 DEF ControllerType, SameQueues, Settled, a, d
<1>3. CASE IsWrite(cmd)
  <2>1. d = [c EXCEPT !.pending_wr_q_ = [c.pending_wr_q_ EXCEPT ![a] = c.pending_wr_q_[a] - 1]]
    BY <1>1, <1>3 DEF Settle, a
  <2> HIDE DEF d
  <2>2. QED
    BY <1>1, <1>3, <2>1 DEF ControllerType, SameQueues, Settled, a, d
<1>4. CASE ~IsRead(cmd) /\ ~IsWrite(cmd)
  BY <1>4 DEF Settle, SameQueues, Settled
<1>5. QED
  BY <1>2, <1>3, <1>4

(* The command has gone out.                                               *)
Done(d, c, cmd) ==
    /\ Settled(d, c, cmd) /\ SameQueues(d, c)
    /\ d.unified_queue_ = c.unified_queue_ /\ d.exited = c.exited
    /\ d.cmd_trace_ = Append(c.cmd_trace_, cmd)
    /\ LET new == UpdateTimingAndStates(c.channel_state_, cmd)
       IN /\ d.channel_state_.refresh_q_ = new.refresh_q_
          /\ SameBanks(d.channel_state_, new)

Refused(c, cmd) ==
    \/ IsExit(cmd)
    \/ IsRead(cmd) /\ c.pending_rd_q_[cmd.hex_addr] = 0
    \/ IsWrite(cmd) /\ c.pending_wr_q_[cmd.hex_addr] = 0
    \/ ~ChannelAccepts(c.channel_state_, cmd)

(* IssueCommand in full: the program ends, or the command goes out.        *)
LEMMA IssueEffect ==
    ASSUME NEW c \in ControllerType, NEW cmd \in Answers, IsValid(cmd)
    PROVE  IF Refused(c, cmd) THEN IssueCommand(c, cmd) = Exit(c)
           ELSE cmd \in IssueType /\ Done(IssueCommand(c, cmd), c, cmd)
<1>1. CASE Refused(c, cmd)
  BY <1>1 DEF Refused, IssueCommand
<1>2. CASE ~Refused(c, cmd)
  <2> DEFINE cs == c.channel_state_
             traced == [c EXCEPT !.cmd_trace_ = Append(c.cmd_trace_, cmd)]
             settled == Settle(traced, cmd)
             new == UpdateTimingAndStates(cs, cmd)
             updated == [settled EXCEPT !.channel_state_ = new]
             d == IssueCommand(c, cmd)
  <2>0. cmd \in IssueType /\ cs \in ChannelStateType
    BY <1>2, AnswersValid, ControllerFields DEF Refused
  <2>1. traced \in ControllerType
    <3>1. Append(c.cmd_trace_, cmd) \in Seq(IssueType)
      BY <2>0, ControllerFields
    <3>2. QED
      BY <3>1 DEF ControllerType
  <2>2. /\ SameQueues(traced, c) /\ traced.channel_state_ = cs /\ SamePending(traced, c)
        /\ traced.unified_queue_ = c.unified_queue_ /\ traced.exited = c.exited
        /\ traced.cmd_trace_ = Append(c.cmd_trace_, cmd)
    BY DEF ControllerType, SameQueues, SamePending
  <2>3. d = MarkInServe([settled EXCEPT !.channel_state_ =
                           UpdateTimingAndStates(settled.channel_state_, cmd)], cmd)
    BY <1>2 DEF IssueCommand, Refused
  <2> HIDE DEF traced, d
  <2>4. /\ Settled(settled, traced, cmd) /\ SameQueues(settled, traced)
        /\ settled.unified_queue_ = traced.unified_queue_
        /\ settled.exited = traced.exited /\ settled.cmd_trace_ = traced.cmd_trace_
        /\ settled.channel_state_ = traced.channel_state_
    BY <2>1, SettleEffect
  <2>5. settled \in ControllerType
    BY <1>2, <2>0, <2>1, <2>2, SettleTyped DEF SamePending, Refused
  <2> HIDE DEF settled
  <2>6. new \in ChannelStateType
    BY <2>0, ChannelUpdateTyped
  <2>7. d = MarkInServe(updated, cmd)
    BY <2>2, <2>3, <2>4
  <2> HIDE DEF new
  <2>8. /\ updated \in ControllerType /\ updated.channel_state_ = new
        /\ SameQueues(updated, settled) /\ SamePending(updated, settled)
        /\ updated.unified_queue_ = settled.unified_queue_
        /\ updated.exited = settled.exited /\ updated.cmd_trace_ = settled.cmd_trace_
    BY <2>5, <2>6 DEF ControllerType, SameQueues, SamePending
  <2> HIDE DEF updated
  <2>9. /\ d = [updated EXCEPT !.channel_state_ = d.channel_state_]
        /\ d.channel_state_.refresh_q_ = new.refresh_q_
        /\ SameBanks(d.channel_state_, new)
    BY <2>7, <2>8, MarkEffect
  <2>10. /\ SameQueues(d, updated) /\ SamePending(d, updated)
         /\ d.unified_queue_ = updated.unified_queue_
         /\ d.exited = updated.exited /\ d.cmd_trace_ = updated.cmd_trace_
    BY <2>8, <2>9 DEF ControllerType, SameQueues, SamePending
  <2>11. SameQueues(d, c)
    BY <2>2, <2>4, <2>8, <2>10 DEF SameQueues
  <2>12. Settled(d, c, cmd)
    BY <2>2, <2>4, <2>8, <2>10 DEF SamePending, Settled
  <2>13. Done(d, c, cmd)
    BY <2>2, <2>4, <2>8, <2>9, <2>10, <2>11, <2>12 DEF Done, new
  <2>14. QED
    BY <1>2, <2>0, <2>13 DEF d
<1>3. QED
  BY <1>1, <1>2

-----------------------------------------------------------------------------
(* The queues and the pending requests.                                    *)

SameTransQueues(d, c) ==
    /\ d.unified_queue_ = c.unified_queue_ /\ d.read_queue_ = c.read_queue_
    /\ d.write_buffer_ = c.write_buffer_

(* Each is a function of the members compared.                             *)
LEMMA SameWaiting ==
    ASSUME NEW c, NEW d, SameTransQueues(d, c) PROVE Waiting(d) = Waiting(c)
<1>1. \A w : d[QueueFor(w)] = c[QueueFor(w)]
  BY DEF SameTransQueues, QueueFor
<1>2. \A t \in Transactions : InTransQueue(d, t) <=> InTransQueue(c, t)
  BY <1>1 DEF InTransQueue
<1>3. QED
  BY <1>2 DEF Waiting

(* Which requests have a command depends on the command queues alone.      *)
LEMMA SameScheduled ==
    ASSUME NEW c, NEW d, d.cmd_queue_.queues_ = c.cmd_queue_.queues_
    PROVE  /\ Scheduled(d) = Scheduled(c)
           /\ HomeOk(c.cmd_queue_) => HomeOk(d.cmd_queue_)
BY DEF Scheduled, InCommandQueue, QueueOf, HomeOk

(* A step that changes neither queues nor pending counts keeps the parts   *)
(* of the invariant that relate them.                                      *)
LEMMA SameWorkKeeps ==
    ASSUME NEW c, NEW d, SameWork(d, c)
    PROVE  /\ Linked(c) => Linked(d)
           /\ Ordered(c) => Ordered(d)
           /\ Covered(c) => Covered(d)
<1>1. Waiting(d) = Waiting(c)
  BY SameWaiting DEF SameWork, SameTransQueues
<1>2. Scheduled(d) = Scheduled(c) /\ (HomeOk(c.cmd_queue_) => HomeOk(d.cmd_queue_))
  BY SameScheduled DEF SameWork
<1>3. \A t : Pending(d, t) = Pending(c, t) /\ QueueOf(d, t) = QueueOf(c, t)
  BY DEF SameWork, SamePending, Pending, QueueOf
<1>4. NoRepeats(c) => NoRepeats(d)
  BY DEF SameWork, NoRepeats
<1>5. Backed(c) => Backed(d)
  BY <1>1, <1>2, <1>3 DEF SameWork, SamePending, Backed
<1>6. Covered(c) => Covered(d)
  BY <1>1, <1>2, <1>3 DEF Covered
<1>7. Ordered(c) => Ordered(d)
  BY <1>1, <1>2, <1>3 DEF SameWork, SamePending, Ordered
<1>8. QED
  BY <1>2, <1>4, <1>5, <1>6, <1>7 DEF Linked

(* An entry leaves its command queue: t is no longer scheduled.            *)
LEMMA EntryLeaves ==
    ASSUME NEW c \in ControllerType, NEW d \in ControllerType, Linked(c),
           SameTransQueues(d, c), NEW q \in QueueIdx,
           NEW i \in DOMAIN c.cmd_queue_.queues_[q], NEW t \in Transactions,
           c.cmd_queue_.queues_[q][i] = TransToCommand(t),
           d.cmd_queue_.queues_ =
             Without(c.cmd_queue_.queues_, q, i)
    PROVE  /\ t \in Scheduled(c) /\ t \notin Waiting(c) /\ Pending(c, t) > 0
           /\ Waiting(d) = Waiting(c) /\ Scheduled(d) = Scheduled(c) \ {t}
           /\ HomeOk(d.cmd_queue_) /\ NoRepeats(d)
           /\ \A p \in QueueIdx : \A x, y :
                Before(c.cmd_queue_.queues_[p], x, y) => Before(d.cmd_queue_.queues_[p], x, y)
<1> DEFINE old == c.cmd_queue_.queues_
           new == d.cmd_queue_.queues_
           queue == old[q]
<1>1. /\ old \in [QueueIdx -> Seq(QueueCommands)] /\ queue \in Seq(QueueCommands)
      /\ new \in [QueueIdx -> Seq(QueueCommands)]
  BY ControllerFields DEF CommandQueueType
<1>2. \A p \in QueueIdx : new[p] = IF p = q THEN RemoveAt(queue, i) ELSE old[p]
  BY <1>1 DEF Without
<1>3. /\ HomeOk(c.cmd_queue_) /\ NoRepeats(c) /\ Backed(c)
      /\ \A p \in QueueIdx : IsInjective(old[p])
  BY DEF Linked, NoRepeats
<1> HIDE DEF old, new
<1>4. ToSet(new[q]) = ToSet(queue) \ {TransToCommand(t)} /\ IsInjective(new[q])
  BY <1>1, <1>2, <1>3, RemoveSet DEF old
<1>5. GetQueueIndex(TransToCommand(t).addr) = q
  BY <1>3 DEF HomeOk, old
<1>6. ASSUME NEW u \in Transactions
      PROVE  /\ GetQueueIndex(AddressMapping[u.addr]) \in QueueIdx
             /\ QueueOf(c, u) = old[GetQueueIndex(AddressMapping[u.addr])]
             /\ QueueOf(d, u) = new[GetQueueIndex(AddressMapping[u.addr])]
  BY CommandOf DEF QueueOf, old, new
<1>7. GetQueueIndex(AddressMapping[t.addr]) = q
  BY <1>5, CommandOf
<1>8. TransToCommand(t) \in ToSet(queue)
  BY DEF ToSet, old
<1>9. t \in Scheduled(c)
  BY <1>6, <1>7, <1>8, WaitingSet
<1>10. t \notin Waiting(c) /\ Pending(c, t) > 0
  BY <1>3, <1>9 DEF Backed
<1>11. Waiting(d) = Waiting(c)
  BY SameWaiting
<1>12. ASSUME NEW u \in Transactions
       PROVE  u \in Scheduled(d) <=> u \in Scheduled(c) /\ u # t
  <2> DEFINE p == GetQueueIndex(AddressMapping[u.addr])
  <2>1. /\ u \in Scheduled(c) <=> TransToCommand(u) \in ToSet(old[p])
        /\ u \in Scheduled(d) <=> TransToCommand(u) \in ToSet(new[p])
    BY <1>6, WaitingSet
  <2>2. p \in QueueIdx
    BY <1>6
  <2> HIDE DEF p
  <2>3. CASE p # q
    <3>1. u # t
      BY <1>7, <2>3 DEF p
    <3>2. QED
      BY <1>2, <2>1, <2>2, <2>3, <3>1
  <2>4. CASE p = q
    <3>1. TransToCommand(u) = TransToCommand(t) <=> u = t
      BY CommandsDiffer
    <3>2. QED
      BY <1>4, <2>1, <2>4, <3>1
  <2>5. QED
    BY <2>3, <2>4
<1>13. Scheduled(d) = Scheduled(c) \ {t}
  BY <1>12 DEF Scheduled
<1>14. NoRepeats(d)
  <2>1. \A p \in QueueIdx : IsInjective(new[p])
    BY <1>2, <1>3, <1>4
  <2>2. QED
    BY <1>3, <2>1 DEF NoRepeats, SameTransQueues, new
<1>15. HomeOk(d.cmd_queue_)
  <2>1. ASSUME NEW p \in QueueIdx, NEW j \in DOMAIN new[p]
        PROVE  GetQueueIndex(new[p][j].addr) = p
    <3>1. CASE p # q
      BY <1>2, <1>3, <3>1 DEF HomeOk, old
    <3>2. CASE p = q
      <4>1. j \in DOMAIN RemoveAt(queue, i) /\ new[p][j] = RemoveAt(queue, i)[j]
        BY <1>2, <3>2
      <4>2. PICK k \in DOMAIN queue : RemoveAt(queue, i)[j] = queue[k]
        BY <1>1, <4>1, RemoveAtSource DEF old
      <4>3. QED
        BY <1>3, <3>2, <4>1, <4>2 DEF HomeOk, old
    <3>3. QED
      BY <3>1, <3>2
  <2>2. QED
    BY <2>1 DEF HomeOk, new
<1>16. ASSUME NEW p \in QueueIdx, NEW x, NEW y, Before(old[p], x, y)
       PROVE  Before(new[p], x, y)
  <2>1. CASE p # q
    BY <1>2, <1>16, <2>1
  <2>2. CASE p = q
    BY <1>1, <1>2, <1>16, <2>2, BeforeRemove DEF old
  <2>3. QED
    BY <2>1, <2>2
<1>17. QED
  BY <1>9, <1>10, <1>11, <1>13, <1>14, <1>15, <1>16 DEF old, new

(* What is pending is queued, t excepted.                                  *)
CoveredBut(c, t) ==
    \A u \in Transactions :
        u # t /\ Pending(c, u) > 0 => u \in Waiting(c) \cup Scheduled(c)

(* t has been taken from its queue and is still to be issued.              *)
Loose(c, t) == Pending(c, t) > 0 /\ t \notin Waiting(c) \cup Scheduled(c)

(* The chosen command leaves the queues.                                   *)
LEMMA TakenKeeps ==
    ASSUME NEW c \in ControllerType, Linked(c), NEW got, got.cq \in CommandQueueType,
           Chosen(c.channel_state_, c.cmd_queue_.queues_, got)
    PROVE  LET d == [c EXCEPT !.cmd_queue_ = got.cq]
           IN /\ Linked(d) /\ (Ordered(c) => Ordered(d))
              /\ ~IsReadWrite(got.cmd) /\ Covered(c) => Covered(d)
              /\ IsReadWrite(got.cmd) =>
                   \E t \in Transactions :
                     /\ got.cmd = TransToCommand(t) /\ Loose(d, t)
                     /\ Covered(c) => CoveredBut(d, t)
<1> DEFINE d == [c EXCEPT !.cmd_queue_ = got.cq]
<1>1. d \in ControllerType
  BY WithCommandQueue
<1>2. d.cmd_queue_ = got.cq /\ SameTransQueues(d, c) /\ SamePending(d, c)
  BY DEF ControllerType, SameTransQueues, SamePending
<1> HIDE DEF d
<1>3. CASE ~IsReadWrite(got.cmd)
  <2>1. SameWork(d, c)
    BY <1>2, <1>3 DEF Chosen, SameWork, SameTransQueues
  <2>2. QED
    BY <1>3, <2>1, SameWorkKeeps DEF d
<1>4. CASE IsReadWrite(got.cmd)
  <2> DEFINE queues == c.cmd_queue_.queues_
  <2>1. PICK q \in QueueIdx : \E i \in DOMAIN queues[q] :
          /\ got.cmd = queues[q][i]
          /\ got.cq.queues_ = Without(queues, q, i)
    BY <1>4 DEF Chosen
  <2>2. PICK i \in DOMAIN queues[q] :
          /\ got.cmd = queues[q][i]
          /\ got.cq.queues_ = Without(queues, q, i)
    BY <2>1
  <2>3. got.cmd \in QueueCommands
    BY <2>2, ControllerFields DEF CommandQueueType
  <2>4. PICK t \in Transactions : got.cmd = TransToCommand(t)
    BY <2>3 DEF QueueCommands
  <2>5. /\ t \in Scheduled(c) /\ t \notin Waiting(c) /\ Pending(c, t) > 0
        /\ Waiting(d) = Waiting(c) /\ Scheduled(d) = Scheduled(c) \ {t}
        /\ HomeOk(d.cmd_queue_) /\ NoRepeats(d)
        /\ \A p \in QueueIdx : \A x, y :
             Before(queues[p], x, y) => Before(d.cmd_queue_.queues_[p], x, y)
    <3>1. /\ c.cmd_queue_.queues_[q][i] = TransToCommand(t)
          /\ d.cmd_queue_.queues_ =
               Without(c.cmd_queue_.queues_, q, i)
      BY <1>2, <2>2, <2>4
    <3>2. QED
      BY <1>1, <1>2, <3>1, EntryLeaves
  <2>6. \A u : Pending(d, u) = Pending(c, u)
    BY <1>2 DEF SamePending, Pending
  <2>7. Backed(d)
    BY <1>2, <2>5, <2>6 DEF Linked, Backed, SamePending
  <2>8. Linked(d)
    BY <2>5, <2>7 DEF Linked
  <2>9. Loose(d, t)
    BY <2>5, <2>6 DEF Loose
  <2>10. Covered(c) => CoveredBut(d, t)
    BY <2>5, <2>6 DEF Covered, CoveredBut
  <2>11. Ordered(c) => Ordered(d)
    <3>1. ASSUME NEW a \in Addr, NEW x, NEW y
          PROVE  Before(QueueOf(c, Writing(a)), x, y) => Before(QueueOf(d, Writing(a)), x, y)
      <4>1. Writing(a) \in Transactions
        BY DEF Writing, Transaction, Transactions
      <4>2. GetQueueIndex(AddressMapping[Writing(a).addr]) \in QueueIdx
        BY <4>1, CommandOf
      <4>3. QED
        BY <2>5, <4>2 DEF QueueOf
    <3>2. QED
      BY <1>2, <2>5, <3>1 DEF Ordered, SameTransQueues, SamePending
  <2>12. QED
    BY <1>4, <2>4, <2>8, <2>9, <2>10, <2>11 DEF d
<1>5. QED
  BY <1>3, <1>4

(* The requests that an access settles.                                    *)
LEMMA SettledPending ==
    ASSUME NEW c \in ControllerType, NEW d, NEW t \in Transactions, Backed(c), Loose(c, t),
           Settled(d, c, TransToCommand(t))
    PROVE  /\ Pending(d, t) = 0
           /\ \A u \in Transactions : u # t => Pending(d, u) = Pending(c, u)
           /\ \A a \in Addr : /\ d.pending_wr_q_[a] <= 1
                              /\ c.pending_rd_q_[a] = 0 => d.pending_rd_q_[a] = 0
<1> DEFINE cmd == TransToCommand(t)
           a == t.addr
<1>1. /\ cmd.hex_addr = a /\ IsWrite(cmd) = t.is_write /\ IsRead(cmd) = ~t.is_write
      /\ t.is_write \in BOOLEAN /\ a \in Addr
  BY CommandOf DEF Transactions, IsWrite, IsRead
<1>2. c.pending_rd_q_ \in [Addr -> Nat] /\ c.pending_wr_q_ \in [Addr -> Nat]
  BY ControllerFields
<1>3. \A x \in Addr : c.pending_wr_q_[x] <= 1
  BY DEF Backed
<1>4. ASSUME NEW u \in Transactions, u # t
      PROVE  u.addr \in Addr /\ (u.addr # a \/ u.is_write = ~t.is_write)
             /\ u.is_write \in BOOLEAN
  BY <1>1, <1>4 DEF Transactions
<1> HIDE DEF cmd, a
<1>5. CASE t.is_write
  <2>1. /\ d.pending_rd_q_ = c.pending_rd_q_
        /\ d.pending_wr_q_ = [c.pending_wr_q_ EXCEPT ![a] = c.pending_wr_q_[a] - 1]
    BY <1>1, <1>5 DEF Settled, cmd
  <2>2. c.pending_wr_q_[a] = 1
    <3>1. c.pending_wr_q_[a] > 0
      BY <1>5 DEF Loose, Pending, a
    <3>2. QED
      BY <1>1, <1>2, <1>3, <3>1
  <2>3. Pending(d, t) = 0
    BY <1>1, <1>2, <1>5, <2>1, <2>2 DEF Pending, a
  <2>4. ASSUME NEW u \in Transactions, u # t PROVE Pending(d, u) = Pending(c, u)
    BY <1>2, <1>4, <1>5, <2>1, <2>4 DEF Pending
  <2>5. \A x \in Addr : d.pending_wr_q_[x] <= 1
    BY <1>2, <1>3, <2>1, <2>2
  <2>6. QED
    BY <2>1, <2>3, <2>4, <2>5
<1>6. CASE ~t.is_write
  <2>1. /\ d.pending_wr_q_ = c.pending_wr_q_
        /\ d.pending_rd_q_ = [c.pending_rd_q_ EXCEPT ![a] = 0]
    BY <1>1, <1>6 DEF Settled, cmd
  <2>2. Pending(d, t) = 0
    BY <1>1, <1>2, <1>6, <2>1 DEF Pending, a
  <2>3. ASSUME NEW u \in Transactions, u # t PROVE Pending(d, u) = Pending(c, u)
    BY <1>2, <1>4, <1>6, <2>1, <2>3 DEF Pending
  <2>4. \A x \in Addr : c.pending_rd_q_[x] = 0 => d.pending_rd_q_[x] = 0
    BY <1>2, <2>1
  <2>5. QED
    BY <1>3, <2>1, <2>2, <2>3, <2>4
<1>7. QED
  BY <1>1, <1>5, <1>6

(* The access goes out, and nothing of it is left.                         *)
LEMMA AccessDone ==
    ASSUME NEW c \in ControllerType, Linked(c), NEW d, NEW t \in Transactions,
           Loose(c, t), Done(d, c, TransToCommand(t))
    PROVE  /\ Linked(d) /\ (Ordered(c) => Ordered(d))
           /\ CoveredBut(c, t) => Covered(d)
<1>1. /\ Pending(d, t) = 0
      /\ \A u \in Transactions : u # t => Pending(d, u) = Pending(c, u)
      /\ \A a \in Addr : /\ d.pending_wr_q_[a] <= 1
                         /\ c.pending_rd_q_[a] = 0 => d.pending_rd_q_[a] = 0
  BY SettledPending DEF Linked, Done
<1>2. SameTransQueues(d, c) /\ d.cmd_queue_ = c.cmd_queue_
  BY DEF Done, SameQueues, SameTransQueues
<1>3. Waiting(d) = Waiting(c) /\ Scheduled(d) = Scheduled(c)
  BY <1>2, SameWaiting, SameScheduled
<1>4. Backed(d)
  <2>1. Waiting(c) \subseteq Transactions /\ Scheduled(c) \subseteq Transactions
    BY DEF Waiting, Scheduled
  <2>2. QED
    BY <1>1, <1>3, <2>1 DEF Linked, Backed, Loose
<1>5. HomeOk(d.cmd_queue_) /\ NoRepeats(d)
  BY <1>2 DEF Linked, NoRepeats, SameTransQueues
<1>6. Ordered(c) => Ordered(d)
  <2>1. \A u : QueueOf(d, u) = QueueOf(c, u)
    BY <1>2 DEF QueueOf
  <2>2. QED
    BY <1>1, <1>2, <1>3, <2>1 DEF Ordered, SameTransQueues
<1>7. CoveredBut(c, t) => Covered(d)
  BY <1>1, <1>3 DEF CoveredBut, Covered
<1>8. QED
  BY <1>4, <1>5, <1>6, <1>7 DEF Linked

(* Any other command settles nothing.                                      *)
LEMMA OtherDone ==
    ASSUME NEW c, NEW d, NEW cmd, ~IsReadWrite(cmd), Done(d, c, cmd)
    PROVE  SameWork(d, c)
BY DEF Done, Settled, SameQueues, SameWork, SamePending, IsReadWrite, IsRead, IsWrite, RWTypes

(* The chosen command is issued: an access is never refused, since the     *)
(* request behind it is pending and its bank is open.                      *)
LEMMA IssueKeeps ==
    ASSUME NEW c \in ControllerType, Linked(c), NEW got, got.cq \in CommandQueueType,
           got.cmd \in Answers, IsValid(got.cmd),
           Chosen(c.channel_state_, c.cmd_queue_.queues_, got),
           Acceptable(c.channel_state_, got.cmd)
    PROVE  LET d == IssueCommand([c EXCEPT !.cmd_queue_ = got.cq], got.cmd)
           IN /\ Linked(d) /\ (Ordered(c) => Ordered(d)) /\ (Covered(c) => Covered(d))
              /\ IsReadWrite(got.cmd) => ~Refused([c EXCEPT !.cmd_queue_ = got.cq], got.cmd)
<1> DEFINE taken == [c EXCEPT !.cmd_queue_ = got.cq]
           cmd == got.cmd
           d == IssueCommand(taken, cmd)
<1>1. taken \in ControllerType /\ taken.channel_state_ = c.channel_state_
  BY DEF ControllerType
<1>2. /\ Linked(taken) /\ (Ordered(c) => Ordered(taken))
      /\ ~IsReadWrite(cmd) /\ Covered(c) => Covered(taken)
      /\ IsReadWrite(cmd) =>
           \E t \in Transactions :
             /\ cmd = TransToCommand(t) /\ Loose(taken, t)
             /\ Covered(c) => CoveredBut(taken, t)
  BY TakenKeeps
<1> HIDE DEF taken, cmd
<1>3. IF Refused(taken, cmd) THEN d = Exit(taken) ELSE Done(d, taken, cmd)
  BY <1>1, IssueEffect DEF cmd
<1> HIDE DEF d
<1>4. CASE IsReadWrite(cmd)
  <2>1. PICK t \in Transactions :
          /\ cmd = TransToCommand(t) /\ Loose(taken, t)
          /\ Covered(c) => CoveredBut(taken, t)
    BY <1>2, <1>4
  <2>2. /\ cmd.hex_addr = t.addr /\ (IsWrite(cmd) <=> t.is_write)
        /\ (IsRead(cmd) <=> ~t.is_write) /\ t.addr \in Addr /\ t.is_write \in BOOLEAN
    BY <2>1, CommandOf DEF Transactions
  <2>3. ~IsExit(cmd) /\ ChannelAccepts(taken.channel_state_, cmd)
    BY <1>1, <1>4 DEF Acceptable, cmd
  <2>4. ~(IsRead(cmd) /\ taken.pending_rd_q_[cmd.hex_addr] = 0)
        /\ ~(IsWrite(cmd) /\ taken.pending_wr_q_[cmd.hex_addr] = 0)
    BY <2>1, <2>2 DEF Loose, Pending
  <2>5. ~Refused(taken, cmd)
    BY <2>3, <2>4 DEF Refused
  <2>6. /\ Linked(d) /\ (Ordered(taken) => Ordered(d))
        /\ CoveredBut(taken, t) => Covered(d)
    BY <1>1, <1>2, <1>3, <2>1, <2>5, AccessDone
  <2>7. QED
    BY <1>2, <2>1, <2>5, <2>6 DEF d, taken, cmd
<1>5. CASE ~IsReadWrite(cmd)
  <2>1. CASE Refused(taken, cmd)
    <3>1. SameWork(d, taken)
      BY <1>1, <1>3, <2>1 DEF Exit, ControllerType, SameWork, SamePending
    <3>2. QED
      BY <1>2, <1>5, <3>1, SameWorkKeeps DEF d, taken, cmd
  <2>2. CASE ~Refused(taken, cmd)
    <3>1. SameWork(d, taken)
      BY <1>3, <1>5, <2>2, OtherDone
    <3>2. QED
      BY <1>2, <1>5, <3>1, SameWorkKeeps DEF d, taken, cmd
  <2>3. QED
    BY <2>1, <2>2
<1>6. QED
  BY <1>4, <1>5

-----------------------------------------------------------------------------
(* What a command leaves in the banks.                                     *)

(* UpdateTimingAndStates, bank by bank.                                    *)
LEMMA UpdateBanks ==
    ASSUME NEW cs \in ChannelStateType, NEW cmd \in IssueType, NEW b \in Banks
    PROVE  UpdateTimingAndStates(cs, cmd).bank_states_[b] =
             BankUpdateTiming(IF b \in Targets(cmd)
                              THEN BankUpdateState(cs.bank_states_[b], cmd)
                              ELSE cs.bank_states_[b], TimingRow(cmd, b))
<1> DEFINE bs == [x \in Banks |-> IF x \in Targets(cmd)
                    THEN BankUpdateState(cs.bank_states_[x], cmd) ELSE cs.bank_states_[x]]
           u == ChannelUpdateState(cs, cmd)
           w == IF cmd.cmd_type = "ACTIVATE"
                THEN UpdateActivationTimes(u, cmd.addr.rank) ELSE u
<1>1. u.bank_states_ = bs
  BY DEF ChannelUpdateState, RankRefreshDone, BankRefreshDone, ChannelStateType
<1> HIDE DEF u, bs
<1>2. w.bank_states_ = u.bank_states_
  BY DEF UpdateActivationTimes
<1> HIDE DEF w
<1>3. UpdateTimingAndStates(cs, cmd) =
        [w EXCEPT !.bank_states_ =
           [x \in Banks |-> BankUpdateTiming(w.bank_states_[x], TimingRow(cmd, x))]]
  BY DEF UpdateTimingAndStates, ChannelUpdateTiming, w, u
<1>4. "bank_states_" \in DOMAIN w
  BY DEF w, u, ChannelUpdateState, RankRefreshDone, BankRefreshDone, UpdateActivationTimes,
         ChannelStateType
<1>5. UpdateTimingAndStates(cs, cmd).bank_states_ =
        [x \in Banks |-> BankUpdateTiming(w.bank_states_[x], TimingRow(cmd, x))]
  BY <1>3, <1>4
<1>6. QED
  BY <1>1, <1>2, <1>5 DEF bs

(* Only SREF_ENTER puts a bank to sleep.                                   *)
LEMMA StaysAwake ==
    ASSUME NEW c \in ControllerType, NEW d, NEW cmd \in IssueType, Done(d, c, cmd),
           Awake(c.channel_state_), cmd.cmd_type # "SREF_ENTER"
    PROVE  Awake(d.channel_state_)
<1> DEFINE cs == c.channel_state_
           new == UpdateTimingAndStates(cs, cmd)
<1>1. cs \in ChannelStateType /\ cs.bank_states_ \in [Banks -> BankType]
  BY ControllerFields DEF ChannelStateType
<1>2. \A b \in Banks : d.channel_state_.bank_states_[b].state_ = new.bank_states_[b].state_
  BY DEF Done, SameBanks
<1>3. ASSUME NEW b \in Banks PROVE new.bank_states_[b].state_ # "SREF"
  <2> DEFINE old == cs.bank_states_[b]
             upd == IF b \in Targets(cmd) THEN BankUpdateState(old, cmd) ELSE old
  <2>1. new.bank_states_[b] = BankUpdateTiming(upd, TimingRow(cmd, b))
    BY <1>1, UpdateBanks
  <2>2. upd \in BankType /\ old \in BankType
    BY <1>1, BankUpdateStateTyped
  <2>3. old.state_ # "SREF"
    BY DEF Awake
  <2>4. BankUpdateState(old, cmd).state_ # "SREF"
    BY <2>2, <2>3 DEF BankUpdateState, BankType
  <2>5. upd.state_ # "SREF"
    BY <2>3, <2>4
  <2> HIDE DEF upd, new
  <2>6. QED
    BY <2>1, <2>2, <2>5 DEF BankUpdateTiming, BankType
<1>4. QED
  BY <1>2, <1>3 DEF Awake

(* The delays of the tables between two accesses.                          *)
LEMMA SpacedRows ==
    ASSUME AccessesSpaced, NEW cmd \in IssueType, IsReadWrite(cmd), NEW b \in Banks,
           b = BankOf(cmd.addr) => cmd.cmd_type \in {"READ", "WRITE"}
    PROVE  \A t \in RWTypes : t \in DOMAIN TimingRow(cmd, b) /\ TimingRow(cmd, b)[t] > 0
<1> DEFINE ct == cmd.cmd_type
           addr == cmd.addr
           row == TimingRow(cmd, b)
           Good(f) == \A t \in RWTypes : t \in DOMAIN f /\ f[t] > 0
<1>1. /\ ct \in RWTypes /\ ct \in CommandType /\ ~IsRankCMD(cmd)
      /\ addr.rank \in Ranks /\ BankOf(addr) \in Banks
  BY DEF IsReadWrite, IssueType, CommandRecord, AddressType, IsRankCMD, RankTypes, RWTypes,
         ReadTypes, WriteTypes
<1>2. b = <<b[1], b[2], b[3]>> /\ b[1] \in Ranks
  BY DEF Banks
<1>3. \A r, w : r > 0 /\ w > 0 => Good(RWRow(r, w))
  BY DEF RWRow
<1>4. \A f, t, x : Good(f) /\ t \notin RWTypes => Good(Also(f, t, x))
  BY DEF Also
<1>5. ct \in ReadTypes \/ ct \in WriteTypes
  BY <1>1 DEF RWTypes
<1>6. CASE b[1] # addr.rank
  <2>1. config.ranks > 1
    BY <1>1, <1>2, <1>6, CountsAssumption DEF Ranks
  <2>2. row = other_ranks[ct]
    BY <1>1, <1>6 DEF TimingRow
  <2>3. /\ ct \in ReadTypes => row = RWRow(read_to_read_o, read_to_write_o)
        /\ ct \in WriteTypes => row = RWRow(write_to_read_o, write_to_write_o)
    BY <1>1, <2>2 DEF other_ranks, ReadTypes, WriteTypes
  <2> HIDE DEF row, Good
  <2>4. Good(row)
    BY <1>3, <1>5, <2>1, <2>3 DEF AccessesSpaced
  <2>5. QED
    BY <2>4 DEF row, Good
<1>7. CASE b[1] = addr.rank /\ b[2] # addr.bankgroup
  <2>2. row = other_bankgroups_same_rank[ct]
    BY <1>1, <1>7 DEF TimingRow
  <2>3. /\ ct \in ReadTypes => row = RWRow(read_to_read_s, read_to_write)
        /\ ct \in WriteTypes => row = RWRow(write_to_read_s, write_to_write_s)
    BY <1>1, <2>2 DEF other_bankgroups_same_rank, ReadTypes, WriteTypes
  <2> HIDE DEF row, Good
  <2>4. Good(row)
    BY <1>3, <1>5, <2>3 DEF AccessesSpaced, write_to_write_s
  <2>5. QED
    BY <2>4 DEF row, Good
<1>8. CASE b[1] = addr.rank /\ b[2] = addr.bankgroup /\ b[3] # addr.bank
  <2>2. row = other_banks_same_bankgroup[ct]
    BY <1>1, <1>8 DEF TimingRow
  <2>3. /\ ct \in ReadTypes => row = RWRow(read_to_read_l, read_to_write)
        /\ ct \in WriteTypes => row = RWRow(write_to_read_l, write_to_write_l)
    BY <1>1, <2>2 DEF other_banks_same_bankgroup, ReadTypes, WriteTypes
  <2> HIDE DEF row, Good
  <2>4. Good(row)
    BY <1>3, <1>5, <2>3 DEF AccessesSpaced, write_to_write_l
  <2>5. QED
    BY <2>4 DEF row, Good
<1>9. CASE b[1] = addr.rank /\ b[2] = addr.bankgroup /\ b[3] = addr.bank
  <2>1. b = BankOf(addr)
    BY <1>2, <1>9 DEF BankOf
  <2>2. row = same_bank[ct]
    BY <1>1, <1>9 DEF TimingRow
  <2>3. /\ ct = "READ" => row = Also(RWRow(read_to_read_l, read_to_write),
                                     "PRECHARGE", read_to_precharge)
        /\ ct = "WRITE" => row = Also(RWRow(write_to_read_l, write_to_write_l),
                                      "PRECHARGE", write_to_precharge)
    BY <1>1, <2>2 DEF same_bank
  <2>4. "PRECHARGE" \notin RWTypes
    BY DEF RWTypes, ReadTypes, WriteTypes
  <2> HIDE DEF row, Good
  <2>5. /\ Good(RWRow(read_to_read_l, read_to_write))
        /\ Good(RWRow(write_to_read_l, write_to_write_l))
    BY <1>3 DEF AccessesSpaced, write_to_write_l
  <2>6. Good(row)
    BY <1>4, <2>1, <2>3, <2>4, <2>5
  <2>7. QED
    BY <2>6 DEF row, Good
<1>10. QED
  BY <1>6, <1>7, <1>8, <1>9

(* After an access no bank is ready for another one in the same cycle.     *)
LEMMA AccessesApart ==
    ASSUME NEW c \in ControllerType, NEW d, NEW cmd \in IssueType, IsReadWrite(cmd),
           Done(d, c, cmd), AccessesSpaced, NEW b \in Banks,
           d.channel_state_.bank_states_[b].state_ = "OPEN", NEW t \in RWTypes
    PROVE  d.channel_state_.bank_states_[b].cmd_timing_[t] # 0
<1> DEFINE cs == c.channel_state_
           old == cs.bank_states_[b]
           upd == IF b \in Targets(cmd) THEN BankUpdateState(old, cmd) ELSE old
           new == UpdateTimingAndStates(cs, cmd).bank_states_[b]
           row == TimingRow(cmd, b)
<1>1. cs \in ChannelStateType /\ old \in BankType
  BY ControllerFields DEF ChannelStateType
<1>2. /\ d.channel_state_.bank_states_[b].state_ = new.state_
      /\ d.channel_state_.bank_states_[b].cmd_timing_ = new.cmd_timing_
  BY DEF Done, SameBanks
<1>3. new = BankUpdateTiming(upd, row)
  BY <1>1, UpdateBanks
<1>4. upd \in BankType
  BY <1>1, BankUpdateStateTyped
<1>5. Targets(cmd) = {BankOf(cmd.addr)} /\ cmd.cmd_type \in RWTypes
  BY BankTarget DEF IsReadWrite
<1>6. b = BankOf(cmd.addr) => cmd.cmd_type \in {"READ", "WRITE"} \/ upd.state_ = "CLOSED"
  BY <1>1, <1>5 DEF BankUpdateState, BankType, RWTypes, ReadTypes, WriteTypes
<1> HIDE DEF upd, new, row
<1>7. new.state_ = upd.state_
  BY <1>3, <1>4 DEF BankUpdateTiming, BankType
<1>8. upd.state_ # "CLOSED"
  BY <1>2, <1>7
<1>9. t \in DOMAIN row /\ row[t] > 0
  BY <1>6, <1>8, SpacedRows DEF row
<1>10. t \in CommandType
  BY DEF CommandType
<1>11. new.cmd_timing_[t] = Later(upd.cmd_timing_[t], row[t])
  BY <1>3, <1>4, <1>9, <1>10 DEF BankUpdateTiming, BankType
<1>12. row[t] \in Int
  BY <1>9, RowsOfTables DEF row
<1>13. upd.cmd_timing_[t] \in Nat
  BY <1>4, <1>10 DEF BankType
<1>14. new.cmd_timing_[t] # 0
  BY <1>9, <1>11, <1>12, <1>13 DEF Later
<1>15. QED
  BY <1>2, <1>14

(* With unified queues the read that a write must wait for is ahead of it  *)
(* in the same queue, where HasRWDependency finds it.                      *)
LEMMA WriteIsLast ==
    ASSUME NEW c \in ControllerType, Linked(c), Ordered(c), Covered(c), NEW got,
           Chosen(c.channel_state_, c.cmd_queue_.queues_, got), IsWrite(got.cmd)
    PROVE  c.pending_rd_q_[got.cmd.hex_addr] = 0
<1> DEFINE queues == c.cmd_queue_.queues_
           cmd == got.cmd
           a == cmd.hex_addr
<1>1. IsReadWrite(cmd)
  BY DEF IsReadWrite, IsWrite, RWTypes
<1>2. PICK q \in QueueIdx : \E i \in DOMAIN queues[q] :
        cmd = queues[q][i] /\ ~HasRWDependency(queues[q], i)
  BY <1>1 DEF Chosen
<1>3. PICK i \in DOMAIN queues[q] : cmd = queues[q][i] /\ ~HasRWDependency(queues[q], i)
  BY <1>2
<1>4. queues[q] \in Seq(QueueCommands) /\ cmd \in QueueCommands
  BY <1>3, ControllerFields DEF CommandQueueType
<1>5. PICK t \in Transactions : cmd = TransToCommand(t)
  BY <1>4 DEF QueueCommands
<1>6. /\ a = t.addr /\ a \in Addr /\ t.is_write
      /\ GetQueueIndex(AddressMapping[a]) = GetQueueIndex(cmd.addr)
  BY <1>5, CommandOf DEF Transactions
<1>7. t = Writing(a) /\ Reading(a) \in Transactions /\ Writing(a) \in Transactions
  BY <1>6 DEF Writing, Reading, Transaction, Transactions
<1>8. GetQueueIndex(cmd.addr) = q
  BY <1>3 DEF Linked, HomeOk
<1>9. QueueOf(c, Writing(a)) = queues[q] /\ QueueOf(c, Reading(a)) = queues[q]
  BY <1>6, <1>8 DEF QueueOf, Writing, Reading, Transaction
<1>10. Writing(a) \in Scheduled(c)
  BY <1>3, <1>5, <1>7, <1>9 DEF Scheduled, InCommandQueue
<1>11. CASE ~config.unified_queue
  BY <1>6, <1>10, <1>11 DEF Ordered
<1>12. CASE config.unified_queue
  <2>1. /\ Before(queues[q], TransToCommand(Reading(a)), TransToCommand(Writing(a)))
        /\ Reading(a) \notin Waiting(c)
    BY <1>6, <1>9, <1>10, <1>12 DEF Ordered
  <2>2. Reading(a) \notin Scheduled(c)
    <3>1. SUFFICES ASSUME Reading(a) \in Scheduled(c) PROVE FALSE
      OBVIOUS
    <3>2. PICK j \in DOMAIN queues[q] : queues[q][j] = TransToCommand(Reading(a))
      BY <1>9, <3>1 DEF Scheduled, InCommandQueue
    <3>3. j < i /\ j \in 1 .. i - 1
      <4>1. j < i
        BY <1>3, <1>5, <1>7, <2>1, <3>2 DEF Before
      <4>2. i \in Nat /\ j \in Nat /\ j >= 1
        BY <1>4
      <4>3. QED
        BY <4>1, <4>2
    <3>4. IsRead(queues[q][j])
      BY <1>7, <3>2, CommandOf DEF Reading, Transaction
    <3>5. queues[q][j].addr = queues[q][i].addr
      BY <1>3, <1>5, <1>7, <3>2
         DEF TransToCommand, Command, Reading, Writing, Transaction
    <3>6. HasRWDependency(queues[q], i)
      BY <3>3, <3>4, <3>5 DEF HasRWDependency
    <3>7. QED
      BY <1>3, <3>6
  <2>3. ~(Pending(c, Reading(a)) > 0)
    BY <1>7, <2>1, <2>2 DEF Covered
  <2>4. Pending(c, Reading(a)) = c.pending_rd_q_[a]
    BY DEF Pending, Reading, Transaction
  <2>5. c.pending_rd_q_[a] \in Nat
    BY <1>6, ControllerFields
  <2>6. QED
    BY <2>3, <2>4, <2>5
<1>13. QED
  BY <1>11, <1>12

-----------------------------------------------------------------------------
(***************************************************************************)
(* The invariant of a controller.  A request can be lost only if a second  *)
(* access is taken in the cycle of a first one, and the program can end    *)
(* only if a rank has been sent to sleep.                                  *)
(***************************************************************************)
Spaced == config.enable_hbm_dual_cmd => AccessesSpaced

Sound(c) ==
    /\ Safe(c) /\ Linked(c) /\ Ordered(c)
    /\ Spaced => Covered(c)
    /\ ~config.enable_self_refresh => Awake(c.channel_state_) /\ ~c.exited

(* What holds of the commands a cycle has issued so far.                   *)
Clean(c) == Undisturbed(c) /\ (Spaced => WritesClear(c))

(* Each command that goes out keeps its promise and those of the others.   *)
LEMMA TraceClean ==
    ASSUME NEW c \in ControllerType, NEW d, NEW cmd \in IssueType, Done(d, c, cmd)
    PROVE  /\ (WritesClear(c) /\ (IsWrite(cmd) => c.pending_rd_q_[cmd.hex_addr] = 0))
                => WritesClear(d)
           /\ (/\ Undisturbed(c) /\ Harmless(c.channel_state_, c.cmd_queue_, cmd)
               /\ IsRefresh(cmd) => ~c.cmd_queue_.is_in_ref_)
                => Undisturbed(d)
<1> DEFINE trace == c.cmd_trace_
<1>1. /\ trace \in Seq(IssueType) /\ d.cmd_trace_ = Append(trace, cmd)
      /\ c.pending_rd_q_ \in [Addr -> Nat] /\ c.channel_state_ \in ChannelStateType
  BY ControllerFields DEF Done
<1>2. ASSUME NEW i \in DOMAIN d.cmd_trace_
      PROVE  d.cmd_trace_[i] = cmd \/ (i \in DOMAIN trace /\ d.cmd_trace_[i] = trace[i])
  BY <1>1, AppendSource
<1>3. ASSUME NEW other \in IssueType, IsWrite(other), c.pending_rd_q_[other.hex_addr] = 0
      PROVE  d.pending_rd_q_[other.hex_addr] = 0
  <2>1. other.hex_addr \in Addr
    BY <1>3 DEF IssueType, IsReadWrite, IsWrite, RWTypes
  <2>2. QED
    BY <1>1, <1>3, <2>1 DEF Done, Settled
<1>4. ASSUME WritesClear(c), IsWrite(cmd) => c.pending_rd_q_[cmd.hex_addr] = 0,
             NEW i \in DOMAIN d.cmd_trace_, IsWrite(d.cmd_trace_[i])
      PROVE  d.pending_rd_q_[d.cmd_trace_[i].hex_addr] = 0
  <2>1. CASE d.cmd_trace_[i] = cmd
    BY <1>3, <1>4, <2>1
  <2>2. CASE i \in DOMAIN trace /\ d.cmd_trace_[i] = trace[i]
    <3>1. trace[i] \in IssueType /\ c.pending_rd_q_[trace[i].hex_addr] = 0
      BY <1>1, <1>4, <2>2 DEF WritesClear
    <3>2. QED
      BY <1>3, <1>4, <2>2, <3>1
  <2>3. QED
    BY <1>2, <2>1, <2>2
<1>5. ASSUME Undisturbed(c), Harmless(c.channel_state_, c.cmd_queue_, cmd),
             IsRefresh(cmd) => ~c.cmd_queue_.is_in_ref_, NEW i \in DOMAIN d.cmd_trace_
      PROVE  Harmless(d.channel_state_, d.cmd_queue_, d.cmd_trace_[i])
  <2>1. d.cmd_queue_ = c.cmd_queue_
    BY DEF Done, SameQueues
  <2>2. CASE IsRefresh(cmd)
    BY <1>5, <2>1, <2>2 DEF Harmless
  <2>3. CASE ~IsRefresh(cmd)
    <3>1. d.channel_state_.refresh_q_ = c.channel_state_.refresh_q_
      BY <1>1, <2>3, UpdateRefreshes DEF Done
    <3>2. PendingRefCommand(d.channel_state_) = PendingRefCommand(c.channel_state_)
      BY <3>1 DEF PendingRefCommand
    <3>3. Harmless(c.channel_state_, c.cmd_queue_, d.cmd_trace_[i])
      BY <1>2, <1>5 DEF Undisturbed
    <3>4. QED
      BY <2>1, <3>2, <3>3 DEF Harmless
  <2>4. QED
    BY <2>2, <2>3
<1>6. QED
  BY <1>4, <1>5 DEF WritesClear, Undisturbed

(* got may be taken from the queues of c: what the lemmas above show of    *)
(* FirstCommand and of GetCommandToIssue.                                  *)
Choice(c, got) ==
    LET cs == c.channel_state_
    IN /\ got.cmd \in Answers /\ got.cq \in CommandQueueType
       /\ Chosen(cs, c.cmd_queue_.queues_, got) /\ Acceptable(cs, got.cmd)
       /\ Harmless(cs, got.cq, got.cmd)
       /\ Admitted(cs, got.cmd) /\ HeldAfter(cs, got.cmd, got.cq)
       /\ c.cmd_trace_ = <<>> \/ got.cq.is_in_ref_ = c.cmd_queue_.is_in_ref_

(* A command that is no access is taken and not issued.                    *)
LEMMA TakenSound ==
    ASSUME NEW c, Sound(c), Clean(c), NEW got, Choice(c, got)
    PROVE  LET d == [c EXCEPT !.cmd_queue_ = got.cq]
           IN /\ (Spaced => ~IsReadWrite(got.cmd)) => Sound(d)
              /\ Clean(d)
              /\ d \in ControllerType /\ d.channel_state_ = c.channel_state_
              /\ d.cmd_queue_ = got.cq /\ d.exited = c.exited
              /\ d.pending_rd_q_ = c.pending_rd_q_ /\ WindowsOk(d.channel_state_)
              /\ DrainOk(d)
<1> DEFINE d == [c EXCEPT !.cmd_queue_ = got.cq]
           cs == c.channel_state_
<1>1. c \in ControllerType /\ Safe(c) /\ Linked(c) /\ Ordered(c)
  BY DEF Sound, Safe
<1>2. got.cq \in CommandQueueType /\ HeldOk(cs, got.cq)
  BY HeldAfterHeld DEF Choice
<1>3. /\ d \in ControllerType /\ d.cmd_queue_ = got.cq /\ d.channel_state_ = cs
      /\ WindowsOk(d.channel_state_) /\ DrainOk(d)
  BY <1>1, <1>2, TakenSafe
<1>4. /\ Linked(d) /\ (Ordered(c) => Ordered(d))
      /\ ~IsReadWrite(got.cmd) /\ Covered(c) => Covered(d)
  BY <1>1, TakenKeeps DEF Choice
<1>5. /\ d.exited = c.exited /\ d.cmd_trace_ = c.cmd_trace_
      /\ d.pending_rd_q_ = c.pending_rd_q_
  BY <1>1 DEF ControllerType
<1> HIDE DEF d
<1>6. Safe(d)
  BY <1>2, <1>3 DEF Safe
<1>7. (Spaced => ~IsReadWrite(got.cmd)) => Sound(d)
  BY <1>1, <1>3, <1>4, <1>5, <1>6 DEF Sound
<1>8. Undisturbed(d)
  <2>1. CASE c.cmd_trace_ = <<>>
    BY <1>5, <2>1 DEF Undisturbed
  <2>2. CASE got.cq.is_in_ref_ = c.cmd_queue_.is_in_ref_
    BY <1>3, <1>5, <2>2 DEF Clean, Undisturbed, Harmless
  <2>3. QED
    BY <2>1, <2>2 DEF Choice
<1>9. Clean(d)
  BY <1>5, <1>8 DEF Clean, WritesClear
<1>10. QED
  BY <1>3, <1>5, <1>7, <1>9 DEF d

(* The program ends: nothing else changes.                                 *)
LEMMA ExitKeeps ==
    ASSUME NEW c \in ControllerType
    PROVE  /\ SameWork(Exit(c), c) /\ Exit(c).channel_state_ = c.channel_state_
           /\ Clean(c) => Clean(Exit(c))
<1>1. /\ SameWork(Exit(c), c) /\ Exit(c).channel_state_ = c.channel_state_
      /\ Exit(c).cmd_queue_ = c.cmd_queue_ /\ Exit(c).cmd_trace_ = c.cmd_trace_
      /\ Exit(c).pending_rd_q_ = c.pending_rd_q_
  BY DEF Exit, ControllerType, SameWork, SamePending
<1>2. QED
  BY <1>1 DEF Clean, Undisturbed, WritesClear

(* A chosen command is issued.                                             *)
LEMMA IssueSound ==
    ASSUME NEW c, Sound(c), Clean(c), NEW got, Choice(c, got), IsValid(got.cmd)
    PROVE  LET taken == [c EXCEPT !.cmd_queue_ = got.cq]
               d == IssueCommand(taken, got.cmd)
           IN /\ Sound(d) /\ Clean(d)
              /\ IsReadWrite(got.cmd) =>
                   taken \in ControllerType /\ got.cmd \in IssueType /\ Done(d, taken, got.cmd)
<1> DEFINE taken == [c EXCEPT !.cmd_queue_ = got.cq]
           cmd == got.cmd
           d == IssueCommand(taken, cmd)
           cs == c.channel_state_
<1>1. c \in ControllerType /\ Safe(c) /\ Linked(c) /\ Ordered(c) /\ (Spaced => Covered(c))
  BY DEF Sound, Safe
<1>2. /\ cmd \in Answers /\ got.cq \in CommandQueueType
      /\ Chosen(cs, c.cmd_queue_.queues_, got) /\ Acceptable(cs, cmd)
      /\ Harmless(cs, got.cq, cmd) /\ Admitted(cs, cmd) /\ HeldAfter(cs, cmd, got.cq)
  BY DEF Choice
<1>3. /\ Clean(taken) /\ taken \in ControllerType /\ taken.channel_state_ = cs
      /\ taken.cmd_queue_ = got.cq /\ taken.exited = c.exited
      /\ taken.pending_rd_q_ = c.pending_rd_q_ /\ WindowsOk(taken.channel_state_)
      /\ DrainOk(taken)
  BY TakenSound
<1>4. /\ Linked(d) /\ (Ordered(c) => Ordered(d)) /\ (Covered(c) => Covered(d))
      /\ IsReadWrite(cmd) => ~Refused(taken, cmd)
  BY <1>1, <1>2, IssueKeeps
<1> HIDE DEF taken, cmd, cs
<1>5. Safe(d)
  BY <1>2, <1>3, IssueCommandSafe DEF cmd
<1>6. IF Refused(taken, cmd) THEN d = Exit(taken)
      ELSE cmd \in IssueType /\ Done(d, taken, cmd)
  BY <1>2, <1>3, IssueEffect DEF cmd
<1> HIDE DEF d
<1>7. ASSUME Awake(cs) PROVE ~Refused(taken, cmd) /\ cmd.cmd_type # "SREF_ENTER"
  <2>1. ~IsExit(cmd) /\ ChannelAccepts(cs, cmd) /\ cmd.cmd_type # "SREF_ENTER"
    BY <1>2, <1>7 DEF Acceptable, cmd
  <2>2. ~IsReadWrite(cmd) => ~IsRead(cmd) /\ ~IsWrite(cmd)
    BY DEF IsReadWrite, IsRead, IsWrite, RWTypes
  <2>3. QED
    BY <1>3, <1>4, <2>1, <2>2 DEF Refused
<1>8. ~config.enable_self_refresh => Awake(d.channel_state_) /\ ~d.exited
  <2>1. SUFFICES ASSUME ~config.enable_self_refresh
                 PROVE  Awake(d.channel_state_) /\ ~d.exited
    OBVIOUS
  <2>2. Awake(cs) /\ ~c.exited
    BY <2>1 DEF Sound, cs
  <2>3. Done(d, taken, cmd) /\ cmd \in IssueType /\ cmd.cmd_type # "SREF_ENTER"
    BY <1>6, <1>7, <2>2
  <2>4. Awake(d.channel_state_)
    BY <1>3, <2>2, <2>3, StaysAwake
  <2>5. d.exited = taken.exited
    BY <2>3 DEF Done
  <2>6. QED
    BY <1>3, <2>2, <2>4, <2>5
<1>9. Sound(d)
  BY <1>1, <1>4, <1>5, <1>8 DEF Sound
<1>10. Clean(d)
  <2>1. CASE Refused(taken, cmd)
    BY <1>3, <1>6, <2>1, ExitKeeps
  <2>2. CASE ~Refused(taken, cmd)
    <3>1. cmd \in IssueType /\ Done(d, taken, cmd)
      BY <1>6, <2>2
    <3>2. Spaced /\ IsWrite(cmd) => taken.pending_rd_q_[cmd.hex_addr] = 0
      BY <1>1, <1>2, <1>3, WriteIsLast DEF cmd, cs
    <3>3. Harmless(taken.channel_state_, taken.cmd_queue_, cmd)
      BY <1>2, <1>3
    <3>4. IsRefresh(cmd) => ~taken.cmd_queue_.is_in_ref_
      BY <1>2, <1>3 DEF HeldAfter
    <3>5. QED
      BY <1>3, <3>1, <3>2, <3>3, <3>4, TraceClean DEF Clean
  <2>3. QED
    BY <2>1, <2>2
<1>11. QED
  BY <1>3, <1>4, <1>6, <1>9, <1>10 DEF d, taken, cmd

(* What GetCommandToIssue gives may be taken.                              *)
LEMMA QueueChoice ==
    ASSUME NEW c, Sound(c)
    PROVE  Choice(c, GetCommandToIssue(c.channel_state_, c.cmd_queue_))
<1> DEFINE cs == c.channel_state_
           cq == c.cmd_queue_
           got == GetCommandToIssue(cs, cq)
<1>1. /\ c \in ControllerType /\ HeldOk(cs, cq) /\ HomeOk(cq)
      /\ \A q \in QueueIdx : IsInjective(cq.queues_[q])
  BY DEF Sound, Safe, Linked, NoRepeats
<1>2. cs \in ChannelStateType /\ cq \in CommandQueueType
  BY <1>1, ControllerFields
<1>3. got.cmd \in Answers /\ got.cq \in CommandQueueType
  BY <1>2, GetCommandTyped
<1>4. /\ Admitted(cs, got.cmd) /\ ~IsRefresh(got.cmd)
      /\ got.cq.is_in_ref_ = cq.is_in_ref_ /\ got.cq.ref_q_indices_ = cq.ref_q_indices_
  BY <1>2, GetCommandHeld
<1>5. Offered(cs, cq, got)
  BY <1>1, <1>2, GetCommandSource
<1> HIDE DEF got, cs, cq
<1>6. Chosen(cs, cq.queues_, got) /\ Acceptable(cs, got.cmd)
  BY <1>2, <1>5, OfferedChosen
<1>7. Harmless(cs, got.cq, got.cmd)
  BY <1>1, <1>2, <1>4, <1>5, OfferedHarmless
<1>8. HeldAfter(cs, got.cmd, got.cq)
  BY <1>1, <1>4 DEF HeldAfter, HeldOk
<1>9. QED
  BY <1>3, <1>4, <1>6, <1>7, <1>8 DEF Choice, got, cs, cq

(* What the issue phase begins with may be taken.                          *)
LEMMA FirstChoice ==
    ASSUME NEW c, Sound(c), c.cmd_trace_ = <<>>
    PROVE  Choice(c, FirstCommand(c))
<1> DEFINE first == FirstCommand(c)
<1>1. /\ c \in ControllerType /\ HeldOk(c.channel_state_, c.cmd_queue_)
      /\ HomeOk(c.cmd_queue_) /\ \A q \in QueueIdx : IsInjective(c.cmd_queue_.queues_[q])
  BY DEF Sound, Safe, Linked, NoRepeats
<1>2. first.cmd \in Answers /\ first.cq \in CommandQueueType
  BY <1>1, FirstCommandTyped
<1>3. /\ Chosen(c.channel_state_, c.cmd_queue_.queues_, first)
      /\ Acceptable(c.channel_state_, first.cmd)
      /\ Harmless(c.channel_state_, first.cq, first.cmd)
  BY <1>1, FirstCommandChosen
<1>4. /\ Admitted(c.channel_state_, first.cmd)
      /\ HeldAfter(c.channel_state_, first.cmd, first.cq)
  BY <1>1, FirstCommandHeld
<1> HIDE DEF first
<1>5. QED
  BY <1>2, <1>3, <1>4 DEF Choice, first

(* The second command of a cycle.  If the delays keep accesses apart, no   *)
(* second access is ready, so none is taken without being issued.          *)
LEMMA IssueSecondSound ==
    ASSUME NEW c, Sound(c), Clean(c), config.enable_hbm_dual_cmd, NEW first,
           IsReadWrite(first.cmd) =>
             \E b \in ControllerType : first.cmd \in IssueType /\ Done(c, b, first.cmd)
    PROVE  LET d == IssueSecond(c, first,
                                GetCommandToIssue(c.channel_state_, c.cmd_queue_))
           IN Sound(d) /\ Clean(d)
<1> DEFINE second == GetCommandToIssue(c.channel_state_, c.cmd_queue_)
           taken == [c EXCEPT !.cmd_queue_ = second.cq]
<1>1. Choice(c, second)
  BY QueueChoice
<1>2. IsExit(second.cmd) => IsValid(second.cmd)
  BY DEF IsExit, IsValid
<1>3. IsReadWrite(second.cmd) => IsValid(second.cmd)
  BY DEF IsReadWrite, IsValid, RWTypes, ReadTypes, WriteTypes
<1> HIDE DEF second
<1>4. \/ /\ IssueSecond(c, first, second) = taken
         /\ IsReadWrite(second.cmd) => IsReadWrite(first.cmd)
      \/ /\ IsValid(second.cmd)
         /\ IssueSecond(c, first, second) = IssueCommand(taken, second.cmd)
  BY <1>2, <1>3 DEF IssueSecond
<1>5. ASSUME IsReadWrite(first.cmd), IsReadWrite(second.cmd), Spaced PROVE FALSE
  <2>1. PICK b \in ControllerType : first.cmd \in IssueType /\ Done(c, b, first.cmd)
    BY <1>5
  <2>2. AccessesSpaced
    BY <1>5 DEF Spaced
  <2>3. Chosen(c.channel_state_, c.cmd_queue_.queues_, second)
    BY <1>1 DEF Choice
  <2>4. PICK q \in QueueIdx : \E i \in DOMAIN c.cmd_queue_.queues_[q] :
          /\ second.cmd = c.cmd_queue_.queues_[q][i]
          /\ c.channel_state_.bank_states_[BankOf(second.cmd.addr)].state_ = "OPEN"
          /\ c.channel_state_.bank_states_[BankOf(second.cmd.addr)].cmd_timing_
               [second.cmd.cmd_type] = 0
    BY <1>5, <2>3 DEF Chosen
  <2>5. second.cmd \in QueueCommands
    <3>1. c.cmd_queue_.queues_[q] \in Seq(QueueCommands)
      BY ControllerFields DEF Sound, Safe, CommandQueueType
    <3>2. PICK i \in DOMAIN c.cmd_queue_.queues_[q] : second.cmd = c.cmd_queue_.queues_[q][i]
      BY <2>4
    <3>3. QED
      BY <3>1, <3>2
  <2>6. BankOf(second.cmd.addr) \in Banks /\ second.cmd.cmd_type \in RWTypes
    BY <2>5, QueueCommandsTyped
  <2>7. QED
    BY <1>5, <2>1, <2>2, <2>4, <2>6, AccessesApart
<1>6. CASE IsValid(second.cmd) /\ IssueSecond(c, first, second) = IssueCommand(taken, second.cmd)
  BY <1>1, <1>6, IssueSound DEF second
<1>7. CASE /\ IssueSecond(c, first, second) = taken
           /\ IsReadWrite(second.cmd) => IsReadWrite(first.cmd)
  <2>1. Spaced => ~IsReadWrite(second.cmd)
    BY <1>5, <1>7
  <2>2. Sound(taken) /\ Clean(taken)
    BY <1>1, <2>1, TakenSound
  <2>3. QED
    BY <1>7, <2>2 DEF second
<1>8. QED
  BY <1>4, <1>6, <1>7

(* The issue phase.                                                        *)
LEMMA IssuePhaseSound ==
    ASSUME NEW c, Sound(c), c.cmd_trace_ = <<>>
    PROVE  Sound(IssuePhase(c)) /\ Clean(IssuePhase(c))
<1> DEFINE first == FirstCommand(c)
           taken == [c EXCEPT !.cmd_queue_ = first.cq]
           issued == IssueCommand(taken, first.cmd)
<1>1. Clean(c)
  BY DEF Clean, Undisturbed, WritesClear
<1>2. Choice(c, first)
  BY FirstChoice
<1> HIDE DEF first
<1>3. IssuePhase(c) = IF ~IsValid(first.cmd) THEN taken
                      ELSE IF issued.exited \/ ~config.enable_hbm_dual_cmd THEN issued
                      ELSE IssueSecond(issued, first,
                             GetCommandToIssue(issued.channel_state_, issued.cmd_queue_))
  BY DEF IssuePhase, IssueFirst, AndSecond, first
<1>4. CASE ~IsValid(first.cmd)
  <2>1. ~IsReadWrite(first.cmd)
    BY <1>4 DEF IsReadWrite, IsValid, RWTypes, ReadTypes, WriteTypes
  <2>2. Sound(taken) /\ Clean(taken)
    BY <1>1, <1>2, <2>1, TakenSound
  <2>3. QED
    BY <1>3, <1>4, <2>2
<1>5. CASE IsValid(first.cmd)
  <2>1. /\ Sound(issued) /\ Clean(issued)
        /\ IsReadWrite(first.cmd) =>
             taken \in ControllerType /\ first.cmd \in IssueType
             /\ Done(issued, taken, first.cmd)
    BY <1>1, <1>2, <1>5, IssueSound
  <2> HIDE DEF issued, taken
  <2>2. config.enable_hbm_dual_cmd =>
          LET d == IssueSecond(issued, first,
                     GetCommandToIssue(issued.channel_state_, issued.cmd_queue_))
          IN Sound(d) /\ Clean(d)
    BY <2>1, IssueSecondSound
  <2>3. QED
    BY <1>3, <1>5, <2>1, <2>2
<1>6. QED
  BY <1>4, <1>5

-----------------------------------------------------------------------------
(* The other phases of a cycle.                                            *)

(* What Sound and Clean say besides Safe depends on these members only.    *)
Alike(d, c) ==
    /\ SameWork(d, c) /\ d.exited = c.exited
    /\ \A b \in Banks : d.channel_state_.bank_states_[b].state_
                        = c.channel_state_.bank_states_[b].state_

(* A step that keeps the queues, the pending requests and the states of    *)
(* the banks.                                                              *)
LEMMA AlikeSound ==
    ASSUME NEW c, Sound(c), NEW d, Safe(d), Alike(d, c) PROVE Sound(d)
<1>1. Linked(d) /\ Ordered(d) /\ (Covered(c) => Covered(d))
  BY SameWorkKeeps DEF Sound, Alike
<1>2. Awake(c.channel_state_) => Awake(d.channel_state_)
  BY DEF Alike, Awake
<1>3. QED
  BY <1>1, <1>2 DEF Sound, Alike

(* A step that keeps the commands of the cycle, the refresh in preparation *)
(* and the pending reads.                                                  *)
LEMMA AlikeClean ==
    ASSUME NEW c, Clean(c), NEW d, d.cmd_trace_ = c.cmd_trace_,
           d.cmd_queue_.is_in_ref_ = c.cmd_queue_.is_in_ref_,
           d.channel_state_.refresh_q_ = c.channel_state_.refresh_q_,
           d.pending_rd_q_ = c.pending_rd_q_
    PROVE  Clean(d)
<1>1. PendingRefCommand(d.channel_state_) = PendingRefCommand(c.channel_state_)
  BY DEF PendingRefCommand
<1>2. QED
  BY <1>1 DEF Clean, Undisturbed, WritesClear, Harmless

(* A cycle begins.                                                         *)
LEMMA RefreshPhaseSound ==
    ASSUME NEW c, Sound(c)
    PROVE  Sound(RefreshPhase(c)) /\ RefreshPhase(c).cmd_trace_ = <<>>
<1> DEFINE d == RefreshPhase(c)
           tick == RefreshClockTick(c.channel_state_, c.refresh_)
<1>1. Safe(c) /\ c \in ControllerType
  BY DEF Sound, Safe
<1>2. /\ Safe(d) /\ SameQueues(d, c)
      /\ d.channel_state_.bank_states_ = c.channel_state_.bank_states_
  BY <1>1, RefreshPhaseSafe
<1>3. d = [c EXCEPT !.channel_state_ = tick.cs, !.refresh_ = tick.rf, !.cmd_trace_ = <<>>]
  BY DEF RefreshPhase
<1> HIDE DEF d, tick
<1>4. /\ d.unified_queue_ = c.unified_queue_ /\ d.exited = c.exited /\ SamePending(d, c)
      /\ d.cmd_trace_ = <<>>
  BY <1>1, <1>3 DEF ControllerType, SamePending
<1>5. Alike(d, c)
  BY <1>2, <1>4 DEF Alike, SameWork, SameQueues
<1>6. QED
  BY <1>2, <1>4, <1>5, AlikeSound DEF d

(* Counting idle cycles.                                                   *)
LEMMA CountIdleSound ==
    ASSUME NEW c, Sound(c), Clean(c)
    PROVE  Sound(CountIdle(c)) /\ Clean(CountIdle(c))
<1> DEFINE d == CountIdle(c)
           idle == d.channel_state_.rank_idle_cycles
<1>1. c \in ControllerType /\ c.channel_state_ \in ChannelStateType
  BY ControllerFields DEF Sound, Safe
<1>2. Safe(d)
  BY CountIdleSafe DEF Sound
<1>3. d = [c EXCEPT !.channel_state_ = [c.channel_state_ EXCEPT !.rank_idle_cycles = idle]]
  BY <1>1 DEF CountIdle, ControllerType, ChannelStateType
<1> HIDE DEF d, idle
<1>4. /\ SameWork(d, c) /\ d.exited = c.exited /\ d.cmd_trace_ = c.cmd_trace_
      /\ d.cmd_queue_ = c.cmd_queue_ /\ d.pending_rd_q_ = c.pending_rd_q_
      /\ d.channel_state_.refresh_q_ = c.channel_state_.refresh_q_
      /\ d.channel_state_.bank_states_ = c.channel_state_.bank_states_
  BY <1>1, <1>3 DEF ControllerType, ChannelStateType, SameWork, SamePending
<1>5. QED
  BY <1>2, <1>4, AlikeSound, AlikeClean DEF Alike, d

(* Calculate_stats changes in_serve only.                                  *)
LEMMA CalculateStatsSound ==
    ASSUME NEW c, Sound(c), Clean(c)
    PROVE  Sound(Calculate_stats(c)) /\ Clean(Calculate_stats(c))
<1> DEFINE d == Calculate_stats(c)
           bs == c.channel_state_.bank_states_
           done == d.channel_state_.bank_states_
<1>1. c \in ControllerType /\ c.channel_state_ \in ChannelStateType /\ bs \in [Banks -> BankType]
  BY ControllerFields DEF Sound, Safe, ChannelStateType
<1>2. Safe(d)
  BY CalculateStatsSafe DEF Sound
<1>3. /\ d = [c EXCEPT !.channel_state_ = [c.channel_state_ EXCEPT !.bank_states_ = done]]
      /\ done = [b \in Banks |-> IF bs[b].serve_end = 0 \/ IsRowClosed(bs[b])
                                 THEN [bs[b] EXCEPT !.in_serve = FALSE] ELSE bs[b]]
  BY <1>1 DEF Calculate_stats, ControllerType, ChannelStateType
<1> HIDE DEF d, done, bs
<1>4. \A b \in Banks : done[b].state_ = bs[b].state_
  BY <1>1, <1>3 DEF BankType
<1>5. /\ SameWork(d, c) /\ d.exited = c.exited /\ d.cmd_trace_ = c.cmd_trace_
      /\ d.cmd_queue_ = c.cmd_queue_ /\ d.pending_rd_q_ = c.pending_rd_q_
      /\ d.channel_state_.refresh_q_ = c.channel_state_.refresh_q_
  BY <1>1, <1>3 DEF ControllerType, ChannelStateType, SameWork, SamePending
<1>6. Alike(d, c)
  BY <1>4, <1>5 DEF Alike, bs, done
<1>7. QED
  BY <1>2, <1>5, <1>6, AlikeSound, AlikeClean DEF d

(* A cycle passes.                                                         *)
LEMMA ElapseSound ==
    ASSUME NEW c, Sound(c), Clean(c) PROVE Sound(Elapse(c)) /\ Clean(Elapse(c))
<1> DEFINE d == Elapse(c)
           cs == c.channel_state_
           bs == cs.bank_states_
<1>1. c \in ControllerType /\ cs \in ChannelStateType /\ bs \in [Banks -> BankType]
  BY ControllerFields DEF Sound, Safe, ChannelStateType
<1>2. Safe(d)
  BY ElapseSafe DEF Sound
<1>3. /\ d.channel_state_ = ChannelElapse(cs) /\ SameWork(d, c) /\ d.exited = c.exited
      /\ d.cmd_trace_ = c.cmd_trace_ /\ d.cmd_queue_ = c.cmd_queue_
      /\ d.pending_rd_q_ = c.pending_rd_q_
  BY <1>1 DEF Elapse, ControllerType, SameWork, SamePending
<1> HIDE DEF d
<1>4. /\ ChannelElapse(cs).refresh_q_ = cs.refresh_q_
      /\ \A b \in Banks : ChannelElapse(cs).bank_states_[b] = BankElapse(bs[b])
  BY <1>1 DEF ChannelElapse, ChannelStateType
<1> HIDE DEF bs
<1>5. \A b \in Banks : BankElapse(bs[b]).state_ = bs[b].state_
  BY <1>1 DEF BankElapse, BankType
<1>6. Alike(d, c)
  BY <1>3, <1>4, <1>5 DEF Alike, bs
<1>7. QED
  BY <1>2, <1>3, <1>4, <1>6, AlikeSound, AlikeClean DEF d

(* What is complete is returned.                                           *)
LEMMA ReturnDoneSound ==
    ASSUME NEW c, Sound(c) PROVE Sound(ReturnDoneTrans(c))
<1> DEFINE d == ReturnDoneTrans(c)
<1>1. c \in ControllerType
  BY DEF Sound, Safe
<1>2. Safe(d)
  BY ReturnDoneSafe DEF Sound
<1>3. SameWork(d, c) /\ d.exited = c.exited /\ d.channel_state_ = c.channel_state_
  BY <1>1 DEF ReturnDoneTrans, ControllerType, SameWork, SamePending
<1> HIDE DEF d
<1>4. QED
  BY <1>2, <1>3, AlikeSound DEF Alike, d

(* A rank enters or leaves self-refresh.                                   *)
LEMMA SelfRefreshSound ==
    ASSUME NEW c, Sound(c), Clean(c)
    PROVE  Sound(SelfRefresh(c)) /\ Clean(SelfRefresh(c))
<1> DEFINE found == {r \in Ranks : IsValid(SelfRefreshCommand(c, r))}
           cmd == SelfRefreshCommand(c, Min(found))
           d == SelfRefresh(c)
<1>1. c \in ControllerType /\ Safe(c) /\ Safe(d)
  BY SelfRefreshSafe DEF Sound, Safe
<1>2. found \in SUBSET Nat /\ found \subseteq Ranks
  BY CountsAssumption DEF Ranks
<1>3. \A r \in found : IsValid(SelfRefreshCommand(c, r))
  OBVIOUS
<1>4. d = IF ~config.enable_self_refresh \/ c.cmd_trace_ # <<>> \/ found = {}
          THEN c ELSE IssueCommand(c, cmd)
  BY DEF SelfRefresh
<1> HIDE DEF found, d
<1>5. CASE ~config.enable_self_refresh \/ c.cmd_trace_ # <<>> \/ found = {}
  BY <1>4, <1>5 DEF d
<1>6. CASE config.enable_self_refresh /\ c.cmd_trace_ = <<>> /\ found # {}
  <2>1. Min(found) \in found
    BY <1>2, <1>6, MinIsLeast
  <2>2. /\ cmd \in Answers /\ ~IsRefresh(cmd) /\ IsValid(cmd)
        /\ cmd.cmd_type \notin RWTypes \cup {"ACTIVATE"}
    BY <1>1, <1>2, <1>3, <2>1, SelfRefreshKind
  <2> HIDE DEF cmd
  <2>3. ~IsReadWrite(cmd) /\ ~IsWrite(cmd)
    BY <2>2 DEF IsReadWrite, IsWrite, RWTypes
  <2>4. IF Refused(c, cmd) THEN d = Exit(c) ELSE cmd \in IssueType /\ Done(d, c, cmd)
    BY <1>1, <1>4, <1>6, <2>2, IssueEffect
  <2>5. SameWork(d, c)
    BY <1>1, <2>3, <2>4, OtherDone, ExitKeeps
  <2>6. Sound(d)
    BY <1>1, <1>6, <2>5, SameWorkKeeps DEF Sound
  <2>7. Clean(d)
    <3>1. CASE Refused(c, cmd)
      BY <1>1, <2>4, <3>1, ExitKeeps
    <3>2. CASE ~Refused(c, cmd)
      <4>1. Harmless(c.channel_state_, c.cmd_queue_, cmd)
        BY <2>2 DEF Harmless
      <4>2. QED
        BY <1>1, <2>2, <2>3, <2>4, <3>2, <4>1, TraceClean DEF Clean
    <3>3. QED
      BY <3>1, <3>2
  <2>8. QED
    BY <2>6, <2>7 DEF d
<1>7. QED
  BY <1>5, <1>6

-----------------------------------------------------------------------------
(* Transactions enter and leave the transaction queues.                    *)

(* d differs from c in the transaction queue of a direction only.          *)
Replaced(d, c, w, queue) ==
    /\ d[QueueFor(w)] = queue
    /\ \A name \in {"unified_queue_", "read_queue_", "write_buffer_"} :
         name # QueueFor(w) => d[name] = c[name]

TransNoRepeats(c) ==
    /\ IsInjective(c.unified_queue_) /\ IsInjective(c.read_queue_)
    /\ IsInjective(c.write_buffer_)

(* The queue that is replaced and the others, seen from any direction.     *)
LEMMA ReplacedQueues ==
    ASSUME NEW c, NEW d, NEW w \in BOOLEAN, NEW queue, Replaced(d, c, w, queue),
           TransNoRepeats(c)
    PROVE  /\ IsInjective(queue) => TransNoRepeats(d)
           /\ IsInjective(c[QueueFor(w)])
           /\ \A v \in BOOLEAN : d[QueueFor(v)] = IF QueueFor(v) = QueueFor(w)
                                                  THEN queue ELSE c[QueueFor(v)]
           /\ d.unified_queue_ = IF config.unified_queue THEN queue ELSE c.unified_queue_
<1>1. \A v \in BOOLEAN : QueueFor(v) \in {"unified_queue_", "read_queue_", "write_buffer_"}
  BY DEF QueueFor
<1>2. QueueFor(w) = "unified_queue_" <=> config.unified_queue
  BY DEF QueueFor
<1>3. QED
  BY <1>1, <1>2 DEF Replaced, TransNoRepeats

(* A transaction leaves its queue.                                         *)
LEMMA WaitingLeaves ==
    ASSUME NEW c \in ControllerType, NEW d, NEW t \in Transactions,
           NEW i \in DOMAIN c[QueueFor(t.is_write)], c[QueueFor(t.is_write)][i] = t,
           TransNoRepeats(c),
           Replaced(d, c, t.is_write, RemoveAt(c[QueueFor(t.is_write)], i))
    PROVE  /\ t \in Waiting(c) /\ Waiting(d) = Waiting(c) \ {t} /\ TransNoRepeats(d)
           /\ \A x, y : Before(c.unified_queue_, x, y) => Before(d.unified_queue_, x, y)
<1> DEFINE w == t.is_write
           old == c[QueueFor(w)]
           new == RemoveAt(old, i)
<1>0. w \in BOOLEAN
  BY DEF Transactions
<1>1. old \in Seq(Transactions)
  BY <1>0, TransQueueTyped
<1>2. /\ IsInjective(old) /\ (IsInjective(new) => TransNoRepeats(d))
      /\ \A v \in BOOLEAN : d[QueueFor(v)] = IF QueueFor(v) = QueueFor(w)
                                             THEN new ELSE c[QueueFor(v)]
      /\ d.unified_queue_ = IF config.unified_queue THEN new ELSE c.unified_queue_
  BY <1>0, ReplacedQueues
<1>4. config.unified_queue => old = c.unified_queue_
  BY DEF QueueFor
<1> HIDE DEF old
<1>5. ToSet(new) = ToSet(old) \ {t} /\ IsInjective(new)
  BY <1>1, <1>2, RemoveSet DEF old
<1>6. t \in ToSet(old)
  BY DEF ToSet, old
<1>7. ASSUME NEW x, NEW y, Before(c.unified_queue_, x, y) PROVE Before(d.unified_queue_, x, y)
  <2>1. CASE config.unified_queue
    <3>1. Before(old, x, y)
      BY <1>4, <1>7, <2>1
    <3>2. Before(new, x, y)
      BY <1>1, <3>1, BeforeRemove DEF old
    <3>3. QED
      BY <1>2, <2>1, <3>2
  <2>2. CASE ~config.unified_queue
    BY <1>2, <1>7, <2>2
  <2>3. QED
    BY <2>1, <2>2
<1> HIDE DEF new, w
<1>8. t \in Waiting(c)
  BY <1>6, WaitingSet DEF old, w
<1>9. ASSUME NEW u \in Transactions
      PROVE  u \in Waiting(d) <=> u \in Waiting(c) /\ u # t
  <2>1. /\ u \in Waiting(c) <=> u \in ToSet(c[QueueFor(u.is_write)])
        /\ u \in Waiting(d) <=> u \in ToSet(d[QueueFor(u.is_write)])
        /\ u.is_write \in BOOLEAN
    BY WaitingSet DEF Transactions
  <2>2. CASE QueueFor(u.is_write) = QueueFor(w)
    BY <1>2, <1>5, <2>1, <2>2 DEF old
  <2>3. CASE QueueFor(u.is_write) # QueueFor(w)
    <3>1. u # t
      BY <2>3 DEF w
    <3>2. QED
      BY <1>2, <2>1, <2>3, <3>1
  <2>4. QED
    BY <2>2, <2>3
<1>10. Waiting(d) = Waiting(c) \ {t}
  BY <1>9 DEF Waiting
<1>11. QED
  BY <1>2, <1>5, <1>7, <1>8, <1>10

(* A transaction enters its queue.                                         *)
LEMMA WaitingEnters ==
    ASSUME NEW c \in ControllerType, NEW d, NEW t \in Transactions, t \notin Waiting(c),
           TransNoRepeats(c),
           Replaced(d, c, t.is_write, Append(c[QueueFor(t.is_write)], t))
    PROVE  /\ Waiting(d) = Waiting(c) \cup {t} /\ TransNoRepeats(d)
           /\ \A x, y : x # y /\ (t = x => y \notin ToSet(c.unified_queue_))
                        /\ Before(c.unified_queue_, x, y) => Before(d.unified_queue_, x, y)
<1> DEFINE w == t.is_write
           old == c[QueueFor(w)]
           new == Append(old, t)
<1>0. w \in BOOLEAN
  BY DEF Transactions
<1>1. old \in Seq(Transactions)
  BY <1>0, TransQueueTyped
<1>2. /\ IsInjective(old) /\ (IsInjective(new) => TransNoRepeats(d))
      /\ \A v \in BOOLEAN : d[QueueFor(v)] = IF QueueFor(v) = QueueFor(w)
                                             THEN new ELSE c[QueueFor(v)]
      /\ d.unified_queue_ = IF config.unified_queue THEN new ELSE c.unified_queue_
  BY <1>0, ReplacedQueues
<1>3. t \notin ToSet(old)
  BY WaitingSet
<1>4. config.unified_queue => old = c.unified_queue_
  BY DEF QueueFor
<1> HIDE DEF old
<1>5. ToSet(new) = ToSet(old) \cup {t} /\ IsInjective(new)
  BY <1>1, <1>2, <1>3, AppendSet
<1>6. ASSUME NEW x, NEW y, x # y, t = x => y \notin ToSet(c.unified_queue_),
             Before(c.unified_queue_, x, y)
      PROVE  Before(d.unified_queue_, x, y)
  <2>1. CASE config.unified_queue
    <3>1. Before(old, x, y) /\ (t = x => y \notin ToSet(old))
      BY <1>4, <1>6, <2>1
    <3>2. Before(new, x, y)
      BY <1>1, <1>6, <3>1, BeforeAppend
    <3>3. QED
      BY <1>2, <2>1, <3>2
  <2>2. CASE ~config.unified_queue
    BY <1>2, <1>6, <2>2
  <2>3. QED
    BY <2>1, <2>2
<1> HIDE DEF new, w
<1>7. ASSUME NEW u \in Transactions
      PROVE  u \in Waiting(d) <=> u \in Waiting(c) \/ u = t
  <2>1. /\ u \in Waiting(c) <=> u \in ToSet(c[QueueFor(u.is_write)])
        /\ u \in Waiting(d) <=> u \in ToSet(d[QueueFor(u.is_write)])
        /\ u.is_write \in BOOLEAN
    BY WaitingSet DEF Transactions
  <2>2. CASE QueueFor(u.is_write) = QueueFor(w)
    BY <1>2, <1>5, <2>1, <2>2 DEF old
  <2>3. CASE QueueFor(u.is_write) # QueueFor(w)
    <3>1. u # t
      BY <2>3 DEF w
    <3>2. QED
      BY <1>2, <2>1, <2>3, <3>1
  <2>4. QED
    BY <2>2, <2>3
<1>8. Waiting(d) = Waiting(c) \cup {t}
  BY <1>7 DEF Waiting
<1>9. QED
  BY <1>2, <1>5, <1>6, <1>8

-----------------------------------------------------------------------------
(* ScheduleTransaction.                                                    *)

With(queues, q, cmd) == [queues EXCEPT ![q] = Append(queues[q], cmd)]

(* A command enters the queue of its bank or rank.                         *)
LEMMA EntryEnters ==
    ASSUME NEW c \in ControllerType, NEW d, NEW t \in Transactions, t \notin Scheduled(c),
           HomeOk(c.cmd_queue_), \A q \in QueueIdx : IsInjective(c.cmd_queue_.queues_[q]),
           d.cmd_queue_.queues_ = With(c.cmd_queue_.queues_,
                                       GetQueueIndex(TransToCommand(t).addr), TransToCommand(t))
    PROVE  /\ Scheduled(d) = Scheduled(c) \cup {t} /\ HomeOk(d.cmd_queue_)
           /\ \A q \in QueueIdx : IsInjective(d.cmd_queue_.queues_[q])
           /\ \A p \in QueueIdx : \A x, y :
                /\ x # y
                /\ TransToCommand(t) = x => y \notin ToSet(c.cmd_queue_.queues_[p])
                /\ Before(c.cmd_queue_.queues_[p], x, y)
                => Before(d.cmd_queue_.queues_[p], x, y)
<1> DEFINE old == c.cmd_queue_.queues_
           new == d.cmd_queue_.queues_
           cmd == TransToCommand(t)
           q == GetQueueIndex(cmd.addr)
<1>1. old \in [QueueIdx -> Seq(QueueCommands)]
  BY ControllerFields DEF CommandQueueType
<1>2. /\ cmd \in QueueCommands /\ q \in QueueIdx
      /\ GetQueueIndex(AddressMapping[t.addr]) = q
  BY CommandOf
<1>3. \A p \in QueueIdx : new[p] = IF p = q THEN Append(old[q], cmd) ELSE old[p]
  BY <1>1, <1>2 DEF With
<1>4. ASSUME NEW u \in Transactions
      PROVE  /\ GetQueueIndex(AddressMapping[u.addr]) \in QueueIdx
             /\ QueueOf(c, u) = old[GetQueueIndex(AddressMapping[u.addr])]
             /\ QueueOf(d, u) = new[GetQueueIndex(AddressMapping[u.addr])]
  BY CommandOf DEF QueueOf
<1>5. old[q] \in Seq(QueueCommands) /\ IsInjective(old[q])
  BY <1>1, <1>2
<1>6. cmd \notin ToSet(old[q])
  BY <1>2, <1>4, WaitingSet
<1>7. HomeOk(c.cmd_queue_) /\ \A p \in QueueIdx : IsInjective(old[p])
  OBVIOUS
<1> HIDE DEF old, new, q
<1>8. ToSet(new[q]) = ToSet(old[q]) \cup {cmd} /\ IsInjective(new[q])
  BY <1>2, <1>3, <1>5, <1>6, AppendSet
<1>9. ASSUME NEW u \in Transactions
      PROVE  u \in Scheduled(d) <=> u \in Scheduled(c) \/ u = t
  <2> DEFINE p == GetQueueIndex(AddressMapping[u.addr])
  <2>1. /\ u \in Scheduled(c) <=> TransToCommand(u) \in ToSet(old[p])
        /\ u \in Scheduled(d) <=> TransToCommand(u) \in ToSet(new[p])
    BY <1>4, WaitingSet
  <2>2. p \in QueueIdx
    BY <1>4
  <2> HIDE DEF p
  <2>3. CASE p # q
    <3>1. u # t
      BY <1>2, <2>3 DEF p
    <3>2. QED
      BY <1>3, <2>1, <2>2, <2>3, <3>1
  <2>4. CASE p = q
    <3>1. TransToCommand(u) = cmd <=> u = t
      BY CommandsDiffer
    <3>2. QED
      BY <1>8, <2>1, <2>4, <3>1
  <2>5. QED
    BY <2>3, <2>4
<1>10. Scheduled(d) = Scheduled(c) \cup {t}
  BY <1>9 DEF Scheduled
<1>11. \A p \in QueueIdx : IsInjective(new[p])
  BY <1>3, <1>7, <1>8
<1>12. HomeOk(d.cmd_queue_)
  <2>1. ASSUME NEW p \in QueueIdx, NEW j \in DOMAIN new[p]
        PROVE  GetQueueIndex(new[p][j].addr) = p
    <3>1. CASE p # q
      BY <1>3, <1>7, <3>1 DEF HomeOk, old
    <3>2. CASE p = q
      <4>1. j \in DOMAIN Append(old[q], cmd) /\ new[p][j] = Append(old[q], cmd)[j]
        BY <1>3, <3>2
      <4>2. new[p][j] = cmd \/ \E k \in DOMAIN old[q] : new[p][j] = old[q][k]
        BY <1>2, <1>5, <4>1, AppendSource
      <4>3. QED
        BY <1>2, <1>7, <3>2, <4>2 DEF HomeOk, old, q
    <3>3. QED
      BY <3>1, <3>2
  <2>2. QED
    BY <2>1 DEF HomeOk, new
<1>13. ASSUME NEW p \in QueueIdx, NEW x, NEW y, x # y, cmd = x => y \notin ToSet(old[p]),
              Before(old[p], x, y)
       PROVE  Before(new[p], x, y)
  <2>1. CASE p # q
    BY <1>3, <1>13, <2>1
  <2>2. CASE p = q
    BY <1>2, <1>3, <1>5, <1>13, <2>2, BeforeAppend
  <2>3. QED
    BY <2>1, <2>2
<1> HIDE DEF cmd
<1>14. QED
  BY <1>10, <1>11, <1>12, <1>13 DEF old, new, cmd

(* The transaction that becomes a command is the oldest of its address     *)
(* in its queue and, among separate queues, a write behind no read.        *)
LEMMA MovesKeep ==
    ASSUME NEW c \in ControllerType, Linked(c), Ordered(c), NEW d, NEW t \in Transactions,
           NEW i \in DOMAIN c[QueueFor(t.is_write)], c[QueueFor(t.is_write)][i] = t,
           \A j \in DOMAIN c[QueueFor(t.is_write)] :
             j < i => c[QueueFor(t.is_write)][j].addr # t.addr,
           ~HasOlderReads(c, t), SamePending(d, c),
           Replaced(d, c, t.is_write, RemoveAt(c[QueueFor(t.is_write)], i)),
           d.cmd_queue_.queues_ = With(c.cmd_queue_.queues_,
                                       GetQueueIndex(TransToCommand(t).addr), TransToCommand(t))
    PROVE  Linked(d) /\ Ordered(d) /\ (Covered(c) => Covered(d))
<1> DEFINE cmd == TransToCommand(t)
           w == t.is_write
<1>1. /\ HomeOk(c.cmd_queue_) /\ TransNoRepeats(c) /\ Backed(c)
      /\ \A q \in QueueIdx : IsInjective(c.cmd_queue_.queues_[q])
  BY DEF Linked, NoRepeats, TransNoRepeats
<1>2. /\ t \in Waiting(c) /\ Waiting(d) = Waiting(c) \ {t} /\ TransNoRepeats(d)
      /\ \A x, y : Before(c.unified_queue_, x, y) => Before(d.unified_queue_, x, y)
  BY <1>1, WaitingLeaves
<1>3. t \in Transactions /\ t \notin Scheduled(c)
  BY <1>1, <1>2 DEF Backed
<1>5. /\ Scheduled(d) = Scheduled(c) \cup {t} /\ HomeOk(d.cmd_queue_)
      /\ \A q \in QueueIdx : IsInjective(d.cmd_queue_.queues_[q])
      /\ \A p \in QueueIdx : \A x, y :
           /\ x # y
           /\ cmd = x => y \notin ToSet(c.cmd_queue_.queues_[p])
           /\ Before(c.cmd_queue_.queues_[p], x, y)
           => Before(d.cmd_queue_.queues_[p], x, y)
  BY <1>1, <1>3, EntryEnters
<1>6. \A j \in DOMAIN c[QueueFor(w)] : j < i => c[QueueFor(w)][j].addr # t.addr
  OBVIOUS
<1>7. ~HasOlderReads(c, t) /\ t.is_write = w
  OBVIOUS
<1>8. config.unified_queue => c[QueueFor(w)] = c.unified_queue_
  BY DEF QueueFor
<1> HIDE DEF w
<1>9. \A u \in Transactions : Pending(d, u) = Pending(c, u)
  BY DEF SamePending, Pending
<1>10. Linked(d)
  <2>1. Backed(d)
    <3>1. Waiting(c) \subseteq Transactions /\ Scheduled(c) \subseteq Transactions
      BY DEF Waiting, Scheduled
    <3>2. QED
      BY <1>1, <1>2, <1>3, <1>5, <1>9, <3>1 DEF Backed, SamePending
  <2>2. QED
    BY <1>2, <1>5, <2>1 DEF Linked, NoRepeats, TransNoRepeats
<1>11. Covered(c) => Covered(d)
  BY <1>2, <1>5, <1>9 DEF Covered
<1>12. ASSUME NEW a \in Addr, ~config.unified_queue, Writing(a) \in Scheduled(d)
       PROVE  d.pending_rd_q_[a] = 0
  <2>1. CASE Writing(a) \in Scheduled(c)
    BY <1>12, <2>1 DEF Ordered, SamePending
  <2>2. CASE Writing(a) = t
    <3>1. t.addr = a /\ t.is_write
      BY <2>2 DEF Writing, Transaction
    <3>2. ~(c.pending_rd_q_[a] > 0) /\ c.pending_rd_q_[a] \in Nat
      BY <1>7, <1>12, <3>1, ControllerFields DEF HasOlderReads
    <3>3. QED
      BY <3>2 DEF SamePending
  <2>3. QED
    BY <1>5, <1>12, <2>1, <2>2
<1>13. ASSUME NEW a \in Addr, config.unified_queue
       PROVE  /\ Before(d.unified_queue_, Reading(a), Writing(a))
              /\ Before(QueueOf(d, Writing(a)), TransToCommand(Reading(a)),
                        TransToCommand(Writing(a)))
              /\ Writing(a) \in Scheduled(d) => Reading(a) \notin Waiting(d)
  <2> DEFINE x == TransToCommand(Reading(a))
             y == TransToCommand(Writing(a))
             p == GetQueueIndex(AddressMapping[a])
  <2>1. /\ Before(c.unified_queue_, Reading(a), Writing(a))
        /\ Before(QueueOf(c, Writing(a)), x, y)
        /\ Writing(a) \in Scheduled(c) => Reading(a) \notin Waiting(c)
    BY <1>13 DEF Ordered
  <2>2. Reading(a) \in Transactions /\ Writing(a) \in Transactions /\ Reading(a) # Writing(a)
        /\ Reading(a).addr = a /\ Writing(a).addr = a
    BY DEF Reading, Writing, Transaction, Transactions
  <2>3. p \in QueueIdx /\ QueueOf(d, Writing(a)) = d.cmd_queue_.queues_[p]
        /\ QueueOf(c, Writing(a)) = c.cmd_queue_.queues_[p]
    BY <2>2, CommandOf DEF QueueOf
  <2>4. x # y
    BY <2>2, CommandsDiffer
  <2>5. cmd = x => y \notin ToSet(c.cmd_queue_.queues_[p])
    <3>1. SUFFICES ASSUME cmd = x, y \in ToSet(c.cmd_queue_.queues_[p]) PROVE FALSE
      OBVIOUS
    <3>2. t = Reading(a)
      BY <1>3, <2>2, <3>1, CommandsDiffer
    <3>3. Writing(a) \in Scheduled(c)
      BY <2>2, <2>3, <3>1, WaitingSet
    <3>4. QED
      BY <1>2, <2>1, <3>2, <3>3
  <2>6. Before(QueueOf(d, Writing(a)), x, y)
    <3> HIDE DEF x, y, p, cmd
    <3>1. QED
      BY <1>5, <2>1, <2>3, <2>4, <2>5
  <2>7. ASSUME t = Writing(a), Reading(a) \in Waiting(c) PROVE FALSE
    <3>1. Reading(a) \in ToSet(c[QueueFor(Reading(a).is_write)])
      BY <2>2, <2>7, WaitingSet
    <3>2. c[QueueFor(Reading(a).is_write)] = c.unified_queue_
      BY <1>13 DEF QueueFor
    <3>3. PICK j \in DOMAIN c.unified_queue_ : c.unified_queue_[j] = Reading(a)
      BY <3>1, <3>2 DEF ToSet
    <3>4. i \in DOMAIN c.unified_queue_ /\ c.unified_queue_[i] = Writing(a)
      BY <1>8, <1>13, <2>7 DEF w
    <3>5. j < i
      BY <2>1, <3>3, <3>4 DEF Before
    <3>6. QED
      BY <1>6, <1>8, <1>13, <2>2, <2>7, <3>3, <3>5
  <2>8. Writing(a) \in Scheduled(d) => Reading(a) \notin Waiting(d)
    BY <1>2, <1>5, <2>1, <2>7
  <2>9. QED
    BY <1>2, <2>1, <2>6, <2>8
<1>14. Ordered(d)
  BY <1>12, <1>13 DEF Ordered
<1>15. QED
  BY <1>10, <1>11, <1>14

(* The scheduling of a cycle.                                              *)
LEMMA ScheduleSound ==
    ASSUME NEW c, Sound(c), Clean(c)
    PROVE  Sound(ScheduleTransaction(c)) /\ Clean(ScheduleTransaction(c))
<1> DEFINE goal == DrainGoal(c)
           which == ScheduledQueue(goal)
           accepted == {i \in DOMAIN c[which] :
             WillAcceptCommand(c.cmd_queue_, AddressMapping[c[which][i].addr])}
           first == Min(accepted)
           t == c[which][first]
           drains == ~config.unified_queue /\ t.is_write
           d == ScheduleTransaction(c)
<1>1. c \in ControllerType /\ DrainOk(c) /\ Safe(d) /\ Linked(c) /\ Ordered(c)
  BY ScheduleSafe DEF Sound, Safe
<1>2. d = IF accepted = {} THEN [c EXCEPT !.write_draining_ = goal]
          ELSE IF HasOlderReads(c, t) THEN [c EXCEPT !.write_draining_ = 0]
          ELSE [ToCommandQueue(c, which, first) EXCEPT
                  !.write_draining_ = IF drains THEN goal - 1 ELSE goal]
  BY DEF ScheduleTransaction
<1>3. which = QueueFor(goal > 0) /\ c[which] \in Seq(Transactions)
  <2>1. which = QueueFor(goal > 0)
    BY DEF ScheduledQueue
  <2>2. which \in {"unified_queue_", "read_queue_", "write_buffer_"}
    BY <2>1 DEF QueueFor
  <2> HIDE DEF which
  <2>3. QED
    BY <1>1, <2>1, <2>2, ControllerFields
<1>4. accepted \in SUBSET Nat /\ accepted \subseteq DOMAIN c[which]
  BY <1>3
<1>5. \A i \in DOMAIN c[which] :
        WillAcceptCommand(c.cmd_queue_, AddressMapping[c[which][i].addr]) => i \in accepted
  OBVIOUS
<1>6. \A i \in accepted : WillAcceptCommand(c.cmd_queue_, AddressMapping[c[which][i].addr])
  OBVIOUS
<1> HIDE DEF goal, which, accepted, d
<1>7. ASSUME NEW n, d = [c EXCEPT !.write_draining_ = n] PROVE Sound(d) /\ Clean(d)
  <2>1. /\ SameWork(d, c) /\ d.exited = c.exited /\ d.cmd_trace_ = c.cmd_trace_
        /\ d.cmd_queue_ = c.cmd_queue_ /\ d.channel_state_ = c.channel_state_
        /\ d.pending_rd_q_ = c.pending_rd_q_
    BY <1>1, <1>7 DEF ControllerType, SameWork, SamePending
  <2>2. QED
    BY <1>1, <2>1, AlikeSound, AlikeClean DEF Alike
<1>8. CASE accepted = {} \/ HasOlderReads(c, t)
  BY <1>2, <1>7, <1>8 DEF d
<1>9. CASE accepted # {} /\ ~HasOlderReads(c, t)
  <2>1. /\ first \in accepted /\ first \in DOMAIN c[which]
        /\ \A j \in accepted : first <= j
    BY <1>4, <1>9, MinIsLeast
  <2> DEFINE cmd == TransToCommand(t)
             q == GetQueueIndex(cmd.addr)
             cq == AddCommand(c.cmd_queue_, cmd)
             n == IF drains THEN goal - 1 ELSE goal
             moved == [c EXCEPT !.cmd_queue_ = cq]
  <2> HIDE DEF first
  <2>2. t \in Transactions /\ t.is_write \in BOOLEAN
    <3>1. t \in Transactions
      BY <1>3, <2>1
    <3>2. QED
      BY <3>1 DEF Transactions
  <2>3. which = QueueFor(t.is_write)
    <3>1. CASE config.unified_queue
      BY <1>3, <3>1 DEF QueueFor
    <3>2. CASE ~config.unified_queue /\ goal > 0
      <4>1. which = "write_buffer_"
        BY <1>3, <3>2 DEF QueueFor
      <4>2. t.is_write
        BY <1>1, <2>1, <4>1 DEF DrainOk
      <4>3. QED
        BY <3>2, <4>1, <4>2 DEF QueueFor
    <3>3. CASE ~config.unified_queue /\ ~(goal > 0)
      <4>1. which = "read_queue_"
        BY <1>3, <3>3 DEF QueueFor
      <4>2. ~t.is_write
        BY <1>1, <2>1, <4>1 DEF DrainOk
      <4>3. QED
        BY <3>3, <4>1, <4>2 DEF QueueFor
    <3>4. QED
      BY <3>1, <3>2, <3>3
  <2>4. \A j \in DOMAIN c[which] : j < first => c[which][j].addr # t.addr
    <3>1. SUFFICES ASSUME NEW j \in DOMAIN c[which], j < first, c[which][j].addr = t.addr
                   PROVE  FALSE
      OBVIOUS
    <3>2. j \in accepted
      BY <1>5, <1>6, <2>1, <3>1
    <3>3. j \in Nat /\ first \in Nat /\ first <= j
      BY <1>3, <2>1, <3>2
    <3>4. QED
      BY <3>1, <3>3
  <2>5. which \in {"unified_queue_", "read_queue_", "write_buffer_"}
    BY <2>3 DEF QueueFor
  <2>6. /\ cq.queues_ = With(c.cmd_queue_.queues_, q, cmd)
        /\ cq.is_in_ref_ = c.cmd_queue_.is_in_ref_
    <3>1. c.cmd_queue_ \in CommandQueueType
      BY <1>1, ControllerFields
    <3>2. QED
      BY <3>1 DEF AddCommand, CommandQueueType, With
  <2> HIDE DEF cq
  <2>7. moved[which] = c[which]
    BY <1>1, <2>5 DEF ControllerType
  <2>8. d = [[moved EXCEPT ![which] = RemoveAt(c[which], first)] EXCEPT !.write_draining_ = n]
    BY <1>2, <1>9, <2>7 DEF ToCommandQueue, cq
  <2> HIDE DEF n, t
  <2>9. /\ d.cmd_queue_ = cq /\ d.channel_state_ = c.channel_state_ /\ d.exited = c.exited
        /\ d.cmd_trace_ = c.cmd_trace_ /\ SamePending(d, c)
        /\ d[which] = RemoveAt(c[which], first)
        /\ \A name \in {"unified_queue_", "read_queue_", "write_buffer_"} :
             name # which => d[name] = c[name]
    BY <1>1, <2>5, <2>8 DEF ControllerType, SamePending
  <2>10. Replaced(d, c, t.is_write, RemoveAt(c[QueueFor(t.is_write)], first))
    BY <2>3, <2>9 DEF Replaced
  <2>11. /\ first \in DOMAIN c[QueueFor(t.is_write)] /\ c[QueueFor(t.is_write)][first] = t
         /\ \A j \in DOMAIN c[QueueFor(t.is_write)] :
              j < first => c[QueueFor(t.is_write)][j].addr # t.addr
    BY <2>1, <2>3, <2>4 DEF t
  <2>12. Linked(d) /\ Ordered(d) /\ (Covered(c) => Covered(d))
    BY <1>1, <1>9, <2>2, <2>6, <2>9, <2>10, <2>11, MovesKeep
  <2>13. Sound(d)
    BY <1>1, <2>9, <2>12 DEF Sound
  <2>14. Clean(d)
    BY <2>6, <2>9, AlikeClean DEF SamePending
  <2>15. QED
    BY <2>13, <2>14 DEF d
<1>10. QED
  BY <1>8, <1>9

-----------------------------------------------------------------------------
(* AddTransaction.                                                         *)

(* One more request is pending.                                            *)
OneMore(d, c, t) ==
    /\ d.pending_rd_q_ = IF t.is_write THEN c.pending_rd_q_
                         ELSE [c.pending_rd_q_ EXCEPT ![t.addr] = c.pending_rd_q_[t.addr] + 1]
    /\ d.pending_wr_q_ = IF t.is_write
                         THEN [c.pending_wr_q_ EXCEPT ![t.addr] = c.pending_wr_q_[t.addr] + 1]
                         ELSE c.pending_wr_q_

(* Which requests are then pending.                                        *)
LEMMA OneMorePending ==
    ASSUME NEW c \in ControllerType, NEW d, NEW t \in Transactions, OneMore(d, c, t)
    PROVE  /\ Pending(d, t) = Pending(c, t) + 1 /\ Pending(c, t) \in Nat
           /\ \A u \in Transactions : u # t => Pending(d, u) = Pending(c, u)
           /\ \A a \in Addr : t # Reading(a) => d.pending_rd_q_[a] = c.pending_rd_q_[a]
           /\ \A a \in Addr : t # Writing(a) => d.pending_wr_q_[a] = c.pending_wr_q_[a]
<1>1. c.pending_rd_q_ \in [Addr -> Nat] /\ c.pending_wr_q_ \in [Addr -> Nat]
  BY ControllerFields
<1>2. t.addr \in Addr /\ t.is_write \in BOOLEAN
  BY DEF Transactions
<1>3. \A a \in Addr : /\ t = Reading(a) <=> t.addr = a /\ ~t.is_write
                      /\ t = Writing(a) <=> t.addr = a /\ t.is_write
  BY <1>2 DEF Transactions, Reading, Writing, Transaction
<1>4. \A a \in Addr :
        /\ d.pending_rd_q_[a] = IF t = Reading(a) THEN c.pending_rd_q_[a] + 1
                                ELSE c.pending_rd_q_[a]
        /\ d.pending_wr_q_[a] = IF t = Writing(a) THEN c.pending_wr_q_[a] + 1
                                ELSE c.pending_wr_q_[a]
  BY <1>1, <1>2, <1>3 DEF OneMore
<1>5. ASSUME NEW u \in Transactions, u # t PROVE Pending(d, u) = Pending(c, u)
  <2>1. /\ u.addr \in Addr /\ u.is_write \in BOOLEAN
        /\ u = IF u.is_write THEN Writing(u.addr) ELSE Reading(u.addr)
    BY DEF Transactions, Reading, Writing, Transaction
  <2>2. QED
    BY <1>4, <1>5, <2>1 DEF Pending
<1>6. Pending(d, t) = Pending(c, t) + 1 /\ Pending(c, t) \in Nat
  BY <1>1, <1>2, <1>3, <1>4 DEF Pending
<1>7. QED
  BY <1>4, <1>5, <1>6

(* A request that is queued on arrival: none was pending for its address   *)
(* and direction, and a read finds no write pending either.                *)
LEMMA ArrivalKeeps ==
    ASSUME NEW c \in ControllerType, Linked(c), Ordered(c), NEW d, NEW t \in Transactions,
           Pending(c, t) = 0, ~t.is_write => c.pending_wr_q_[t.addr] = 0,
           OneMore(d, c, t), d.cmd_queue_ = c.cmd_queue_,
           Replaced(d, c, t.is_write, Append(c[QueueFor(t.is_write)], t))
    PROVE  Linked(d) /\ Ordered(d) /\ (Covered(c) => Covered(d))
<1>1. /\ Pending(d, t) = 1
      /\ \A u \in Transactions : u # t => Pending(d, u) = Pending(c, u)
      /\ \A a \in Addr : t # Reading(a) => d.pending_rd_q_[a] = c.pending_rd_q_[a]
      /\ \A a \in Addr : t # Writing(a) => d.pending_wr_q_[a] = c.pending_wr_q_[a]
  BY OneMorePending
<1>2. /\ HomeOk(c.cmd_queue_) /\ TransNoRepeats(c) /\ Backed(c)
      /\ \A q \in QueueIdx : IsInjective(c.cmd_queue_.queues_[q])
  BY DEF Linked, NoRepeats, TransNoRepeats
<1>3. t \notin Waiting(c) /\ t \notin Scheduled(c)
  BY <1>2 DEF Backed
<1>4. /\ Waiting(d) = Waiting(c) \cup {t} /\ TransNoRepeats(d)
      /\ \A x, y : x # y /\ (t = x => y \notin ToSet(c.unified_queue_))
                   /\ Before(c.unified_queue_, x, y) => Before(d.unified_queue_, x, y)
  BY <1>2, <1>3, WaitingEnters
<1>5. Scheduled(d) = Scheduled(c) /\ HomeOk(d.cmd_queue_)
  BY <1>2, SameScheduled
<1>6. Waiting(c) \subseteq Transactions /\ Scheduled(c) \subseteq Transactions
  BY DEF Waiting, Scheduled
<1>7. Backed(d)
  <2>1. ASSUME NEW a \in Addr PROVE d.pending_wr_q_[a] <= 1
    <3>1. CASE t = Writing(a)
      <4>1. Pending(d, t) = d.pending_wr_q_[a]
        BY <3>1 DEF Pending, Writing, Transaction
      <4>2. QED
        BY <1>1, <4>1
    <3>2. CASE t # Writing(a)
      BY <1>1, <1>2, <3>2 DEF Backed
    <3>3. QED
      BY <3>1, <3>2
  <2>2. ASSUME NEW u \in Waiting(d) \cup Scheduled(d) PROVE Pending(d, u) > 0
    <3>1. CASE u = t
      BY <1>1, <3>1
    <3>2. CASE u # t
      BY <1>1, <1>2, <1>4, <1>5, <1>6, <3>2 DEF Backed
    <3>3. QED
      BY <3>1, <3>2
  <2>3. Waiting(d) \cap Scheduled(d) = {}
    BY <1>2, <1>3, <1>4, <1>5 DEF Backed
  <2>4. QED
    BY <2>1, <2>2, <2>3 DEF Backed
<1>8. Linked(d)
  BY <1>2, <1>4, <1>5, <1>7 DEF Linked, NoRepeats, TransNoRepeats
<1>9. Covered(c) => Covered(d)
  BY <1>1, <1>4, <1>5 DEF Covered
<1>10. ASSUME NEW a \in Addr, t = Reading(a)
       PROVE  Writing(a) \notin Scheduled(c) /\ Writing(a) \notin Waiting(c)
  <2>1. c.pending_wr_q_[a] = 0
    BY <1>10 DEF Reading, Transaction
  <2>2. Pending(c, Writing(a)) = 0
    BY <2>1 DEF Pending, Writing, Transaction
  <2>3. QED
    BY <1>2, <2>2 DEF Backed
<1>11. ASSUME NEW a \in Addr, ~config.unified_queue, Writing(a) \in Scheduled(d)
       PROVE  d.pending_rd_q_[a] = 0
  BY <1>1, <1>5, <1>10, <1>11 DEF Ordered
<1>12. ASSUME NEW a \in Addr, config.unified_queue
       PROVE  /\ Before(d.unified_queue_, Reading(a), Writing(a))
              /\ Before(QueueOf(d, Writing(a)), TransToCommand(Reading(a)),
                        TransToCommand(Writing(a)))
              /\ Writing(a) \in Scheduled(d) => Reading(a) \notin Waiting(d)
  <2>1. /\ Before(c.unified_queue_, Reading(a), Writing(a))
        /\ Before(QueueOf(c, Writing(a)), TransToCommand(Reading(a)),
                  TransToCommand(Writing(a)))
        /\ Writing(a) \in Scheduled(c) => Reading(a) \notin Waiting(c)
    BY <1>12 DEF Ordered
  <2>2. Reading(a) # Writing(a) /\ Writing(a) \in Transactions
    BY DEF Reading, Writing, Transaction, Transactions
  <2>3. t = Reading(a) => Writing(a) \notin ToSet(c.unified_queue_)
    <3>1. c[QueueFor(Writing(a).is_write)] = c.unified_queue_
      BY <1>12 DEF QueueFor
    <3>2. QED
      BY <1>10, <2>2, <3>1, WaitingSet
  <2>4. Before(d.unified_queue_, Reading(a), Writing(a))
    BY <1>4, <2>1, <2>2, <2>3
  <2>5. QueueOf(d, Writing(a)) = QueueOf(c, Writing(a))
    BY DEF QueueOf
  <2>6. Writing(a) \in Scheduled(d) => Reading(a) \notin Waiting(d)
    BY <1>4, <1>5, <1>10, <2>1
  <2>7. QED
    BY <2>1, <2>4, <2>5, <2>6
<1>13. Ordered(d)
  BY <1>11, <1>12 DEF Ordered
<1>14. QED
  BY <1>8, <1>9, <1>13

(* A read that joins the reads pending on its address.                     *)
LEMMA MergeKeeps ==
    ASSUME NEW c \in ControllerType, Linked(c), Ordered(c), NEW d, NEW t \in Transactions,
           ~t.is_write, Pending(c, t) > 0, c.pending_wr_q_[t.addr] = 0,
           OneMore(d, c, t), d.cmd_queue_ = c.cmd_queue_, SameTransQueues(d, c)
    PROVE  Linked(d) /\ Ordered(d) /\ (Covered(c) => Covered(d))
<1>1. /\ Pending(d, t) = Pending(c, t) + 1 /\ Pending(c, t) \in Nat
      /\ \A u \in Transactions : u # t => Pending(d, u) = Pending(c, u)
      /\ \A a \in Addr : t # Reading(a) => d.pending_rd_q_[a] = c.pending_rd_q_[a]
      /\ \A a \in Addr : t # Writing(a) => d.pending_wr_q_[a] = c.pending_wr_q_[a]
  BY OneMorePending
<1>2. HomeOk(c.cmd_queue_) /\ NoRepeats(c) /\ Backed(c)
  BY DEF Linked
<1>3. /\ Waiting(d) = Waiting(c) /\ Scheduled(d) = Scheduled(c)
      /\ Waiting(c) \subseteq Transactions /\ Scheduled(c) \subseteq Transactions
  BY SameWaiting, SameScheduled DEF Waiting, Scheduled
<1>4. Pending(d, t) > 0
  BY <1>1
<1>5. \A a \in Addr : t # Writing(a)
  BY DEF Writing, Transaction
<1>6. Backed(d)
  BY <1>1, <1>2, <1>3, <1>4, <1>5 DEF Backed
<1>7. Linked(d)
  BY <1>2, <1>6 DEF Linked, NoRepeats, SameTransQueues
<1>8. Covered(c) => Covered(d)
  BY <1>1, <1>3 DEF Covered
<1>9. ASSUME NEW a \in Addr, t = Reading(a) PROVE Writing(a) \notin Scheduled(c)
  <2>1. c.pending_wr_q_[a] = 0
    BY <1>9 DEF Reading, Transaction
  <2>2. Pending(c, Writing(a)) = 0
    BY <2>1 DEF Pending, Writing, Transaction
  <2>3. QED
    BY <1>2, <2>2 DEF Backed
<1>10. \A u : QueueOf(d, u) = QueueOf(c, u)
  BY DEF QueueOf
<1>11. Ordered(d)
  BY <1>1, <1>3, <1>9, <1>10 DEF Ordered, SameTransQueues
<1>12. QED
  BY <1>7, <1>8, <1>11

(* A request arrives.                                                      *)
LEMMA AddTransactionSound ==
    ASSUME NEW c, Sound(c), NEW t \in Transactions
    PROVE  Sound(ControllerAddTransaction(c, t))
<1> DEFINE a == t.addr
           w == t.is_write
           d == ControllerAddTransaction(c, t)
           rd == [c EXCEPT !.pending_rd_q_[a] = c.pending_rd_q_[a] + 1]
           wr == [c EXCEPT !.pending_wr_q_[a] = c.pending_wr_q_[a] + 1]
           more == IF w THEN wr ELSE rd
           queued == Enqueue(more, t)
<1>1. c \in ControllerType /\ Safe(c) /\ Safe(d) /\ Linked(c) /\ Ordered(c)
  BY AddTransactionSafe DEF Sound, Safe
<1>2. a \in Addr /\ w \in BOOLEAN /\ t = Transaction(a, w)
  BY DEF Transactions, Transaction
<1>3. c.pending_rd_q_ \in [Addr -> Nat] /\ c.pending_wr_q_ \in [Addr -> Nat]
  BY <1>1, ControllerFields
<1>4. Pending(c, t) = (IF w THEN c.pending_wr_q_[a] ELSE c.pending_rd_q_[a])
      /\ Pending(c, t) \in Nat
  BY <1>2, <1>3 DEF Pending
<1>5. /\ rd.pending_rd_q_[a] = c.pending_rd_q_[a] + 1
      /\ c.pending_rd_q_[a] \in Nat /\ c.pending_wr_q_[a] \in Nat
  BY <1>1, <1>2, <1>3 DEF ControllerType
<1>6. /\ c.pending_wr_q_[a] > 0 => d = Complete(c, a, w, 1, 1)
      /\ w /\ ~(c.pending_wr_q_[a] > 0) => d = Complete(queued, a, TRUE, 1, 1)
      /\ ~w /\ ~(c.pending_wr_q_[a] > 0) =>
           d = IF rd.pending_rd_q_[a] = 1 THEN queued ELSE rd
  <2>1. CASE w
    BY <1>2, <2>1 DEF ControllerAddTransaction, AddWrite
  <2>2. CASE ~w
    <3>1. w = FALSE /\ t = Transaction(a, FALSE)
      BY <1>2, <2>2
    <3>2. QED
      BY <2>2, <3>1 DEF ControllerAddTransaction, AddRead
  <2>3. QED
    BY <2>1, <2>2
<1>7. /\ OneMore(more, c, t) /\ SameTransQueues(more, c) /\ more.cmd_queue_ = c.cmd_queue_
      /\ more.channel_state_ = c.channel_state_ /\ more.exited = c.exited
  BY <1>1, <1>2 DEF ControllerType, OneMore, SameTransQueues
<1>8. more \in ControllerType
  <2>1. c.pending_rd_q_[a] + 1 \in Nat /\ c.pending_wr_q_[a] + 1 \in Nat
    BY <1>5
  <2>2. rd \in ControllerType /\ wr \in ControllerType
    BY <1>1, <1>2, <2>1, PendingTyped
  <2>3. QED
    BY <2>2
<1>9. ~w => more = rd
  OBVIOUS
<1> HIDE DEF more, rd, wr
<1>10. /\ queued \in ControllerType
       /\ OneMore(queued, c, t) /\ queued.cmd_queue_ = c.cmd_queue_
       /\ queued.channel_state_ = c.channel_state_ /\ queued.exited = c.exited
       /\ Replaced(queued, c, w, Append(c[QueueFor(w)], t))
  <2>1. QueueFor(w) \in {"unified_queue_", "read_queue_", "write_buffer_"}
    BY DEF QueueFor
  <2> DEFINE name == QueueFor(w)
  <2>2. queued = [more EXCEPT ![name] = Append(more[name], t)]
    BY DEF Enqueue
  <2>3. more[name] = c[name]
    BY <1>7, <2>1 DEF SameTransQueues
  <2>4. queued \in ControllerType
    BY <1>8, EnqueueTyped
  <2> HIDE DEF queued, name
  <2>5. /\ queued.pending_rd_q_ = more.pending_rd_q_ /\ queued.pending_wr_q_ = more.pending_wr_q_
        /\ queued.cmd_queue_ = more.cmd_queue_ /\ queued.exited = more.exited
        /\ queued.channel_state_ = more.channel_state_
        /\ queued[name] = Append(more[name], t)
        /\ \A other \in {"unified_queue_", "read_queue_", "write_buffer_"} :
             other # name => queued[other] = more[other]
    BY <1>8, <2>1, <2>2 DEF ControllerType, name
  <2>6. Replaced(queued, c, w, Append(c[QueueFor(w)], t))
    BY <1>7, <2>3, <2>5 DEF Replaced, SameTransQueues, name
  <2>7. QED
    BY <1>7, <2>4, <2>5, <2>6 DEF OneMore
<1>11. ASSUME NEW b \in ControllerType, NEW x, d = Complete(b, a, x, 1, 1)
       PROVE  /\ SameWork(d, b) /\ d.exited = b.exited /\ d.channel_state_ = b.channel_state_
  <2>1. d = [b EXCEPT !.return_queue_ = d.return_queue_]
    BY <1>11 DEF Complete, ControllerType
  <2> HIDE DEF d
  <2>2. QED
    BY <2>1 DEF ControllerType, SameWork, SamePending
<1> HIDE DEF queued, d
<1>12. ASSUME Pending(c, t) = 0, ~w => c.pending_wr_q_[a] = 0
       PROVE  Linked(queued) /\ Ordered(queued) /\ (Covered(c) => Covered(queued))
  BY <1>1, <1>10, <1>12, ArrivalKeeps
<1>13. CASE w /\ ~(c.pending_wr_q_[a] > 0)
  <2>1. Linked(queued) /\ Ordered(queued) /\ (Covered(c) => Covered(queued))
    BY <1>4, <1>5, <1>12, <1>13
  <2>2. /\ SameWork(d, queued) /\ d.exited = queued.exited
        /\ d.channel_state_ = queued.channel_state_
    BY <1>6, <1>10, <1>11, <1>13
  <2>3. Linked(d) /\ Ordered(d) /\ (Covered(c) => Covered(d))
    BY <2>1, <2>2, SameWorkKeeps
  <2>4. QED
    BY <1>1, <1>10, <2>2, <2>3 DEF Sound, d
<1>14. CASE c.pending_wr_q_[a] > 0
  <2>1. SameWork(d, c) /\ d.exited = c.exited /\ d.channel_state_ = c.channel_state_
    BY <1>1, <1>6, <1>11, <1>14
  <2>2. QED
    BY <1>1, <2>1, AlikeSound DEF Alike, d
<1>15. CASE ~w /\ ~(c.pending_wr_q_[a] > 0) /\ c.pending_rd_q_[a] = 0
  <2>1. d = queued
    BY <1>5, <1>6, <1>15
  <2>2. Linked(queued) /\ Ordered(queued) /\ (Covered(c) => Covered(queued))
    BY <1>4, <1>5, <1>12, <1>15
  <2>3. QED
    BY <1>1, <1>10, <2>1, <2>2 DEF Sound, d
<1>16. CASE ~w /\ ~(c.pending_wr_q_[a] > 0) /\ c.pending_rd_q_[a] # 0
  <2>1. d = more
    BY <1>5, <1>6, <1>9, <1>16
  <2>2. Pending(c, t) > 0 /\ c.pending_wr_q_[t.addr] = 0 /\ ~t.is_write
    BY <1>4, <1>5, <1>16
  <2>3. Linked(more) /\ Ordered(more) /\ (Covered(c) => Covered(more))
    BY <1>1, <1>7, <2>2, MergeKeeps
  <2>4. QED
    BY <1>1, <1>7, <2>1, <2>3 DEF Sound, d
<1>17. QED
  BY <1>13, <1>14, <1>15, <1>16

-----------------------------------------------------------------------------
(* A whole cycle, and the system.                                          *)

(* Controller::ClockTick keeps a controller sound, and what it issues is   *)
(* clean.                                                                  *)
LEMMA ControllerTickSound ==
    ASSUME NEW c, Sound(c)
    PROVE  Sound(ControllerClockTick(c)) /\ Clean(ControllerClockTick(c))
<1> DEFINE begun == RefreshPhase(c)
           issued == IssuePhase(begun)
           slept == SelfRefresh(CountIdle(issued))
           last == Elapse(ScheduleTransaction(Calculate_stats(slept)))
<1>1. Sound(begun) /\ begun.cmd_trace_ = <<>>
  BY RefreshPhaseSound
<1> HIDE DEF begun
<1>2. Sound(issued) /\ Clean(issued)
  BY <1>1, IssuePhaseSound
<1> HIDE DEF issued
<1>3. Sound(slept) /\ Clean(slept)
  BY <1>2, CountIdleSound, SelfRefreshSound
<1> HIDE DEF slept
<1>4. Sound(last) /\ Clean(last)
  BY <1>3, CalculateStatsSound, ScheduleSound, ElapseSound
<1>5. ControllerClockTick(c) = IF issued.exited THEN issued
                               ELSE IF slept.exited THEN slept ELSE last
  BY DEF ControllerClockTick, PowerPhase, SchedulePhase, slept, issued, begun
<1> HIDE DEF last
<1>6. QED
  BY <1>2, <1>3, <1>4, <1>5

(* A new controller is sound.                                              *)
LEMMA NewControllerSound == Sound(NewController)
<1> DEFINE c == NewController
<1>1. /\ c.unified_queue_ = <<>> /\ c.read_queue_ = <<>> /\ c.write_buffer_ = <<>>
      /\ c.pending_rd_q_ = [a \in Addr |-> 0] /\ c.pending_wr_q_ = [a \in Addr |-> 0]
      /\ c.cmd_queue_.queues_ = [q \in QueueIdx |-> <<>>]
      /\ c.channel_state_ = NewChannelState /\ ~c.exited
  BY DEF NewController, NewCommandQueue
<1>2. Safe(c)
  BY NewControllerSafe
<1> HIDE DEF c
<1>3. Waiting(c) = {}
  BY <1>1 DEF Waiting, InTransQueue, QueueFor
<1>4. \A t \in Transactions : QueueOf(c, t) = <<>>
  BY <1>1, CommandOf DEF QueueOf
<1>5. Scheduled(c) = {}
  BY <1>4 DEF Scheduled, InCommandQueue
<1>6. IsInjective(<<>>)
  BY DEF IsInjective
<1>7. Linked(c)
  <2>1. HomeOk(c.cmd_queue_) /\ NoRepeats(c)
    BY <1>1, <1>6 DEF HomeOk, NoRepeats
  <2>2. Backed(c)
    BY <1>1, <1>3, <1>5 DEF Backed
  <2>3. QED
    BY <2>1, <2>2 DEF Linked
<1>8. Covered(c)
  BY <1>1 DEF Covered, Pending, Transactions
<1>9. Ordered(c)
  <2>1. \A x, y : Before(<<>>, x, y)
    BY DEF Before
  <2>2. \A a \in Addr : Writing(a) \in Transactions
    BY DEF Writing, Transaction, Transactions
  <2>3. QED
    BY <1>1, <1>4, <1>5, <2>1, <2>2 DEF Ordered
<1>10. Awake(c.channel_state_)
  BY <1>1 DEF Awake, NewChannelState, NewBank
<1>11. QED
  BY <1>1, <1>2, <1>7, <1>8, <1>9, <1>10 DEF Sound, c

(* The inductive invariant: every controller is sound.                     *)
AllSound == \A ch \in Channels : Sound(ctrls_[ch])

(* Every step of the system keeps every controller sound.                  *)
THEOREM ControllersStaySound == Spec => []AllSound
<1>1. Init => AllSound
  BY NewControllerSound DEF Init, AllSound
<1>2. TypeOK /\ AllSound /\ [Next]_vars => AllSound'
  <2> SUFFICES ASSUME TypeOK, AllSound, [Next]_vars, NEW ch \in Channels
               PROVE  Sound(ctrls_'[ch])
    BY DEF AllSound
  <2>0. Sound(ctrls_[ch]) /\ ctrls_ \in [Channels -> ControllerType]
    BY DEF AllSound, TypeOK
  <2>1. ASSUME NEW t \in Requests, AddTransaction(t) PROVE Sound(ctrls_'[ch])
    <3>1. t \in Transactions
      BY RequestsAssumption
    <3>2. ctrls_'[ch] = IF ch = GetChannel(t.addr)
                        THEN ControllerAddTransaction(ctrls_[ch], t) ELSE ctrls_[ch]
      BY <2>0, <2>1 DEF AddTransaction
    <3>3. QED
      BY <2>0, <3>1, <3>2, AddTransactionSound
  <2>2. CASE ClockTick
    <3>1. ctrls_'[ch] = ControllerClockTick(ReturnDoneTrans(ctrls_[ch]))
      BY <2>2 DEF ClockTick
    <3>2. QED
      BY <2>0, <3>1, ReturnDoneSound, ControllerTickSound
  <2>3. CASE UNCHANGED vars
    BY <2>0, <2>3 DEF vars
  <2>4. QED
    BY <2>1, <2>2, <2>3 DEF Next
<1>3. QED
  BY <1>1, <1>2, TypeCorrect, PTL DEF Spec

(* Every address belongs to a channel.                                     *)
LEMMA ChannelOf ==
    ASSUME NEW t \in Transactions PROVE GetChannel(t.addr) \in Channels
BY AddrAssumption DEF GetChannel, Transactions

(* For every configuration an address is queued at most once per           *)
(* direction: AddTransaction queues a read only if none is pending, and    *)
(* the entry leaves the transaction queue in the step in which its command *)
(* is made, so that ScheduleTransaction makes no second command.           *)
THEOREM QueuedAtMostOnce == Spec => []QueuedOnce
<1>1. AllSound => QueuedOnce
  <2> SUFFICES ASSUME AllSound, NEW t \in Transactions
               PROVE  LET c == ctrls_[GetChannel(t.addr)]
                          tq == c[QueueFor(t.is_write)]
                          cq == QueueOf(c, t)
                      IN /\ ~(InTransQueue(c, t) /\ InCommandQueue(c, t))
                         /\ \A i, j \in DOMAIN tq : tq[i] = t /\ tq[j] = t => i = j
                         /\ \A i, j \in DOMAIN cq :
                              cq[i] = TransToCommand(t) /\ cq[j] = TransToCommand(t) => i = j
    BY DEF QueuedOnce
  <2> DEFINE c == ctrls_[GetChannel(t.addr)]
             tq == c[QueueFor(t.is_write)]
             cq == QueueOf(c, t)
  <2>1. Linked(c)
    BY ChannelOf DEF AllSound, Sound
  <2> HIDE DEF c
  <2>2. IsInjective(tq)
    BY <2>1 DEF Linked, NoRepeats, QueueFor
  <2>3. IsInjective(cq)
    BY <2>1, CommandOf DEF Linked, NoRepeats, QueueOf
  <2>4. ~(InTransQueue(c, t) /\ InCommandQueue(c, t))
    BY <2>1 DEF Linked, Backed, Waiting, Scheduled
  <2> HIDE DEF tq, cq
  <2>5. /\ \A i, j \in DOMAIN tq : tq[i] = t /\ tq[j] = t => i = j
        /\ \A i, j \in DOMAIN cq :
             cq[i] = TransToCommand(t) /\ cq[j] = TransToCommand(t) => i = j
    BY <2>2, <2>3 DEF IsInjective
  <2>6. QED
    BY <2>4, <2>5 DEF c, tq, cq
<1>2. QED
  BY <1>1, ControllersStaySound, PTL

(* No request is lost and no queue entry is orphaned, unless two commands  *)
(* are issued per cycle under delays that let a second access be ready in  *)
(* the cycle of a first one: ClockTick then drops the second (run          *)
(* DualLoss).                                                              *)
THEOREM NoRequestIsLost ==
    ASSUME Spaced PROVE Spec => []QueuesMatchPending
<1>1. AllSound => QueuesMatchPending
  <2> SUFFICES ASSUME AllSound, NEW t \in Transactions
               PROVE  LET c == ctrls_[GetChannel(t.addr)]
                      IN (Pending(c, t) > 0) <=> (InTransQueue(c, t) \/ InCommandQueue(c, t))
    BY DEF QueuesMatchPending
  <2> DEFINE c == ctrls_[GetChannel(t.addr)]
  <2>1. Linked(c) /\ Covered(c)
    BY ChannelOf DEF AllSound, Sound
  <2> HIDE DEF c
  <2>2. (Pending(c, t) > 0) <=> (InTransQueue(c, t) \/ InCommandQueue(c, t))
    BY <2>1 DEF Linked, Backed, Covered, Waiting, Scheduled
  <2>3. QED
    BY <2>2 DEF c
<1>2. QED
  BY <1>1, ControllersStaySound, PTL

(* What a ClockTick leaves in a controller, in the form the action         *)
(* properties speak of it.                                                 *)
LEMMA TickIsClean ==
    ASSUME AllSound, ClockTick, NEW ch \in Channels PROVE Clean(ctrls_'[ch])
<1>1. Sound(ReturnDoneTrans(ctrls_[ch]))
  BY ReturnDoneSound DEF AllSound
<1>2. ctrls_'[ch] = ControllerClockTick(ReturnDoneTrans(ctrls_[ch]))
  BY DEF ClockTick
<1>3. QED
  BY <1>1, <1>2, ControllerTickSound

(* No WRITE reaches a bank while a read accepted before it is pending on   *)
(* its address, with unified and with separate queues, under the same      *)
(* condition: a read that ClockTick has dropped stays pending for ever.    *)
THEOREM WritesNeverPassReads ==
    ASSUME Spaced PROVE Spec => NoWritePassesRead
<1>1. AllSound /\ [Next]_vars =>
        [ClockTick => \A ch \in Channels : \A cmd \in Issued(ch)' :
           IsWrite(cmd) => ctrls_'[ch].pending_rd_q_[cmd.hex_addr] = 0]_vars
  <2> SUFFICES ASSUME AllSound, ClockTick, NEW ch \in Channels, NEW cmd \in Issued(ch)',
                      IsWrite(cmd)
               PROVE  ctrls_'[ch].pending_rd_q_[cmd.hex_addr] = 0
    OBVIOUS
  <2>1. WritesClear(ctrls_'[ch])
    BY TickIsClean DEF Clean
  <2>2. PICK i \in DOMAIN ctrls_'[ch].cmd_trace_ : cmd = ctrls_'[ch].cmd_trace_[i]
    BY DEF Issued
  <2>3. QED
    BY <2>1, <2>2 DEF WritesClear
<1>2. QED
  BY <1>1, ControllersStaySound, PTL DEF Spec, NoWritePassesRead

(* While a refresh is prepared none of its banks is opened or accessed,    *)
(* under every refresh policy and queue structure and also by the second   *)
(* command of a cycle.                                                     *)
THEOREM RefreshIsNeverDisturbed == Spec => RefreshNotDisturbed
<1>1. AllSound /\ [Next]_vars =>
        [ClockTick => \A ch \in Channels :
           LET cs == ctrls_'[ch].channel_state_
           IN ctrls_'[ch].cmd_queue_.is_in_ref_ /\ IsRefreshWaiting(cs) =>
                \A cmd \in Issued(ch)' :
                  cmd.cmd_type \in RWTypes \cup {"ACTIVATE"} =>
                    BankOf(cmd.addr) \notin Targets(PendingRefCommand(cs))]_vars
  <2> SUFFICES ASSUME AllSound, ClockTick, NEW ch \in Channels, NEW cmd \in Issued(ch)',
                      ctrls_'[ch].cmd_queue_.is_in_ref_,
                      cmd.cmd_type \in RWTypes \cup {"ACTIVATE"}
               PROVE  BankOf(cmd.addr)
                        \notin Targets(PendingRefCommand(ctrls_'[ch].channel_state_))
    OBVIOUS
  <2>1. Undisturbed(ctrls_'[ch])
    BY TickIsClean DEF Clean
  <2>2. PICK i \in DOMAIN ctrls_'[ch].cmd_trace_ : cmd = ctrls_'[ch].cmd_trace_[i]
    BY DEF Issued
  <2>3. QED
    BY <2>1, <2>2 DEF Undisturbed, Harmless
<1>2. QED
  BY <1>1, ControllersStaySound, PTL DEF Spec, RefreshNotDisturbed

(* Without self-refresh no sequence of requests and refreshes drives a     *)
(* controller into exit(1) or AbruptExit.  With it the first command for a *)
(* sleeping rank does: a bank in self-refresh has no answer to SREF_EXIT.  *)
THEOREM AwakeSystemNeverExits ==
    ASSUME ~config.enable_self_refresh PROVE Spec => []NoErrorExit
<1>1. AllSound => NoErrorExit
  BY DEF AllSound, Sound, NoErrorExit, Running
<1>2. QED
  BY <1>1, ControllersStaySound, PTL
=============================================================================
