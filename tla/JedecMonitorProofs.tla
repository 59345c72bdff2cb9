-------------------------- MODULE JedecMonitorProofs --------------------------
(***************************************************************************)
(* What goes over the buses of a channel, for every configuration.         *)
(*                                                                         *)
(* The cycle of a controller is reduced to what its banks see of it: no    *)
(* command, one, or two of which just one is an access, each accepted by   *)
(* its banks and held back by their timers until then (Ran), and then a    *)
(* cycle less to wait (Aged); TickRuns says so of ControllerClockTick.     *)
(* From there three properties follow bank by bank: the row hits that      *)
(* PhaseStats counts are real, banks recover from their accesses before    *)
(* they are opened, refreshed or put to sleep, and the bursts on the data  *)
(* bus never meet.                                                         *)
(***************************************************************************)
EXTENDS JedecQueueProofs, TimingMonitor

-----------------------------------------------------------------------------
(* The commands of a cycle, one after the other.                           *)

(* The timers let the command go out now.  A SREF_EXIT for an access is    *)
(* held back by the timer of one bank of the rank only.                    *)
OnTime(cs, cmd) ==
    cmd.cmd_type # "SREF_EXIT" =>
        \A b \in Targets(cmd) : cs.bank_states_[b].cmd_timing_[cmd.cmd_type] = 0

(* What a bank answers has waited for its timer.                           *)
LEMMA BankAnswerOnTime ==
    ASSUME NEW b, NEW cmd
    PROVE  LET r == BankGetReadyCommand(b, cmd)
           IN \/ r = NoCommand
              \/ r = AbruptExit
              \/ /\ r = Command(RequiredType(b, cmd), cmd.addr, cmd.hex_addr, cmd.cmd_type)
                 /\ b.cmd_timing_[r.cmd_type] = 0
BY DEF BankGetReadyCommand, Command

(* A bank asked for a command that is not for its rank wakes the rank or   *)
(* answers for itself; asked for one that is, it answers with that command *)
(* or for itself.                                                          *)
LEMMA RequiredRank ==
    ASSUME NEW b \in BankType, NEW cmd \in Askable
    PROVE  LET t == RequiredType(b, cmd)
           IN IF IsRankCMD(cmd) THEN t \in {cmd.cmd_type, "PRECHARGE", "EXIT"}
              ELSE t \notin RankTypes \ {"SREF_EXIT"}
<1> DEFINE ct == cmd.cmd_type
<1>1. ct \in RWTypes \cup RankTypes \cup {"REFRESH_BANK"}
  BY AskableTyped
<1>2. CASE IsRankCMD(cmd)
  BY <1>2 DEF IsRankCMD, RankTypes, RequiredType, RWTypes, ReadTypes, WriteTypes
<1>3. CASE ~IsRankCMD(cmd)
  BY <1>1, <1>3 DEF IsRankCMD, RankTypes, RequiredType, RWTypes, ReadTypes, WriteTypes
<1>4. QED
  BY <1>2, <1>3

(* Every command the channel answers with is on time for all its banks.    *)
LEMMA AnswerOnTime ==
    ASSUME NEW cs \in ChannelStateType, NEW ask \in Askable
    PROVE  LET r == ChannelGetReadyCommand(cs, ask)
           IN IsValid(r) /\ ~IsExit(r) => OnTime(cs, r)
<1> DEFINE r == ChannelGetReadyCommand(cs, ask)
<1> SUFFICES ASSUME IsValid(r), ~IsExit(r), r.cmd_type # "SREF_EXIT", NEW x \in Targets(r)
             PROVE  cs.bank_states_[x].cmd_timing_[r.cmd_type] = 0
  BY DEF OnTime
<1>1. /\ cs.bank_states_ \in [Banks -> BankType]
      /\ ask.addr.rank \in Ranks
      /\ ~IsRankCMD(ask) => BankOf(ask.addr) \in Banks
  BY AskableTyped DEF ChannelStateType, CommandRecord, AddressType
<1>2. CASE ~IsRankCMD(ask)
  <2> DEFINE b == cs.bank_states_[BankOf(ask.addr)]
             ans == BankGetReadyCommand(b, ask)
             t == RequiredType(b, ask)
  <2>1. r = NoCommand \/ r = ans
    BY <1>2 DEF ChannelGetReadyCommand
  <2>2. t \notin RankTypes \ {"SREF_EXIT"}
    BY <1>1, <1>2, RequiredRank
  <2>3. \/ ans = NoCommand
        \/ ans = AbruptExit
        \/ ans = Command(t, ask.addr, ask.hex_addr, ask.cmd_type)
           /\ b.cmd_timing_[ans.cmd_type] = 0
    BY BankAnswerOnTime
  <2> HIDE DEF ans, r, t
  <2>4. r = Command(t, ask.addr, ask.hex_addr, ask.cmd_type) /\ b.cmd_timing_[r.cmd_type] = 0
    BY <2>1, <2>3 DEF IsValid, IsExit, NoCommand, AbruptExit, Command, r
  <2>5. r.cmd_type = t /\ r.addr = ask.addr
    BY <2>4 DEF Command
  <2>6. x = BankOf(ask.addr)
    BY <2>2, <2>5 DEF Targets, IsRankCMD, r
  <2>7. QED
    BY <2>4, <2>6 DEF r
<1>3. CASE IsRankCMD(ask)
  <2> DEFINE rank == ask.addr.rank
             Bank(k) == cs.bank_states_[RankBank(rank, k)]
             ready == [k \in 1 .. banks |-> BankGetReadyCommand(Bank(k), ask)]
             decisive == {k \in 1 .. banks :
                            IsValid(ready[k]) /\ ready[k].cmd_type # ask.cmd_type}
             least == Min(decisive)
             b == RankBank(rank, least)
  <2>1. ASSUME NEW k \in 1 .. banks
        PROVE  /\ RankBank(rank, k) \in Banks
               /\ \/ ready[k] = NoCommand
                  \/ ready[k] = AbruptExit
                  \/ /\ ready[k].cmd_type \in {ask.cmd_type, "PRECHARGE"}
                     /\ ready[k] = Command(ready[k].cmd_type, ask.addr, ask.hex_addr, ask.cmd_type)
                     /\ Bank(k).cmd_timing_[ready[k].cmd_type] = 0
    <3>1. RankBank(rank, k) \in Banks
      BY <1>1, RankBankIsBank
    <3>2. Bank(k) \in BankType
      BY <1>1, <3>1
    <3> DEFINE bk == Bank(k)
               ans == BankGetReadyCommand(bk, ask)
    <3>3. RequiredType(bk, ask) \in {ask.cmd_type, "PRECHARGE", "EXIT"}
      BY <1>3, <3>2, RequiredRank
    <3>4. ans = AbruptExit \/ RequiredType(bk, ask) # "EXIT"
      BY DEF BankGetReadyCommand
    <3>5. \/ ans = NoCommand
          \/ ans = AbruptExit
          \/ ans = Command(RequiredType(bk, ask), ask.addr, ask.hex_addr, ask.cmd_type)
             /\ bk.cmd_timing_[ans.cmd_type] = 0
      BY BankAnswerOnTime
    <3>6. ready[k] = ans
      OBVIOUS
    <3> HIDE DEF ans, bk, ready
    <3>7. ans # NoCommand /\ ans # AbruptExit => ans.cmd_type = RequiredType(bk, ask)
      BY <3>5 DEF Command
    <3>8. QED
      BY <3>1, <3>3, <3>4, <3>5, <3>6, <3>7 DEF bk
  <2>2. r = RankDecides(ask, ready)
    BY <1>3 DEF ChannelGetReadyCommand, RankGetReadyCommand
  <2> HIDE DEF ready, r
  <2>3. CASE decisive # {}
    <3>0. decisive \in SUBSET Nat /\ decisive \subseteq 1 .. banks
          /\ \A k \in decisive : IsValid(ready[k]) /\ ready[k].cmd_type # ask.cmd_type
      OBVIOUS
    <3>1. r = IF IsExit(ready[least]) THEN AbruptExit
              ELSE [ready[least] EXCEPT !.addr = Address(rank, b[2], b[3], -1, -1)]
      BY <2>2, <2>3 DEF RankDecides
    <3> HIDE DEF decisive
    <3>2. least \in decisive
      BY <2>3, <3>0, MinIsLeast
    <3> HIDE DEF least
    <3>3. least \in 1 .. banks /\ IsValid(ready[least])
          /\ ready[least].cmd_type # ask.cmd_type
      BY <3>0, <3>2
    <3>4. ~IsExit(ready[least])
      BY <3>1 DEF IsExit, AbruptExit, Command, r
    <3>5. /\ ready[least].cmd_type = "PRECHARGE"
          /\ ready[least] = Command("PRECHARGE", ask.addr, ask.hex_addr, ask.cmd_type)
          /\ Bank(least).cmd_timing_["PRECHARGE"] = 0
      <4>1. ready[least] # NoCommand /\ ready[least] # AbruptExit
        BY <3>3, <3>4 DEF IsValid, IsExit, NoCommand, AbruptExit, Command
      <4>2. QED
        BY <2>1, <3>3, <4>1
    <3>6. r.cmd_type = "PRECHARGE" /\ r.addr = Address(rank, b[2], b[3], -1, -1)
      BY <3>1, <3>4, <3>5 DEF Command
    <3>7. b = <<rank, b[2], b[3]>>
      BY DEF RankBank
    <3>8. BankOf(r.addr) = b
      BY <3>6, <3>7 DEF BankOf, Address
    <3>9. x = b
      BY <3>6, <3>8 DEF Targets, IsRankCMD, RankTypes, r
    <3>10. QED
      BY <3>5, <3>6, <3>9 DEF r
  <2>4. CASE decisive = {}
    <3>1. r = IF \A k \in 1 .. banks : IsValid(ready[k])
              THEN Command(ask.cmd_type, ask.addr, ask.hex_addr, ask.cmd_type)
              ELSE NoCommand
      BY <2>2, <2>4 DEF RankDecides
    <3>2. \A k \in 1 .. banks : IsValid(ready[k])
      BY <3>1 DEF IsValid, NoCommand, Command, r
    <3>3. r.cmd_type = ask.cmd_type /\ r.addr = ask.addr
      BY <3>1, <3>2 DEF Command
    <3>4. x \in Banks /\ x[1] = rank
      BY <1>3, <3>3 DEF Targets, IsRankCMD, r
    <3>5. PICK k \in 1 .. banks : RankBank(x[1], k) = x
      BY <3>4, RankBankReaches
    <3>6. ready[k].cmd_type = ask.cmd_type /\ ready[k] # NoCommand
      BY <2>4, <3>2 DEF IsValid, NoCommand, Command
    <3>7. ready[k] # AbruptExit
      BY <3>3, <3>6 DEF IsExit, AbruptExit, Command, r
    <3>8. Bank(k).cmd_timing_[ask.cmd_type] = 0
      BY <2>1, <3>6, <3>7
    <3>9. QED
      BY <3>3, <3>4, <3>5, <3>8 DEF r
  <2>5. QED
    BY <2>3, <2>4
<1>4. QED
  BY <1>2, <1>3

(* What goes out of the queues has waited for its timers.                  *)
LEMMA QueueOnTime ==
    ASSUME NEW cs \in ChannelStateType, NEW cq \in CommandQueueType, HomeOk(cq),
           \A q \in QueueIdx : IsInjective(cq.queues_[q]),
           NEW got, got = GetCommandToIssue(cs, cq), IsValid(got.cmd), ~IsExit(got.cmd)
    PROVE  OnTime(cs, got.cmd)
<1>1. PICK q \in QueueIdx : \E i \in DOMAIN cq.queues_[q] : TakenFrom(cs, cq, got, q, i)
  BY GetCommandSource DEF Offered
<1>2. PICK i \in DOMAIN cq.queues_[q] : TakenFrom(cs, cq, got, q, i)
  BY <1>1
<1>3. cq.queues_[q][i] \in Askable
  BY DEF CommandQueueType, Askable
<1>4. QED
  BY <1>2, <1>3, AnswerOnTime DEF TakenFrom

(* So has the first command of a cycle, be it for a refresh or not.        *)
LEMMA FirstOnTime ==
    ASSUME NEW c, Sound(c), IsValid(FirstCommand(c).cmd), ~IsExit(FirstCommand(c).cmd)
    PROVE  OnTime(c.channel_state_, FirstCommand(c).cmd)
<1> DEFINE cs == c.channel_state_
           cq == c.cmd_queue_
           refresh == IF IsRefreshWaiting(cs) THEN FinishRefresh(cs, cq)
                      ELSE [cmd |-> NoCommand, cq |-> cq]
           got == GetCommandToIssue(cs, refresh.cq)
           first == FirstCommand(c)
<1>1. /\ cs \in ChannelStateType /\ cq \in CommandQueueType /\ HomeOk(cq)
      /\ \A q \in QueueIdx : IsInjective(cq.queues_[q])
  BY ControllerFields DEF Sound, Safe, Linked, NoRepeats
<1>2. first = IF IsValid(refresh.cmd) THEN refresh ELSE got
  BY DEF FirstCommand, OrFromQueues
<1>3. ~IsValid(NoCommand)
  BY DEF IsValid, NoCommand, Command
<1>4. refresh.cq \in CommandQueueType /\ refresh.cq.queues_ = cq.queues_
  BY <1>1, FinishRefreshTyped, FinishRefreshSource
<1>5. IsValid(refresh.cmd) => /\ refresh.cmd = ChannelGetReadyCommand(cs, PendingRefCommand(cs))
                              /\ PendingRefCommand(cs) \in RefreshCommands
  BY <1>1, <1>3, FinishRefreshSource
<1> HIDE DEF refresh, cs, first
<1>6. CASE IsValid(refresh.cmd)
  BY <1>1, <1>2, <1>5, <1>6, AnswerOnTime DEF Askable, cs, first
<1>7. CASE ~IsValid(refresh.cmd)
  <2>1. HomeOk(refresh.cq) /\ \A q \in QueueIdx : IsInjective(refresh.cq.queues_[q])
    BY <1>1, <1>4 DEF HomeOk
  <2>2. IsValid(got.cmd) /\ ~IsExit(got.cmd)
    BY <1>2, <1>7 DEF first
  <2> HIDE DEF cq
  <2>3. OnTime(cs, got.cmd)
    <3> DEFINE given == GetCommandToIssue(cs, refresh.cq)
    <3>1. IsValid(given.cmd) /\ ~IsExit(given.cmd)
      BY <2>2
    <3> HIDE DEF given
    <3>2. OnTime(cs, given.cmd)
      BY <1>1, <1>4, <2>1, <3>1, QueueOnTime DEF given
    <3>3. QED
      BY <3>2 DEF given
  <2>4. QED
    BY <1>2, <1>7, <2>3 DEF cs, first
<1>8. QED
  BY <1>6, <1>7

(* So have the commands that put a rank to sleep.                          *)
LEMMA SleepOnTime ==
    ASSUME NEW c \in ControllerType, NEW r \in Ranks
    PROVE  LET cmd == SelfRefreshCommand(c, r)
           IN IsValid(cmd) /\ ~IsExit(cmd) => OnTime(c.channel_state_, cmd)
<1> DEFINE Rank(type) == Command(type, Address(r, -1, -1, -1, -1), -1, type)
           cmd == SelfRefreshCommand(c, r)
           cs == c.channel_state_
<1>1. Rank("SREF_EXIT") \in Askable /\ Rank("SREF_ENTER") \in Askable
  BY DEF Askable, SelfRefreshCommands
<1>2. \/ cmd = ChannelGetReadyCommand(cs, Rank("SREF_EXIT"))
      \/ cmd = ChannelGetReadyCommand(cs, Rank("SREF_ENTER"))
      \/ cmd = NoCommand
  BY DEF SelfRefreshCommand
<1>3. cs \in ChannelStateType /\ ~IsValid(NoCommand)
  BY ControllerFields DEF IsValid, NoCommand, Command
<1> HIDE DEF Rank, cmd
<1>4. QED
  BY <1>1, <1>2, <1>3, AnswerOnTime DEF cmd

-----------------------------------------------------------------------------
(* What a command does to the state and the timers of a bank.              *)

BankMoved(new, old, cmd, b) ==
    /\ old \in BankType /\ new \in BankType
    /\ \A u \in CommandType :
         /\ new.cmd_timing_[u] >= old.cmd_timing_[u]
         /\ u \in DOMAIN TimingRow(cmd, b) => new.cmd_timing_[u] >= TimingRow(cmd, b)[u]
    /\ IF b \in Targets(cmd)
       THEN /\ BankAccepts(old, cmd.cmd_type)
            /\ cmd.cmd_type # "SREF_EXIT" => old.cmd_timing_[cmd.cmd_type] = 0
            /\ new.state_ = BankUpdateState(old, cmd).state_
            /\ new.row_hit_count_ = BankUpdateState(old, cmd).row_hit_count_
       ELSE new.state_ = old.state_ /\ new.row_hit_count_ = old.row_hit_count_

(* The accesses of a page policy.                                          *)
ClosePage == config.row_buf_policy = "CLOSE_PAGE"

ByPolicy(cmd) ==
    IsReadWrite(cmd) =>
        (cmd.cmd_type \in {"READ_PRECHARGE", "WRITE_PRECHARGE"} <=> ClosePage)

(* A command that goes out, between the banks before and after it.         *)
Moved(after, before, cmd) ==
    /\ cmd \in IssueType /\ ByPolicy(cmd)
    /\ \A b \in Banks : BankMoved(after[b], before[b], cmd, b)

(* The commands that are seen went out one after the other, no two of them *)
(* accesses.                                                               *)
Ran(after, before, seen) ==
    \/ seen = {} /\ after = before
    \/ \E cmd : seen = {cmd} /\ Moved(after, before, cmd)
    \/ \E first, second, between :
         /\ config.enable_hbm_dual_cmd
         /\ seen = {first, second} /\ IsReadWrite(first) # IsReadWrite(second)
         /\ Moved(between, before, first) /\ Moved(after, between, second)

(* A command that goes out moves the banks.                                *)
LEMMA DoneMoves ==
    ASSUME NEW c \in ControllerType, NEW d \in ControllerType, NEW cmd \in IssueType,
           Done(d, c, cmd), ChannelAccepts(c.channel_state_, cmd),
           OnTime(c.channel_state_, cmd), ByPolicy(cmd)
    PROVE  Moved(d.channel_state_.bank_states_, c.channel_state_.bank_states_, cmd)
<1> SUFFICES ASSUME NEW b \in Banks
             PROVE  BankMoved(d.channel_state_.bank_states_[b],
                              c.channel_state_.bank_states_[b], cmd, b)
  BY DEF Moved
<1> DEFINE cs == c.channel_state_
           old == cs.bank_states_[b]
           upd == IF b \in Targets(cmd) THEN BankUpdateState(old, cmd) ELSE old
           mid == UpdateTimingAndStates(cs, cmd).bank_states_[b]
           new == d.channel_state_.bank_states_[b]
           row == TimingRow(cmd, b)
<1>1. cs \in ChannelStateType /\ old \in BankType /\ new \in BankType
  BY ControllerFields DEF ChannelStateType
<1>2. new.state_ = mid.state_ /\ new.cmd_timing_ = mid.cmd_timing_
      /\ new.row_hit_count_ = mid.row_hit_count_
  BY DEF Done, SameBanks
<1>3. mid = BankUpdateTiming(upd, row)
  BY <1>1, UpdateBanks
<1>4. upd \in BankType /\ upd.cmd_timing_ = old.cmd_timing_
  <2>1. upd \in BankType
    BY <1>1, BankUpdateStateTyped
  <2> HIDE DEF old
  <2>2. BankUpdateState(old, cmd).cmd_timing_ = old.cmd_timing_
    BY <1>1 DEF BankUpdateState, BankType
  <2>3. QED
    BY <2>1, <2>2
<1>5. b \in Targets(cmd) =>
        /\ BankAccepts(old, cmd.cmd_type)
        /\ cmd.cmd_type # "SREF_EXIT" => old.cmd_timing_[cmd.cmd_type] = 0
  BY DEF ChannelAccepts, OnTime
<1>6. \A u \in DOMAIN row : row[u] \in Int
  BY RowsOfTables
<1> HIDE DEF mid, row, new, old, cs
<1>7. ASSUME NEW u \in CommandType
      PROVE  /\ new.cmd_timing_[u] >= old.cmd_timing_[u]
             /\ u \in DOMAIN row => new.cmd_timing_[u] >= row[u]
  <2> HIDE DEF upd
  <2>1. new.cmd_timing_[u] = IF u \in DOMAIN row THEN Later(old.cmd_timing_[u], row[u])
                             ELSE old.cmd_timing_[u]
    BY <1>2, <1>3, <1>4 DEF BankUpdateTiming, BankType
  <2>2. old.cmd_timing_[u] \in Nat
    BY <1>1 DEF BankType
  <2>3. QED
    BY <1>6, <2>1, <2>2 DEF Later
<1>8. new.state_ = upd.state_ /\ new.row_hit_count_ = upd.row_hit_count_
  <2> HIDE DEF upd
  <2>1. mid.state_ = upd.state_ /\ mid.row_hit_count_ = upd.row_hit_count_
    BY <1>3, <1>4 DEF BankUpdateTiming, BankType
  <2>2. QED
    BY <1>2, <2>1
<1>9. CASE b \in Targets(cmd)
  <2>1. upd = BankUpdateState(old, cmd)
    BY <1>9
  <2> HIDE DEF upd
  <2>2. QED
    BY <1>1, <1>5, <1>7, <1>8, <1>9, <2>1 DEF BankMoved, new, old, cs, row
<1>10. CASE b \notin Targets(cmd)
  <2>1. upd = old
    BY <1>10
  <2> HIDE DEF upd
  <2>2. QED
    BY <1>1, <1>7, <1>8, <1>10, <2>1 DEF BankMoved, new, old, cs, row
<1>11. QED
  BY <1>9, <1>10

-----------------------------------------------------------------------------
(* The cycle as a run of at most two commands.                             *)

LEMMA SeenGrows ==
    ASSUME NEW c \in ControllerType, NEW d, NEW cmd \in IssueType, Done(d, c, cmd)
    PROVE  Seen(d) = Seen(c) \cup {cmd}
<1> DEFINE s == c.cmd_trace_
<1>1. s \in Seq(IssueType) /\ d.cmd_trace_ = Append(s, cmd)
  BY ControllerFields DEF Done
<1> HIDE DEF s
<1>2. ToSet(Append(s, cmd)) = ToSet(s) \cup {cmd}
  BY <1>1, AppendSet
<1>3. Seen(d) = ToSet(Append(s, cmd)) /\ Seen(c) = ToSet(s)
  BY <1>1 DEF Seen, ToSet, s
<1>4. QED
  BY <1>2, <1>3

(* The banks of a channel.                                                 *)
BanksOf(c) == c.channel_state_.bank_states_

LEMMA BanksTyped ==
    ASSUME NEW c \in ControllerType PROVE BanksOf(c) \in [Banks -> BankType]
BY ControllerFields DEF BanksOf, ChannelStateType

LEMMA ChosenByPolicy ==
    ASSUME NEW c \in ControllerType, NEW got, Choice(c, got) PROVE ByPolicy(got.cmd)
<1> SUFFICES ASSUME IsReadWrite(got.cmd)
             PROVE  got.cmd.cmd_type \in {"READ_PRECHARGE", "WRITE_PRECHARGE"} <=> ClosePage
  BY DEF ByPolicy
<1>1. c.cmd_queue_ \in CommandQueueType
  BY ControllerFields
<1>2. got.cmd \in QueueCommands
  BY <1>1 DEF Choice, Chosen, CommandQueueType
<1>3. PICK t \in Transactions : got.cmd = TransToCommand(t)
  BY <1>2 DEF QueueCommands
<1>4. got.cmd.cmd_type =
        IF ClosePage THEN IF t.is_write THEN "WRITE_PRECHARGE" ELSE "READ_PRECHARGE"
        ELSE IF t.is_write THEN "WRITE" ELSE "READ"
  BY <1>3 DEF TransToCommand, Command, ClosePage
<1>5. QED
  BY <1>4

(* IssueCommand ends the program, or its command goes out.                 *)
Issues(d, c, cmd) ==
    \/ d.exited /\ Seen(d) = Seen(c) /\ BanksOf(d) = BanksOf(c)
    \/ Seen(d) = Seen(c) \cup {cmd} /\ Moved(BanksOf(d), BanksOf(c), cmd)

LEMMA Refuses ==
    ASSUME NEW c \in ControllerType, NEW cmd PROVE Issues(Exit(c), c, cmd)
<1>1. Exit(c).exited /\ Exit(c).cmd_trace_ = c.cmd_trace_
      /\ Exit(c).channel_state_ = c.channel_state_
  BY DEF Exit, ControllerType
<1>2. QED
  BY <1>1 DEF Issues, Seen, BanksOf

LEMMA IssueRuns ==
    ASSUME NEW c, Sound(c), Clean(c), NEW got, Choice(c, got), IsValid(got.cmd),
           ~IsExit(got.cmd) => OnTime(c.channel_state_, got.cmd)
    PROVE  LET d == IssueCommand([c EXCEPT !.cmd_queue_ = got.cq], got.cmd)
           IN Sound(d) /\ Clean(d) /\ Issues(d, c, got.cmd)
<1> DEFINE taken == [c EXCEPT !.cmd_queue_ = got.cq]
           cmd == got.cmd
           d == IssueCommand(taken, cmd)
<1>1. c \in ControllerType /\ cmd \in Answers /\ ByPolicy(cmd)
  BY ChosenByPolicy DEF Sound, Safe, Choice
<1>2. Sound(d) /\ Clean(d)
  BY IssueSound
<1>3. /\ taken \in ControllerType /\ taken.channel_state_ = c.channel_state_
      /\ taken.cmd_trace_ = c.cmd_trace_
  <2>1. taken \in ControllerType
    BY <1>1, WithCommandQueue DEF Choice
  <2>2. QED
    BY <1>1, <2>1 DEF ControllerType
<1>4. d \in ControllerType
  BY <1>2 DEF Sound, Safe
<1> HIDE DEF taken
<1>5. IF Refused(taken, cmd) THEN d = Exit(taken)
      ELSE cmd \in IssueType /\ Done(d, taken, cmd)
  BY <1>1, <1>3, IssueEffect
<1>6. Seen(taken) = Seen(c) /\ BanksOf(taken) = BanksOf(c)
  BY <1>3 DEF Seen, BanksOf
<1> HIDE DEF d, cmd
<1>7. Issues(d, taken, cmd)
  <2>1. CASE Refused(taken, cmd)
    BY <1>3, <1>5, <2>1, Refuses
  <2>2. CASE ~Refused(taken, cmd)
    <3>1. ~IsExit(cmd) /\ ChannelAccepts(taken.channel_state_, cmd)
      BY <2>2 DEF Refused
    <3>2. OnTime(taken.channel_state_, cmd)
      BY <1>3, <3>1 DEF cmd
    <3>3. Moved(BanksOf(d), BanksOf(taken), cmd)
      BY <1>1, <1>3, <1>4, <1>5, <2>2, <3>1, <3>2, DoneMoves DEF BanksOf
    <3>4. Seen(d) = Seen(taken) \cup {cmd}
      BY <1>3, <1>5, <2>2, SeenGrows
    <3>5. QED
      BY <3>3, <3>4 DEF Issues
  <2>3. QED
    BY <2>1, <2>2
<1>8. QED
  BY <1>2, <1>6, <1>7 DEF Issues, d, cmd, taken

(* The issue phase.                                                        *)
LEMMA IssuePhaseRuns ==
    ASSUME NEW c, Sound(c), c.cmd_trace_ = <<>>
    PROVE  Ran(BanksOf(IssuePhase(c)), BanksOf(c), Seen(IssuePhase(c)))
<1> DEFINE first == FirstCommand(c)
           taken == [c EXCEPT !.cmd_queue_ = first.cq]
           issued == IssueCommand(taken, first.cmd)
           second == GetCommandToIssue(issued.channel_state_, issued.cmd_queue_)
           after == [issued EXCEPT !.cmd_queue_ = second.cq]
           both == IssueCommand(after, second.cmd)
           d == IssuePhase(c)
<1>1. c \in ControllerType /\ Seen(c) = {}
  BY DEF Sound, Safe, Seen
<1>2. Clean(c)
  BY DEF Clean, Undisturbed, WritesClear
<1>3. Choice(c, first)
  BY FirstChoice
<1>4. IsValid(first.cmd) /\ ~IsExit(first.cmd) => OnTime(c.channel_state_, first.cmd)
  BY FirstOnTime
<1>5. \/ d = taken
      \/ IsValid(first.cmd) /\ d = issued
      \/ IsValid(first.cmd) /\ ~issued.exited /\ d = after
      \/ /\ IsValid(first.cmd) /\ ~issued.exited /\ IsValid(second.cmd) /\ d = both
         /\ config.enable_hbm_dual_cmd
         /\ IsExit(second.cmd) \/ IsReadWrite(second.cmd) # IsReadWrite(first.cmd)
  BY DEF IssuePhase, IssueFirst, AndSecond, IssueSecond, IsExit, IsValid
<1> HIDE DEF first
<1>6. Seen(taken) = {} /\ BanksOf(taken) = BanksOf(c)
  BY <1>1 DEF ControllerType, Seen, BanksOf
<1>7. IsValid(first.cmd) => Sound(issued) /\ Clean(issued) /\ Issues(issued, c, first.cmd)
  BY <1>2, <1>3, <1>4, IssueRuns
<1> HIDE DEF d
<1>8. CASE d = taken
  BY <1>6, <1>8 DEF Ran, d
<1> HIDE DEF taken
<1>9. IsValid(first.cmd) => Ran(BanksOf(issued), BanksOf(c), Seen(issued))
  BY <1>1, <1>7 DEF Issues, Ran
<1>10. CASE IsValid(first.cmd) /\ d = issued
  BY <1>9, <1>10 DEF d
<1> HIDE DEF issued
<1>11. ASSUME IsValid(first.cmd), ~issued.exited
       PROVE  /\ issued \in ControllerType /\ Choice(issued, second)
              /\ Seen(issued) = {first.cmd}
              /\ Moved(BanksOf(issued), BanksOf(c), first.cmd)
  BY <1>1, <1>7, <1>11, QueueChoice DEF Issues, Sound, Safe
<1>12. CASE IsValid(first.cmd) /\ ~issued.exited /\ d = after
  <2>1. Seen(after) = Seen(issued) /\ BanksOf(after) = BanksOf(issued)
    BY <1>11, <1>12 DEF ControllerType, Seen, BanksOf
  <2>2. QED
    BY <1>9, <1>12, <2>1 DEF d
<1>13. CASE /\ IsValid(first.cmd) /\ ~issued.exited /\ IsValid(second.cmd) /\ d = both
            /\ config.enable_hbm_dual_cmd
            /\ IsExit(second.cmd) \/ IsReadWrite(second.cmd) # IsReadWrite(first.cmd)
  <2>1. ~IsExit(second.cmd) => OnTime(issued.channel_state_, second.cmd)
    <3>1. /\ issued.channel_state_ \in ChannelStateType
          /\ issued.cmd_queue_ \in CommandQueueType /\ HomeOk(issued.cmd_queue_)
          /\ \A q \in QueueIdx : IsInjective(issued.cmd_queue_.queues_[q])
      BY <1>7, <1>13, ControllerFields DEF Sound, Safe, Linked, NoRepeats
    <3>2. QED
      BY <1>13, <3>1, QueueOnTime
  <2> HIDE DEF second
  <2>2. Issues(both, issued, second.cmd)
    BY <1>7, <1>11, <1>13, <2>1, IssueRuns
  <2> HIDE DEF both
  <2>3. CASE Seen(both) = Seen(issued) /\ BanksOf(both) = BanksOf(issued)
    BY <1>9, <1>13, <2>3 DEF d
  <2>4. CASE Seen(both) = Seen(issued) \cup {second.cmd}
             /\ Moved(BanksOf(both), BanksOf(issued), second.cmd)
    <3>1. Seen(both) = {first.cmd, second.cmd}
      BY <1>11, <1>13, <2>4
    <3>2. second.cmd.cmd_type \in CommandType
      BY <2>4 DEF Moved, IssueType, CommandRecord
    <3>3. IsReadWrite(first.cmd) # IsReadWrite(second.cmd)
      BY <1>13, <3>2 DEF IsExit, CommandType, RankTypes, RWTypes, ReadTypes, WriteTypes
    <3>4. Ran(BanksOf(both), BanksOf(c), Seen(both))
      BY <1>11, <1>13, <2>4, <3>1, <3>3 DEF Ran
    <3>5. QED
      BY <1>13, <3>4 DEF d
  <2>5. QED
    BY <2>2, <2>3, <2>4 DEF Issues
<1>14. QED
  BY <1>5, <1>8, <1>10, <1>12, <1>13

(* Entering and leaving self-refresh, in a cycle without a command.        *)
LEMMA SelfRefreshRuns ==
    ASSUME NEW c, Sound(c), Clean(c), NEW before, Ran(BanksOf(c), before, Seen(c))
    PROVE  Ran(BanksOf(SelfRefresh(c)), before, Seen(SelfRefresh(c)))
<1> DEFINE found == {r \in Ranks : IsValid(SelfRefreshCommand(c, r))}
           cmd == SelfRefreshCommand(c, Min(found))
           d == SelfRefresh(c)
<1>1. found \in SUBSET Nat /\ found \subseteq Ranks
  BY CountsAssumption DEF Ranks
<1>2. \A r \in found : IsValid(SelfRefreshCommand(c, r))
  OBVIOUS
<1>3. d = IF ~config.enable_self_refresh \/ c.cmd_trace_ # <<>> \/ found = {}
          THEN c ELSE IssueCommand(c, cmd)
  BY DEF SelfRefresh
<1>4. c \in ControllerType /\ d \in ControllerType
  BY SelfRefreshSound DEF Sound, Safe
<1> HIDE DEF found, d
<1>5. CASE ~config.enable_self_refresh \/ c.cmd_trace_ # <<>> \/ found = {}
  BY <1>3, <1>5 DEF d
<1>6. CASE config.enable_self_refresh /\ c.cmd_trace_ = <<>> /\ found # {}
  <2>1. Min(found) \in found
    BY <1>1, <1>6, MinIsLeast
  <2>2. cmd \in Answers /\ IsValid(cmd) /\ cmd.cmd_type \notin RWTypes \cup {"ACTIVATE"}
    BY <1>1, <1>2, <1>4, <2>1, SelfRefreshKind
  <2>3. ~IsExit(cmd) => OnTime(c.channel_state_, cmd)
    BY <1>1, <1>4, <2>1, <2>2, SleepOnTime
  <2> HIDE DEF cmd
  <2>4. IF Refused(c, cmd) THEN d = Exit(c) ELSE cmd \in IssueType /\ Done(d, c, cmd)
    BY <1>3, <1>4, <1>6, <2>2, IssueEffect
  <2>5. Seen(c) = {}
    BY <1>6 DEF Seen
  <2>6. BanksOf(c) = before
    BY <2>5 DEF Ran
  <2>7. CASE Refused(c, cmd)
    <3>1. Seen(Exit(c)) = Seen(c) /\ BanksOf(Exit(c)) = BanksOf(c)
      BY <1>4 DEF Exit, ControllerType, Seen, BanksOf
    <3>2. d = Exit(c)
      BY <2>4, <2>7
    <3>3. QED
      BY <3>1, <3>2 DEF d
  <2>8. CASE ~Refused(c, cmd)
    <3>1. /\ cmd \in IssueType /\ Done(d, c, cmd) /\ ChannelAccepts(c.channel_state_, cmd)
          /\ OnTime(c.channel_state_, cmd)
      BY <2>3, <2>4, <2>8 DEF Refused
    <3>2. ByPolicy(cmd)
      BY <2>2 DEF ByPolicy, IsReadWrite
    <3>3. Moved(BanksOf(d), BanksOf(c), cmd)
      BY <1>4, <3>1, <3>2, DoneMoves DEF BanksOf
    <3>4. Seen(d) = {cmd}
      BY <1>4, <2>5, <3>1, SeenGrows
    <3>5. QED
      BY <2>6, <3>3, <3>4 DEF Ran, d
  <2>9. QED
    BY <2>7, <2>8
<1>7. QED
  BY <1>5, <1>6

(* What the rest of the cycle makes of the banks.                          *)
Aged(after, before) ==
    \A b \in Banks :
        /\ after[b] \in BankType /\ before[b] \in BankType
        /\ after[b].state_ = before[b].state_
        /\ after[b].row_hit_count_ = before[b].row_hit_count_
        /\ \A u \in CommandType : after[b].cmd_timing_[u] >= before[b].cmd_timing_[u] - 1

LEMMA AgedItself == ASSUME NEW c \in ControllerType PROVE Aged(BanksOf(c), BanksOf(c))
<1>1. \A b \in Banks : BanksOf(c)[b] \in BankType
  BY BanksTyped
<1>2. ASSUME NEW b \in Banks, NEW u \in CommandType
      PROVE  BanksOf(c)[b].cmd_timing_[u] >= BanksOf(c)[b].cmd_timing_[u] - 1
  <2> DEFINE n == BanksOf(c)[b].cmd_timing_[u]
  <2>1. n \in Nat
    BY <1>1 DEF BankType
  <2> HIDE DEF n
  <2>2. n >= n - 1
    BY <2>1
  <2>3. QED
    BY <2>2 DEF n
<1>3. QED
  BY <1>1, <1>2 DEF Aged

LEMMA CountIdleFrame ==
    ASSUME NEW c \in ControllerType
    PROVE  BanksOf(CountIdle(c)) = BanksOf(c) /\ Seen(CountIdle(c)) = Seen(c)
<1>1. c.channel_state_ \in ChannelStateType
  BY ControllerFields
<1>2. CountIdle(c).cmd_trace_ = c.cmd_trace_
  BY DEF CountIdle, ControllerType
<1>3. CountIdle(c).channel_state_.bank_states_ = c.channel_state_.bank_states_
  BY <1>1 DEF CountIdle, ControllerType, ChannelStateType
<1>4. QED
  BY <1>2, <1>3 DEF BanksOf, Seen

LEMMA CalculateStatsFrame ==
    ASSUME NEW c \in ControllerType
    PROVE  LET d == Calculate_stats(c)
           IN /\ Seen(d) = Seen(c)
              /\ \A b \in Banks :
                   /\ BanksOf(d)[b].state_ = BanksOf(c)[b].state_
                   /\ BanksOf(d)[b].row_hit_count_ = BanksOf(c)[b].row_hit_count_
                   /\ BanksOf(d)[b].cmd_timing_ = BanksOf(c)[b].cmd_timing_
<1> DEFINE d == Calculate_stats(c)
           bs == BanksOf(c)
           done == BanksOf(d)
<1>1. c.channel_state_ \in ChannelStateType /\ bs \in [Banks -> BankType]
  BY ControllerFields, BanksTyped
<1>2. /\ d.cmd_trace_ = c.cmd_trace_
      /\ done = [b \in Banks |-> IF bs[b].serve_end = 0 \/ IsRowClosed(bs[b])
                                 THEN [bs[b] EXCEPT !.in_serve = FALSE] ELSE bs[b]]
  BY <1>1 DEF Calculate_stats, ControllerType, ChannelStateType, BanksOf
<1> HIDE DEF d, done, bs
<1>3. \A b \in Banks : /\ done[b].state_ = bs[b].state_
                       /\ done[b].row_hit_count_ = bs[b].row_hit_count_
                       /\ done[b].cmd_timing_ = bs[b].cmd_timing_
  BY <1>1, <1>2 DEF BankType
<1>4. QED
  BY <1>2, <1>3 DEF Seen, d, bs, done

LEMMA ElapseFrame ==
    ASSUME NEW c \in ControllerType
    PROVE  Seen(Elapse(c)) = Seen(c)
           /\ \A b \in Banks : BanksOf(Elapse(c))[b] = BankElapse(BanksOf(c)[b])
<1> DEFINE d == Elapse(c)
           cs == c.channel_state_
<1>1. cs \in ChannelStateType
  BY ControllerFields
<1>2. d.channel_state_ = ChannelElapse(cs) /\ d.cmd_trace_ = c.cmd_trace_
  BY DEF Elapse, ControllerType
<1> HIDE DEF d
<1>3. \A b \in Banks : ChannelElapse(cs).bank_states_[b] = BankElapse(cs.bank_states_[b])
  BY <1>1 DEF ChannelElapse, ChannelStateType
<1>4. QED
  BY <1>2, <1>3 DEF Seen, BanksOf, d

LEMMA ScheduleFrame ==
    ASSUME NEW c \in ControllerType
    PROVE  LET d == ScheduleTransaction(c)
           IN BanksOf(d) = BanksOf(c) /\ Seen(d) = Seen(c)
<1> DEFINE goal == DrainGoal(c)
           which == ScheduledQueue(goal)
           Kept(d) == d.channel_state_ = c.channel_state_ /\ d.cmd_trace_ = c.cmd_trace_
<1>1. which \in {"unified_queue_", "read_queue_", "write_buffer_"}
  BY DEF ScheduledQueue, QueueFor
<1>2. \A n : Kept([c EXCEPT !.write_draining_ = n])
  BY DEF ControllerType
<1> HIDE DEF which
<1>3. ASSUME NEW i, NEW n
      PROVE  Kept([ToCommandQueue(c, which, i) EXCEPT !.write_draining_ = n])
  <2>1. Kept(ToCommandQueue(c, which, i))
    BY <1>1 DEF ToCommandQueue, ControllerType
  <2> DEFINE d == ToCommandQueue(c, which, i)
  <2>2. [d EXCEPT !.write_draining_ = n].channel_state_ = d.channel_state_
        /\ [d EXCEPT !.write_draining_ = n].cmd_trace_ = d.cmd_trace_
    BY <1>1 DEF ToCommandQueue, ControllerType
  <2>3. QED
    BY <2>1, <2>2
<1>4. Kept(ScheduleTransaction(c))
  <2> HIDE DEF goal
  <2>1. \E i, n : \/ ScheduleTransaction(c) = [c EXCEPT !.write_draining_ = n]
                  \/ ScheduleTransaction(c)
                       = [ToCommandQueue(c, which, i) EXCEPT !.write_draining_ = n]
    BY DEF ScheduleTransaction, which, goal
  <2> HIDE DEF Kept
  <2>2. QED
    BY <1>2, <1>3, <2>1
<1>5. QED
  BY <1>4 DEF BanksOf, Seen

(* A whole cycle: its commands go out one after the other, and time passes *)
(* for the banks, unless the program has ended.                            *)
LEMMA TickRuns ==
    ASSUME NEW c, Sound(c)
    PROVE  LET d == ControllerClockTick(c)
           IN \E end : Ran(end, BanksOf(c), Seen(d)) /\ Aged(BanksOf(d), end)
<1> DEFINE begun == RefreshPhase(c)
           issued == IssuePhase(begun)
           idle == CountIdle(issued)
           slept == SelfRefresh(idle)
           measured == Calculate_stats(slept)
           scheduled == ScheduleTransaction(measured)
           last == Elapse(scheduled)
           Passed(d) == \E end : Ran(end, BanksOf(c), Seen(d)) /\ Aged(BanksOf(d), end)
<1>1. Sound(begun) /\ begun.cmd_trace_ = <<>> /\ BanksOf(begun) = BanksOf(c)
  BY RefreshPhaseSound, RefreshPhaseSafe DEF Sound, Safe, BanksOf
<1> HIDE DEF begun
<1>2. Ran(BanksOf(issued), BanksOf(c), Seen(issued))
  BY <1>1, IssuePhaseRuns
<1>3. Sound(issued) /\ Clean(issued) /\ issued \in ControllerType
  BY <1>1, IssuePhaseSound DEF Sound, Safe
<1> HIDE DEF issued
<1>4. Ran(BanksOf(idle), BanksOf(c), Seen(idle))
  BY <1>2, <1>3, CountIdleFrame
<1>5. Sound(idle) /\ Clean(idle)
  BY <1>3, CountIdleSound
<1> HIDE DEF idle
<1>6. Sound(slept) /\ Clean(slept) /\ slept \in ControllerType
      /\ Ran(BanksOf(slept), BanksOf(c), Seen(slept))
  BY <1>4, <1>5, SelfRefreshSound, SelfRefreshRuns DEF Sound, Safe
<1> HIDE DEF slept
<1>7. Sound(measured) /\ Clean(measured) /\ measured \in ControllerType
  BY <1>6, CalculateStatsSound DEF Sound, Safe
<1>8. /\ Seen(measured) = Seen(slept)
      /\ \A b \in Banks :
           /\ BanksOf(measured)[b].state_ = BanksOf(slept)[b].state_
           /\ BanksOf(measured)[b].row_hit_count_ = BanksOf(slept)[b].row_hit_count_
           /\ BanksOf(measured)[b].cmd_timing_ = BanksOf(slept)[b].cmd_timing_
  BY <1>6, CalculateStatsFrame
<1> HIDE DEF measured
<1>9. scheduled \in ControllerType /\ BanksOf(scheduled) = BanksOf(measured)
      /\ Seen(scheduled) = Seen(measured)
  BY <1>7, ScheduleSound, ScheduleFrame DEF Sound, Safe
<1> HIDE DEF scheduled
<1>10. last \in ControllerType /\ Seen(last) = Seen(slept)
  BY <1>8, <1>9, ElapseTyped, ElapseFrame
<1>11. \A b \in Banks : BanksOf(last)[b] = BankElapse(BanksOf(scheduled)[b])
  BY <1>9, ElapseFrame
<1> HIDE DEF last
<1>12. Aged(BanksOf(last), BanksOf(slept))
  <2> SUFFICES ASSUME NEW b \in Banks
               PROVE  LET new == BanksOf(last)[b]
                          old == BanksOf(slept)[b]
                      IN /\ new \in BankType /\ old \in BankType
                         /\ new.state_ = old.state_ /\ new.row_hit_count_ = old.row_hit_count_
                         /\ \A u \in CommandType :
                              new.cmd_timing_[u] >= old.cmd_timing_[u] - 1
    BY DEF Aged
  <2> DEFINE new == BanksOf(last)[b]
             old == BanksOf(slept)[b]
             mid == BanksOf(scheduled)[b]
  <2>1. new \in BankType /\ old \in BankType /\ mid \in BankType
    BY <1>6, <1>9, <1>10, BanksTyped
  <2>2. new = BankElapse(mid)
    BY <1>11
  <2>3. mid.state_ = old.state_ /\ mid.row_hit_count_ = old.row_hit_count_
        /\ mid.cmd_timing_ = old.cmd_timing_
    BY <1>8, <1>9
  <2> HIDE DEF new, old, mid
  <2>4. /\ new.state_ = mid.state_ /\ new.row_hit_count_ = mid.row_hit_count_
        /\ \A u \in CommandType : new.cmd_timing_[u] = OneLess(mid.cmd_timing_[u])
    BY <2>1, <2>2 DEF BankElapse, BankType
  <2>5. ASSUME NEW u \in CommandType PROVE new.cmd_timing_[u] >= old.cmd_timing_[u] - 1
    <3>1. mid.cmd_timing_[u] \in Nat
      BY <2>1 DEF BankType
    <3>2. QED
      BY <2>3, <2>4, <3>1 DEF OneLess
  <2>6. QED
    BY <2>1, <2>3, <2>4, <2>5 DEF new, old
<1>13. Passed(issued) /\ Passed(slept) /\ Passed(last)
  BY <1>2, <1>3, <1>6, <1>10, <1>12, AgedItself
<1>14. ControllerClockTick(c) = IF issued.exited THEN issued
                                ELSE IF slept.exited THEN slept ELSE last
  BY DEF ControllerClockTick, PowerPhase, SchedulePhase, last, scheduled, measured,
         slept, idle, issued, begun
<1> HIDE DEF Passed
<1>15. Passed(ControllerClockTick(c))
  BY <1>13, <1>14
<1>16. QED
  BY <1>15 DEF Passed
(* The runs of PhaseStats are runs of the system.                          *)
LEMMA PhasesRun == PSpec => Spec
<1>1. PInit => Init
  BY DEF PInit
<1>2. [PNext]_pvars => [Next]_vars
  BY DEF PNext, PAddTransaction, PClockTick, stats_mo, pvars, Next
<1>3. QED
  BY <1>1, <1>2, PTL DEF PSpec, Spec

(* What happens to a channel in a cycle of the system.                     *)
LEMMA ChannelRuns ==
    ASSUME TypeOK, AllSound, ClockTick, NEW ch \in Channels
    PROVE  \E end : /\ Ran(end, BanksOf(ctrls_[ch]), Seen(ctrls_'[ch]))
                    /\ Aged(BanksOf(ctrls_'[ch]), end)
<1> DEFINE c == ReturnDoneTrans(ctrls_[ch])
<1>1. ctrls_[ch] \in ControllerType /\ Sound(ctrls_[ch])
  BY DEF TypeOK, AllSound
<1>2. Sound(c) /\ BanksOf(c) = BanksOf(ctrls_[ch])
  BY <1>1, ReturnDoneSound DEF ReturnDoneTrans, ControllerType, BanksOf
<1>3. ctrls_'[ch] = ControllerClockTick(c)
  BY DEF ClockTick
<1> HIDE DEF c
<1>4. QED
  BY <1>2, <1>3, TickRuns

(* The arrival of a request changes no bank, nor does the return of one.   *)
LEMMA ArrivalFrame ==
    ASSUME NEW c \in ControllerType, NEW t \in Transactions
    PROVE  /\ ControllerAddTransaction(c, t).channel_state_ = c.channel_state_
           /\ ReturnDoneTrans(c).channel_state_ = c.channel_state_
<1> DEFINE a == t.addr
           Kept(d) == d.channel_state_ = c.channel_state_
<1>1. ReturnDoneTrans(c).channel_state_ = c.channel_state_
  BY DEF ReturnDoneTrans, ControllerType
<1>2. \A w, n, wait : Kept(Complete(c, a, w, n, wait))
  BY DEF Complete, ControllerType
<1>3. Kept(AddWrite(c, a))
  BY DEF AddWrite, Enqueue, Complete, QueueFor, ControllerType
<1>4. Kept(AddRead(c, a))
  BY DEF AddRead, Enqueue, Complete, QueueFor, ControllerType
<1>5. QED
  BY <1>1, <1>3, <1>4 DEF ControllerAddTransaction

(* What does not touch the banks of a channel.                             *)
LEMMA ArrivalKeepsBanks ==
    ASSUME TypeOK, NEW t \in Requests, AddTransaction(t), NEW ch \in Channels
    PROVE  BanksOf(ctrls_'[ch]) = BanksOf(ctrls_[ch])
<1>1. ctrls_ \in [Channels -> ControllerType] /\ t \in Transactions
  BY RequestsAssumption DEF TypeOK
<1>2. ctrls_'[ch] = IF ch = GetChannel(t.addr)
                    THEN ControllerAddTransaction(ctrls_[ch], t) ELSE ctrls_[ch]
  BY <1>1 DEF AddTransaction
<1>3. QED
  BY <1>1, <1>2, ArrivalFrame DEF BanksOf

LEMMA NewBanks ==
    ASSUME Init, NEW ch \in Channels, NEW b \in Banks
    PROVE  BanksOf(ctrls_[ch])[b] = NewBank
BY DEF Init, NewController, NewChannelState, BanksOf

-----------------------------------------------------------------------------
(* BankUpdateState follows the commands that the bank accepts.             *)
LEMMA StateMoves ==
    ASSUME NEW old \in BankType, NEW cmd, BankAccepts(old, cmd.cmd_type)
    PROVE  LET s == BankUpdateState(old, cmd).state_
               t == cmd.cmd_type
           IN \/ old.state_ = "OPEN" /\ s = "OPEN" /\ t \in {"READ", "WRITE"}
              \/ old.state_ = "OPEN" /\ s # "OPEN"
                 /\ t \in {"READ_PRECHARGE", "WRITE_PRECHARGE", "PRECHARGE"}
              \/ old.state_ # "OPEN" /\ s = "OPEN" /\ t = "ACTIVATE"
              \/ old.state_ # "OPEN" /\ s # "OPEN"
                 /\ t \notin RWTypes \cup {"ACTIVATE", "PRECHARGE"}
<1> DEFINE t == cmd.cmd_type
           s == BankUpdateState(old, cmd).state_
<1>1. old.state_ \in {"OPEN", "CLOSED", "SREF"}
  BY DEF BankType
<1>2. CASE old.state_ = "OPEN"
  <2>1. t \in {"READ", "WRITE", "READ_PRECHARGE", "WRITE_PRECHARGE", "PRECHARGE"}
    BY <1>2 DEF BankAccepts, RWTypes, ReadTypes, WriteTypes
  <2>2. QED
    BY <1>2, <2>1 DEF BankUpdateState, BankType
<1>3. CASE old.state_ = "CLOSED"
  <2>1. t \in {"REFRESH", "REFRESH_BANK", "ACTIVATE", "SREF_ENTER"}
    BY <1>3 DEF BankAccepts
  <2>2. QED
    BY <1>3, <2>1 DEF BankUpdateState, BankType, RWTypes, ReadTypes, WriteTypes
<1>4. CASE old.state_ = "SREF"
  BY <1>4 DEF BankAccepts, BankUpdateState, BankType, RWTypes, ReadTypes, WriteTypes
<1>5. QED
  BY <1>1, <1>2, <1>3, <1>4

(* The bank a command names is its only target, unless it is for a rank.   *)
LEMMA TargetOfBank ==
    ASSUME NEW cmd, ~IsRankCMD(cmd)
    PROVE  /\ Targets(cmd) = {BankOf(cmd.addr)}
           /\ TimingRow(cmd, BankOf(cmd.addr)) = same_bank[cmd.cmd_type]
BY DEF Targets, TimingRow, BankOf

-----------------------------------------------------------------------------
(* The statistics of a phase: row hits.                                    *)

(* A bank counts an access since its row was opened, if there was one.     *)
Hit(bank, was) ==
    IF bank.state_ = "OPEN" THEN (bank.row_hit_count_ # 0) <=> was
    ELSE bank.row_hit_count_ = 0

(* The banks of a channel count the accesses to the open rows, of which    *)
(* touched_ are the banks that have one.                                   *)
HitsCounted(bs, touched_) == \A b \in Banks : Hit(bs[b], b \in touched_)

(* The counts that UpdateCommandStats reads say of every access of cmds    *)
(* whether the row was accessed before.                                    *)
Told(bs, touched_, cmds) ==
    \A cmd \in cmds : IsReadWrite(cmd) =>
        ((bs[BankOf(cmd.addr)].row_hit_count_ # 0) <=> BankOf(cmd.addr) \in touched_)

(* Two commands of a cycle do not open a row and access it, or access a    *)
(* row and open the next one: the delays between them are not zero.        *)
RowsSpaced ==
    config.enable_hbm_dual_cmd =>
        /\ activate_to_read > 0 /\ activate_to_write > 0
        /\ readp_to_act > 0 /\ write_to_activate > 0

LEMMA TouchedEmpty == ASSUME NEW seen PROVE Touched(seen, {}) = seen
BY DEF Touched

LEMMA TouchedOne ==
    ASSUME NEW seen, NEW cmd, NEW b
    PROVE  b \in Touched(seen, {cmd}) <=>
             IF cmd.cmd_type = "ACTIVATE" \/ IsReadWrite(cmd)
             THEN IF b = BankOf(cmd.addr) THEN IsReadWrite(cmd) ELSE b \in seen
             ELSE b \in seen
<1>1. ~(cmd.cmd_type = "ACTIVATE" /\ IsReadWrite(cmd))
  BY DEF IsReadWrite, RWTypes, ReadTypes, WriteTypes
<1>2. QED
  BY <1>1 DEF Touched

(* The two commands of a cycle, one after the other.                       *)
LEMMA TouchedTwo ==
    ASSUME NEW seen, NEW first, NEW second,
           ~(/\ IsReadWrite(first) /\ second.cmd_type = "ACTIVATE"
             /\ BankOf(first.addr) = BankOf(second.addr))
    PROVE  Touched(Touched(seen, {first}), {second}) = Touched(seen, {first, second})
BY DEF Touched

(* The state a bank update leaves.                                         *)
LEMMA BankHits ==
    ASSUME NEW old \in BankType, NEW cmd, BankAccepts(old, cmd.cmd_type), NEW was,
           Hit(old, was)
    PROVE  Hit(BankUpdateState(old, cmd),
               IF cmd.cmd_type = "ACTIVATE" THEN FALSE
               ELSE IF IsReadWrite(cmd) THEN TRUE ELSE was)
<1> DEFINE t == cmd.cmd_type
           n == old.row_hit_count_
<1>1. n \in Nat /\ RowHitLimit \in Nat \ {0} /\ old.state_ \in {"OPEN", "CLOSED", "SREF"}
  BY LimitsAssumption DEF BankType
<1>2. CASE t \in {"READ", "WRITE"}
  <2>1. old.state_ = "OPEN" /\ IsReadWrite(cmd) /\ t # "ACTIVATE"
    BY <1>1, <1>2 DEF BankAccepts, IsReadWrite, RWTypes, ReadTypes, WriteTypes
  <2>2. BankUpdateState(old, cmd) =
          [old EXCEPT !.row_hit_count_ = IF n < RowHitLimit THEN n + 1 ELSE n]
    BY <1>2 DEF BankUpdateState
  <2>3. (IF n < RowHitLimit THEN n + 1 ELSE n) # 0
    BY <1>1
  <2>4. QED
    BY <2>1, <2>2, <2>3 DEF Hit, BankType
<1>3. CASE t \in {"READ_PRECHARGE", "WRITE_PRECHARGE", "PRECHARGE"}
  <2>1. BankUpdateState(old, cmd) =
          [old EXCEPT !.state_ = "CLOSED", !.open_row_ = -1, !.row_hit_count_ = 0]
    BY <1>3 DEF BankUpdateState
  <2>2. QED
    BY <2>1 DEF Hit, BankType
<1>4. CASE t = "ACTIVATE"
  <2>1. old.state_ = "CLOSED"
    BY <1>1, <1>4 DEF BankAccepts, RWTypes, ReadTypes, WriteTypes
  <2>2. BankUpdateState(old, cmd) = [old EXCEPT !.state_ = "OPEN", !.open_row_ = cmd.addr.row]
    BY <1>4 DEF BankUpdateState
  <2>3. n = 0
    BY <2>1 DEF Hit
  <2>4. QED
    BY <1>4, <2>2, <2>3 DEF Hit, BankType
<1>5. CASE t \notin RWTypes \cup {"PRECHARGE", "ACTIVATE"}
  <2>1. old.state_ # "OPEN" /\ ~IsReadWrite(cmd)
    BY <1>5 DEF BankAccepts, IsReadWrite
  <2>2. n = 0
    BY <2>1 DEF Hit
  <2>3. \/ BankUpdateState(old, cmd) = [old EXCEPT !.state_ = "SREF"]
        \/ BankUpdateState(old, cmd) = [old EXCEPT !.state_ = "CLOSED"]
        \/ BankUpdateState(old, cmd) = old
    BY <1>5 DEF BankUpdateState, RWTypes, ReadTypes, WriteTypes
  <2>4. QED
    BY <2>1, <2>2, <2>3 DEF Hit, BankType
<1>6. QED
  BY <1>2, <1>3, <1>4, <1>5 DEF RWTypes, ReadTypes, WriteTypes

(* The banks a command for one bank or a rank reaches.                     *)
LEMMA Reached ==
    ASSUME NEW cmd \in IssueType, NEW b \in Banks
    PROVE  cmd.cmd_type = "ACTIVATE" \/ IsReadWrite(cmd) =>
             /\ BankOf(cmd.addr) \in Banks
             /\ b \in Targets(cmd) <=> b = BankOf(cmd.addr)
<1> SUFFICES ASSUME cmd.cmd_type = "ACTIVATE" \/ IsReadWrite(cmd)
             PROVE  /\ BankOf(cmd.addr) \in Banks
                    /\ b \in Targets(cmd) <=> b = BankOf(cmd.addr)
  OBVIOUS
<1>1. cmd.cmd_type \in RWTypes \cup {"ACTIVATE"}
  BY DEF IsReadWrite
<1>2. ~IsRankCMD(cmd)
  BY <1>1 DEF IsRankCMD, RankTypes, RWTypes, ReadTypes, WriteTypes
<1>3. QED
  BY <1>2 DEF Targets, IssueType

(* The delays that RowsSpaced speaks of, in the tables.                    *)
LEMMA SpacedBank ==
    ASSUME RowsSpaced, config.enable_hbm_dual_cmd, NEW cmd \in IssueType,
           NEW b \in Banks, BankOf(cmd.addr) = b, NEW t \in CommandType,
           \/ cmd.cmd_type = "ACTIVATE" /\ t \in RWTypes
           \/ cmd.cmd_type \in {"READ_PRECHARGE", "WRITE_PRECHARGE"} /\ t = "ACTIVATE"
    PROVE  t \in DOMAIN TimingRow(cmd, b) /\ TimingRow(cmd, b)[t] > 0
<1> DEFINE ct == cmd.cmd_type
<1>1. ct \in RWTypes \cup {"ACTIVATE"} /\ ct \in CommandType
  BY DEF RWTypes, ReadTypes, WriteTypes, IssueType, CommandRecord
<1>2. ~IsRankCMD(cmd)
  BY <1>1 DEF IsRankCMD, RankTypes, RWTypes, ReadTypes, WriteTypes
<1>3. b[1] = cmd.addr.rank /\ b[2] = cmd.addr.bankgroup /\ b[3] = cmd.addr.bank
  BY DEF BankOf
<1>4. TimingRow(cmd, b) = same_bank[ct]
  BY <1>2, <1>3 DEF TimingRow
<1>5. CASE ct = "ACTIVATE" /\ t \in RWTypes
  <2> DEFINE f == RWRow(activate_to_read, activate_to_write)
             g == Also(f, "ACTIVATE", tRC)
  <2>1. same_bank[ct] = Also(g, "PRECHARGE", config.tRAS)
    BY <1>1, <1>5 DEF same_bank
  <2>2. t \in DOMAIN f /\ f[t] > 0
    BY <1>5 DEF RWRow, RowsSpaced
  <2>3. t # "ACTIVATE" /\ t # "PRECHARGE"
    BY <1>5 DEF RWTypes, ReadTypes, WriteTypes
  <2> HIDE DEF f
  <2>4. t \in DOMAIN g /\ g[t] > 0
    BY <2>2, <2>3 DEF Also
  <2> HIDE DEF g
  <2>5. t \in DOMAIN same_bank[ct] /\ same_bank[ct][t] > 0
    BY <2>1, <2>3, <2>4 DEF Also
  <2>6. QED
    BY <1>4, <2>5
<1>6. CASE ct = "READ_PRECHARGE" /\ t = "ACTIVATE"
  <2>1. same_bank[ct] = Also(RefreshRow(read_to_activate), "ACTIVATE", readp_to_act)
    BY <1>1, <1>6 DEF same_bank
  <2>2. t \in DOMAIN same_bank[ct] /\ same_bank[ct][t] > 0
    BY <1>6, <2>1 DEF Also, RowsSpaced
  <2>3. QED
    BY <1>4, <2>2
<1>7. CASE ct = "WRITE_PRECHARGE" /\ t = "ACTIVATE"
  <2>1. same_bank[ct] = Also(RefreshRow(write_to_activate), "ACTIVATE", write_to_activate)
    BY <1>1, <1>7 DEF same_bank
  <2>2. t \in DOMAIN same_bank[ct] /\ same_bank[ct][t] > 0
    BY <1>7, <2>1 DEF Also, RowsSpaced
  <2>3. QED
    BY <1>4, <2>2
<1>8. QED
  BY <1>5, <1>6, <1>7

(* A command keeps the counts right, and an access reads the right one.    *)
LEMMA MovedHits ==
    ASSUME NEW after, NEW before, NEW cmd, Moved(after, before, cmd), NEW seen,
           HitsCounted(before, seen)
    PROVE  HitsCounted(after, Touched(seen, {cmd})) /\ Told(before, seen, {cmd})
<1>1. cmd \in IssueType /\ \A b \in Banks : BankMoved(after[b], before[b], cmd, b)
  BY DEF Moved
<1>2. ASSUME NEW b \in Banks PROVE Hit(after[b], b \in Touched(seen, {cmd}))
  <2> DEFINE old == before[b]
             new == after[b]
  <2>1. BankMoved(new, old, cmd, b) /\ Hit(old, b \in seen)
    BY <1>1 DEF HitsCounted
  <2>2. CASE b \in Targets(cmd)
    <3> HIDE DEF old, new
    <3>1. /\ old \in BankType /\ BankAccepts(old, cmd.cmd_type)
          /\ new.state_ = BankUpdateState(old, cmd).state_
          /\ new.row_hit_count_ = BankUpdateState(old, cmd).row_hit_count_
      BY <2>1, <2>2 DEF BankMoved
    <3>2. (b \in Touched(seen, {cmd})) <=>
            (IF cmd.cmd_type = "ACTIVATE" THEN FALSE
             ELSE IF IsReadWrite(cmd) THEN TRUE ELSE b \in seen)
      <4>1. ~(cmd.cmd_type = "ACTIVATE" /\ IsReadWrite(cmd))
        BY DEF IsReadWrite, RWTypes, ReadTypes, WriteTypes
      <4>2. QED
        BY <1>1, <2>2, <4>1, Reached, TouchedOne
    <3>3. Hit(BankUpdateState(old, cmd),
              IF cmd.cmd_type = "ACTIVATE" THEN FALSE
              ELSE IF IsReadWrite(cmd) THEN TRUE ELSE b \in seen)
      BY <2>1, <3>1, BankHits
    <3>4. Hit(new, IF cmd.cmd_type = "ACTIVATE" THEN FALSE
                   ELSE IF IsReadWrite(cmd) THEN TRUE ELSE b \in seen)
      BY <3>1, <3>3 DEF Hit
    <3>5. QED
      BY <3>2, <3>4 DEF Hit, new
  <2>3. CASE b \notin Targets(cmd)
    <3>1. (b \in Touched(seen, {cmd})) <=> b \in seen
      BY <1>1, <2>3, Reached, TouchedOne
    <3> HIDE DEF old, new
    <3>2. new.state_ = old.state_ /\ new.row_hit_count_ = old.row_hit_count_
      BY <2>1, <2>3 DEF BankMoved
    <3>3. QED
      BY <2>1, <3>1, <3>2 DEF Hit, new
  <2>4. QED
    BY <2>2, <2>3
<1>3. ASSUME IsReadWrite(cmd)
      PROVE  (before[BankOf(cmd.addr)].row_hit_count_ # 0) <=> BankOf(cmd.addr) \in seen
  <2> DEFINE b == BankOf(cmd.addr)
  <2>1. b \in Banks /\ ~IsRankCMD(cmd)
    BY <1>1, <1>3 DEF IssueType, IsReadWrite, IsRankCMD, RankTypes, RWTypes, ReadTypes,
                      WriteTypes
  <2>2. b \in Targets(cmd)
    BY <2>1, TargetOfBank
  <2> HIDE DEF b
  <2>3. before[b] \in BankType /\ BankAccepts(before[b], cmd.cmd_type)
    BY <1>1, <2>1, <2>2 DEF BankMoved
  <2>4. before[b].state_ = "OPEN"
    BY <1>3, <2>3 DEF BankAccepts, BankType, IsReadWrite, RWTypes, ReadTypes, WriteTypes
  <2>5. QED
    BY <2>1, <2>4 DEF HitsCounted, Hit, b
<1>4. QED
  BY <1>2, <1>3 DEF HitsCounted, Told

(* The second command of a cycle opens no row that the first one accessed, *)
(* and the row it accesses is neither opened nor changed by the first one. *)
LEMMA SecondSpaced ==
    ASSUME RowsSpaced, config.enable_hbm_dual_cmd, NEW after, NEW between, NEW before,
           NEW first, NEW second, IsReadWrite(first) # IsReadWrite(second),
           Moved(between, before, first), Moved(after, between, second),
           NEW b \in Banks, b = BankOf(second.addr)
    PROVE  /\ second.cmd_type = "ACTIVATE" => ~(IsReadWrite(first) /\ BankOf(first.addr) = b)
           /\ IsReadWrite(second) =>
                /\ between[b].row_hit_count_ = before[b].row_hit_count_
                /\ ~(first.cmd_type = "ACTIVATE" /\ BankOf(first.addr) = b)
                /\ ~IsReadWrite(first)
<1> DEFINE s == second.cmd_type
           t == first.cmd_type
           row == TimingRow(first, b)
           old == before[b]
           mid == between[b]
<1>1. first \in IssueType /\ second \in IssueType
      /\ BankMoved(mid, old, first, b) /\ BankMoved(after[b], mid, second, b)
  BY DEF Moved
<1>2. s \in CommandType /\ t \in CommandType
  BY <1>1 DEF IssueType, CommandRecord
<1>3. /\ old \in BankType /\ mid \in BankType
      /\ s \in DOMAIN row => mid.cmd_timing_[s] >= row[s]
  BY <1>1, <1>2 DEF BankMoved
<1>4. ASSUME s = "ACTIVATE" \/ IsReadWrite(second)
      PROVE  /\ b \in Targets(second) /\ mid.cmd_timing_[s] = 0 /\ BankAccepts(mid, s)
  <2>1. s \in RWTypes \cup {"ACTIVATE"}
    BY <1>4 DEF IsReadWrite
  <2>2. ~IsRankCMD(second) /\ s # "SREF_EXIT"
    BY <2>1 DEF IsRankCMD, RankTypes, RWTypes, ReadTypes, WriteTypes
  <2>3. b \in Targets(second)
    BY <2>2, TargetOfBank
  <2>4. QED
    BY <1>1, <2>2, <2>3 DEF BankMoved
<1>5. b \in Targets(first) =>
        BankAccepts(old, t) /\ mid.state_ = BankUpdateState(old, first).state_
  BY <1>1 DEF BankMoved
<1>6. b \notin Targets(first) => mid.row_hit_count_ = old.row_hit_count_
  BY <1>1 DEF BankMoved
<1> HIDE DEF row, old, mid
<1>7. ASSUME s = "ACTIVATE", IsReadWrite(first), BankOf(first.addr) = b PROVE FALSE
  <2>1. b \in Targets(first)
    BY <1>1, <1>7, Reached
  <2>2. mid.state_ = "CLOSED"
    BY <1>3, <1>4, <1>7 DEF BankAccepts, BankType, RWTypes, ReadTypes, WriteTypes
  <2>3. t \in {"READ_PRECHARGE", "WRITE_PRECHARGE"}
    BY <1>3, <1>5, <1>7, <2>1, <2>2, StateMoves
       DEF IsReadWrite, RWTypes, ReadTypes, WriteTypes
  <2>4. s \in DOMAIN row /\ row[s] > 0
    BY <1>1, <1>2, <1>7, <2>3, SpacedBank DEF row
  <2>5. row[s] \in Int
    BY <2>4, <1>1, RowsOfTables DEF row
  <2>6. QED
    BY <1>3, <1>4, <1>7, <2>4, <2>5
<1>8. ASSUME IsReadWrite(second)
      PROVE  /\ mid.row_hit_count_ = old.row_hit_count_
             /\ ~(t = "ACTIVATE" /\ BankOf(first.addr) = b)
             /\ ~IsReadWrite(first)
  <2>1. s \in RWTypes /\ ~IsReadWrite(first)
    BY <1>8 DEF IsReadWrite
  <2>2. ASSUME t = "ACTIVATE", BankOf(first.addr) = b PROVE FALSE
    <3>1. s \in DOMAIN row /\ row[s] > 0
      BY <1>1, <1>2, <2>1, <2>2, SpacedBank DEF row
    <3>2. row[s] \in Int
      BY <3>1, <1>1, RowsOfTables DEF row
    <3>3. QED
      BY <1>3, <1>4, <1>8, <3>1, <3>2
  <2>3. mid.state_ = "OPEN"
    BY <1>3, <1>4, <1>8, <2>1 DEF BankAccepts, BankType, RWTypes, ReadTypes, WriteTypes
  <2>4. b \notin Targets(first)
    <3> SUFFICES ASSUME b \in Targets(first) PROVE FALSE
      OBVIOUS
    <3>1. t = "ACTIVATE"
      BY <1>3, <1>5, <2>1, <2>3, StateMoves DEF IsReadWrite, RWTypes, ReadTypes, WriteTypes
    <3>2. BankOf(first.addr) = b
      BY <1>1, <3>1, Reached
    <3>3. QED
      BY <2>2, <3>1, <3>2
  <2>5. QED
    BY <1>6, <2>1, <2>2, <2>4
<1>9. QED
  BY <1>7, <1>8 DEF old, mid

(* The commands of a cycle.                                                *)
LEMMA RanHits ==
    ASSUME RowsSpaced, NEW after, NEW before, NEW cmds, Ran(after, before, cmds),
           NEW seen, HitsCounted(before, seen)
    PROVE  HitsCounted(after, Touched(seen, cmds)) /\ Told(before, seen, cmds)
<1>1. CASE cmds = {} /\ after = before
  BY <1>1, TouchedEmpty DEF Told
<1>2. ASSUME NEW cmd, cmds = {cmd}, Moved(after, before, cmd)
      PROVE  HitsCounted(after, Touched(seen, cmds)) /\ Told(before, seen, cmds)
  BY <1>2, MovedHits
<1>3. ASSUME NEW first, NEW second, NEW between, cmds = {first, second},
             config.enable_hbm_dual_cmd, IsReadWrite(first) # IsReadWrite(second),
             Moved(between, before, first), Moved(after, between, second)
      PROVE  HitsCounted(after, Touched(seen, cmds)) /\ Told(before, seen, cmds)
  <2> DEFINE mid == Touched(seen, {first})
             b == BankOf(second.addr)
             onBank == second.cmd_type = "ACTIVATE" \/ IsReadWrite(second)
  <2>1. HitsCounted(between, mid) /\ Told(before, seen, {first})
    BY <1>3, MovedHits
  <2>2. HitsCounted(after, Touched(mid, {second})) /\ Told(between, mid, {second})
    <3> HIDE DEF mid
    <3>1. QED
      BY <1>3, <2>1, MovedHits
  <2>3. onBank => b \in Banks
    <3>1. second \in IssueType
      BY <1>3 DEF Moved
    <3>2. onBank => ~IsRankCMD(second)
      BY DEF IsReadWrite, IsRankCMD, RankTypes, RWTypes, ReadTypes, WriteTypes
    <3>3. QED
      BY <3>1, <3>2 DEF IssueType
  <2>4. /\ second.cmd_type = "ACTIVATE" => ~(IsReadWrite(first) /\ BankOf(first.addr) = b)
        /\ IsReadWrite(second) =>
             /\ between[b].row_hit_count_ = before[b].row_hit_count_
             /\ ~(first.cmd_type = "ACTIVATE" /\ BankOf(first.addr) = b)
             /\ ~IsReadWrite(first)
    BY <1>3, <2>3, SecondSpaced
  <2>5. Touched(mid, {second}) = Touched(seen, cmds)
    BY <1>3, <2>4, TouchedTwo
  <2>6. ASSUME IsReadWrite(second)
        PROVE  (before[b].row_hit_count_ # 0) <=> b \in seen
    <3>1. (between[b].row_hit_count_ # 0) <=> b \in mid
      BY <2>2, <2>6 DEF Told
    <3>2. b \in mid <=> b \in seen
      BY <2>4, <2>6, TouchedOne
    <3>3. QED
      BY <2>4, <2>6, <3>1, <3>2
  <2>7. Told(before, seen, cmds)
    BY <1>3, <2>1, <2>6 DEF Told
  <2>8. QED
    BY <2>2, <2>5, <2>7
<1>4. QED
  BY <1>1, <1>2, <1>3 DEF Ran

LEMMA AgedHits ==
    ASSUME NEW after, NEW before, Aged(after, before), NEW seen, HitsCounted(before, seen)
    PROVE  HitsCounted(after, seen)
BY DEF Aged, HitsCounted, Hit

(* The inductive invariant: the counts of all channels are right.          *)
AllHits == \A ch \in Channels : HitsCounted(BanksOf(ctrls_[ch]), touched[ch])

(* In a cycle every channel tells the truth about its accesses.            *)
LEMMA HitsTick ==
    ASSUME RowsSpaced, TypeOK, AllSound, AllHits, ClockTick, NEW ch \in Channels
    PROVE  LET cmds == Seen(ctrls_'[ch])
           IN /\ Told(BanksOf(ctrls_[ch]), touched[ch], cmds)
              /\ HitsCounted(BanksOf(ctrls_'[ch]), Touched(touched[ch], cmds))
<1> DEFINE cmds == Seen(ctrls_'[ch])
           before == BanksOf(ctrls_[ch])
           after == BanksOf(ctrls_'[ch])
<1>1. PICK end : Ran(end, before, cmds) /\ Aged(after, end)
  BY ChannelRuns
<1>2. HitsCounted(before, touched[ch])
  BY DEF AllHits
<1> HIDE DEF cmds, before, after
<1>3. HitsCounted(end, Touched(touched[ch], cmds)) /\ Told(before, touched[ch], cmds)
  BY <1>1, <1>2, RanHits
<1>4. HitsCounted(after, Touched(touched[ch], cmds))
  BY <1>1, <1>3, AgedHits
<1>5. QED
  BY <1>3, <1>4 DEF cmds, before, after

(* A row hit is counted exactly for the accesses to a row that was         *)
(* accessed before since it was activated, whether the row was closed by a *)
(* precharge, by an access with auto-precharge, for another row or for a   *)
(* refresh, and also when two commands are issued per cycle, provided the  *)
(* delays keep the opening of a row and an access to it apart.             *)
THEOREM RowHitsAreReal ==
    ASSUME RowsSpaced PROVE PSpec => RowHitsReal
<1>1. PSpec => []TypeOK /\ []AllSound
  BY PhasesRun, TypeCorrect, ControllersStaySound, PTL
<1>2. PInit => AllHits
  <2> SUFFICES ASSUME PInit, NEW ch \in Channels, NEW b \in Banks
               PROVE  Hit(BanksOf(ctrls_[ch])[b], b \in touched[ch])
    BY DEF AllHits, HitsCounted
  <2>1. BanksOf(ctrls_[ch])[b] = NewBank /\ b \notin touched[ch]
    BY NewBanks DEF PInit
  <2>2. QED
    BY <2>1 DEF Hit, NewBank
<1>3. TypeOK /\ AllSound /\ AllHits /\ [PNext]_pvars => AllHits'
  <2> SUFFICES ASSUME TypeOK, AllSound, AllHits, [PNext]_pvars PROVE AllHits'
    OBVIOUS
  <2>1. ASSUME NEW t \in Requests, PAddTransaction(t) PROVE AllHits'
    <3>1. \A ch \in Channels : BanksOf(ctrls_'[ch]) = BanksOf(ctrls_[ch])
      BY <2>1, ArrivalKeepsBanks DEF PAddTransaction
    <3>2. touched' = touched
      BY <2>1 DEF PAddTransaction
    <3>3. QED
      BY <3>1, <3>2 DEF AllHits
  <2>2. CASE PClockTick
    <3> SUFFICES ASSUME NEW ch \in Channels
                 PROVE  HitsCounted(BanksOf(ctrls_'[ch]), touched'[ch])
      BY DEF AllHits, HitsCounted, Hit, BanksOf
    <3>1. touched'[ch] = Touched(touched[ch], Seen(ctrls_'[ch]))
      BY <2>2 DEF PClockTick, Issued, Seen
    <3>2. QED
      BY <2>2, <3>1, HitsTick DEF PClockTick
  <2>3. CASE stats_mo \/ UNCHANGED pvars
    BY <2>3 DEF stats_mo, pvars, vars, AllHits
  <2>4. QED
    BY <2>1, <2>2, <2>3 DEF PNext
<1>4. TypeOK /\ AllSound /\ AllHits =>
        [ClockTick => \A ch \in Channels : \A cmd \in Accesses(ch, RWTypes) :
           RowHit(ch, cmd) <=> BankOf(cmd.addr) \in touched[ch]]_pvars
  <2> SUFFICES ASSUME TypeOK, AllSound, AllHits, ClockTick, NEW ch \in Channels,
                      NEW cmd \in Accesses(ch, RWTypes)
               PROVE  RowHit(ch, cmd) <=> BankOf(cmd.addr) \in touched[ch]
    OBVIOUS
  <2>1. Told(BanksOf(ctrls_[ch]), touched[ch], Seen(ctrls_'[ch]))
    BY HitsTick
  <2>2. cmd \in Seen(ctrls_'[ch]) /\ IsReadWrite(cmd)
    BY DEF Accesses, Issued, Seen, IsReadWrite
  <2>3. QED
    BY <2>1, <2>2 DEF Told, RowHit, BankIn, BanksOf
<1>5. QED
  BY <1>1, <1>2, <1>3, <1>4, PTL DEF PSpec, RowHitsReal

-----------------------------------------------------------------------------
(* The accesses of a bank have finished when it is precharged and when it  *)
(* is activated, refreshed or sent to sleep.                               *)

(* From an ACTIVATE, READ or WRITE to a PRECHARGE.                         *)
Finish == [act |-> config.tRAS, rd |-> read_to_precharge, wr |-> write_to_precharge]

Reopening == {"ACTIVATE", "REFRESH", "REFRESH_BANK", "SREF_ENTER"}

(* The timers of a bank cover what is left of its accesses, d cycles after *)
(* the last of each kind.                                                  *)
Rested(bank, d) ==
    \A kind \in Kinds :
        IF bank.state_ = "OPEN"
        THEN bank.cmd_timing_["PRECHARGE"] + d[kind] >= Finish[kind]
        ELSE \A t \in Reopening :
               bank.cmd_timing_[t] + d[kind] >= Finish[kind] + config.tRP

Distances == [Kinds -> Nat]

(* The distances after cmd, in the cycle of cmd.                           *)
After(d, cmd, b) ==
    [kind \in Kinds |-> IF BankOf(cmd.addr) = b /\ OfKind(kind, cmd) THEN 0 ELSE d[kind]]

LEMMA FinishIsNat ==
    /\ config.tRP \in Nat /\ config.tRAS \in Nat
    /\ read_to_precharge \in Nat /\ write_to_precharge \in Nat
    /\ \A kind \in Kinds : Finish[kind] \in Nat
BY DelaysAreNat DEF Finish, Kinds, read_to_precharge, write_to_precharge, WL

LEMMA AfterTyped ==
    ASSUME NEW d \in Distances, NEW cmd, NEW b
    PROVE  /\ After(d, cmd, b) \in Distances
           /\ \A kind \in Kinds : After(d, cmd, b)[kind] <= d[kind]
BY DEF After, Distances

(* A command that has no kind leaves the distances alone.                  *)
LEMMA AfterOthers ==
    ASSUME NEW d \in Distances, NEW cmd \in IssueType, NEW b,
           \/ b \notin Targets(cmd)
           \/ cmd.cmd_type \notin RWTypes \cup {"ACTIVATE"}
    PROVE  After(d, cmd, b) = d
<1>1. \A kind \in Kinds : OfKind(kind, cmd) => cmd.cmd_type \in RWTypes \cup {"ACTIVATE"}
  BY DEF Kinds, OfKind, IsRead, IsWrite, RWTypes
<1>2. cmd.cmd_type \in RWTypes \cup {"ACTIVATE"} => ~IsRankCMD(cmd)
  BY DEF IsRankCMD, RankTypes, RWTypes, ReadTypes, WriteTypes
<1>3. \A kind \in Kinds : ~(BankOf(cmd.addr) = b /\ OfKind(kind, cmd))
  BY <1>1, <1>2, TargetOfBank
<1>4. QED
  BY <1>3 DEF After, Distances

(* A command keeps the banks rested, if it does not precharge by itself.   *)
LEMMA MovedRests ==
    ASSUME NEW old, NEW new, NEW cmd \in IssueType, NEW b \in Banks,
           BankMoved(new, old, cmd, b), ByPolicy(cmd), ~ClosePage,
           NEW d \in Distances, Rested(old, d)
    PROVE  Rested(new, After(d, cmd, b))
<1> DEFINE t == cmd.cmd_type
           row == TimingRow(cmd, b)
           e == After(d, cmd, b)
           New(u) == new.cmd_timing_[u]
           Old(u) == old.cmd_timing_[u]
<1>1. /\ old \in BankType /\ new \in BankType
      /\ \A u \in CommandType : New(u) \in Nat /\ Old(u) \in Nat /\ New(u) >= Old(u)
      /\ \A u \in CommandType : u \in DOMAIN row => New(u) >= row[u]
  BY DEF BankMoved, BankType
<1>2. e \in Distances
  BY AfterTyped
<1>3. "PRECHARGE" \in CommandType /\ Reopening \subseteq CommandType
  BY DEF CommandType, Reopening, RankTypes
<1>4. \A kind \in Kinds : d[kind] \in Nat /\ e[kind] \in Nat /\ Finish[kind] \in Nat
  BY <1>2, FinishIsNat DEF Distances
<1>5. config.tRP \in Nat
  BY FinishIsNat
<1>6. CASE e = d /\ (new.state_ = "OPEN" <=> old.state_ = "OPEN")
  <2> HIDE DEF e, New, Old
  <2>1. CASE old.state_ = "OPEN"
    <3>1. \A kind \in Kinds : Old("PRECHARGE") + d[kind] >= Finish[kind]
      BY <2>1 DEF Rested, Old
    <3>2. \A kind \in Kinds : New("PRECHARGE") + d[kind] >= Finish[kind]
      BY <1>1, <1>3, <1>4, <3>1
    <3>3. QED
      BY <1>6, <2>1, <3>2 DEF Rested, New, e
  <2>2. CASE old.state_ # "OPEN"
    <3>1. \A kind \in Kinds : \A u \in Reopening : Old(u) + d[kind] >= Finish[kind] + config.tRP
      BY <2>2 DEF Rested, Old
    <3>2. ASSUME NEW kind \in Kinds, NEW u \in Reopening
          PROVE  New(u) + d[kind] >= Finish[kind] + config.tRP
      <4>1. u \in CommandType
        BY <1>3
      <4>2. Old(u) + d[kind] >= Finish[kind] + config.tRP
        BY <3>1
      <4>3. QED
        BY <1>1, <1>4, <1>5, <4>1, <4>2
    <3>3. QED
      BY <1>6, <2>2, <3>2 DEF Rested, New, e
  <2>3. QED
    BY <2>1, <2>2
<1>7. CASE b \notin Targets(cmd)
  BY <1>6, <1>7, AfterOthers DEF BankMoved
<1>8. CASE b \in Targets(cmd)
  <2>1. /\ BankAccepts(old, t) /\ new.state_ = BankUpdateState(old, cmd).state_
        /\ t # "SREF_EXIT" => Old(t) = 0
    BY <1>8 DEF BankMoved
  <2>2. CASE old.state_ = "OPEN" /\ new.state_ = "OPEN" /\ t \in {"READ", "WRITE"}
    <3>1. row = same_bank[t] /\ b = BankOf(cmd.addr)
      <4>1. ~IsRankCMD(cmd)
        BY <2>2 DEF IsRankCMD, RankTypes
      <4>2. QED
        BY <1>8, <4>1, TargetOfBank
    <3>2. t \in CommandType
      BY <2>2 DEF CommandType, RWTypes, ReadTypes, WriteTypes
    <3>3. "PRECHARGE" \in DOMAIN row
          /\ row["PRECHARGE"] = IF t = "READ" THEN read_to_precharge ELSE write_to_precharge
      BY <2>2, <3>1, <3>2 DEF same_bank, Also
    <3>4. New("PRECHARGE") >= IF t = "READ" THEN read_to_precharge ELSE write_to_precharge
      BY <1>1, <1>3, <3>3
    <3>5. ASSUME NEW kind \in Kinds PROVE New("PRECHARGE") + e[kind] >= Finish[kind]
      <4>1. Old("PRECHARGE") + d[kind] >= Finish[kind]
        BY <2>2 DEF Rested
      <4>2. CASE e[kind] = d[kind]
        <5> HIDE DEF New, Old, e, row
        <5>1. QED
          BY <1>1, <1>3, <1>4, <4>1, <4>2
      <4>3. CASE e[kind] # d[kind]
        <5>1. OfKind(kind, cmd)
          BY <4>3 DEF After
        <5>2. Finish[kind] = IF t = "READ" THEN read_to_precharge ELSE write_to_precharge
          <6>1. kind \in {"act", "rd", "wr"}
            BY DEF Kinds
          <6>2. (t = "READ" /\ kind = "rd") \/ (t = "WRITE" /\ kind = "wr")
            BY <2>2, <5>1, <6>1 DEF OfKind, IsRead, IsWrite, ReadTypes, WriteTypes
          <6>3. Finish["rd"] = read_to_precharge /\ Finish["wr"] = write_to_precharge
            BY DEF Finish
          <6>4. QED
            BY <6>2, <6>3
        <5>3. New("PRECHARGE") >= Finish[kind]
          BY <3>4, <5>2
        <5> HIDE DEF New, Old, e, row
        <5>4. QED
          BY <1>1, <1>3, <1>4, <5>3
      <4>4. QED
        BY <4>2, <4>3
    <3>6. QED
      BY <2>2, <3>5 DEF Rested
  <2>3. CASE /\ old.state_ = "OPEN" /\ new.state_ # "OPEN"
             /\ t \in {"READ_PRECHARGE", "WRITE_PRECHARGE", "PRECHARGE"}
    <3>1. t = "PRECHARGE"
      BY <2>3 DEF ByPolicy, IsReadWrite, RWTypes, ReadTypes, WriteTypes
    <3>2. row = same_bank[t]
      <4>1. ~IsRankCMD(cmd)
        BY <3>1 DEF IsRankCMD, RankTypes
      <4>2. QED
        BY <1>8, <4>1, TargetOfBank
    <3>3. e = d
      BY <3>1, AfterOthers DEF RWTypes, ReadTypes, WriteTypes
    <3>4. ASSUME NEW u \in Reopening PROVE New(u) >= config.tRP
      <4>1. u \in DOMAIN row /\ row[u] = config.tRP
        BY <1>3, <3>1, <3>2 DEF same_bank, Also, RefreshRow, Reopening
      <4>2. QED
        BY <1>1, <1>3, <4>1
    <3>5. ASSUME NEW kind \in Kinds PROVE d[kind] >= Finish[kind]
      <4>1. Old("PRECHARGE") + d[kind] >= Finish[kind] /\ Old("PRECHARGE") = 0
        BY <2>1, <2>3, <3>1 DEF Rested
      <4> HIDE DEF Old
      <4>2. QED
        BY <1>4, <4>1
    <3>6. ASSUME NEW kind \in Kinds, NEW u \in Reopening
          PROVE  New(u) + d[kind] >= Finish[kind] + config.tRP
      <4>1. New(u) >= config.tRP /\ d[kind] >= Finish[kind] /\ New(u) \in Nat
        BY <1>1, <1>3, <3>4, <3>5
      <4> HIDE DEF New
      <4>2. QED
        BY <1>4, <1>5, <4>1
    <3>7. QED
      BY <2>3, <3>3, <3>6 DEF Rested
  <2>4. CASE old.state_ # "OPEN" /\ new.state_ = "OPEN" /\ t = "ACTIVATE"
    <3>1. row = same_bank[t] /\ b = BankOf(cmd.addr)
      <4>1. ~IsRankCMD(cmd)
        BY <2>4 DEF IsRankCMD, RankTypes
      <4>2. QED
        BY <1>8, <4>1, TargetOfBank
    <3>2. "PRECHARGE" \in DOMAIN row /\ row["PRECHARGE"] = config.tRAS
      BY <1>3, <2>4, <3>1 DEF same_bank, Also, CommandType
    <3>3. New("PRECHARGE") >= config.tRAS /\ New("PRECHARGE") \in Nat
      BY <1>1, <1>3, <3>2
    <3>4. ASSUME NEW kind \in Kinds PROVE New("PRECHARGE") + e[kind] >= Finish[kind]
      <4>1. d[kind] >= Finish[kind]
        <5>1. Old("ACTIVATE") + d[kind] >= Finish[kind] + config.tRP /\ Old("ACTIVATE") = 0
          BY <2>1, <2>4 DEF Rested, Reopening
        <5> HIDE DEF Old
        <5>2. QED
          BY <1>4, <1>5, <5>1
      <4>2. CASE kind = "act"
        <5>1. Finish[kind] = config.tRAS
          BY <4>2 DEF Finish
        <5> HIDE DEF New, e
        <5>2. QED
          BY <1>4, <3>3, <5>1
      <4>3. CASE kind # "act"
        <5>1. e[kind] = d[kind]
          BY <2>4, <4>3 DEF After, Kinds, OfKind, IsRead, IsWrite, ReadTypes, WriteTypes
        <5> HIDE DEF New, e
        <5>2. QED
          BY <1>4, <3>3, <4>1, <5>1
      <4>4. QED
        BY <4>2, <4>3
    <3>5. QED
      BY <2>4, <3>4 DEF Rested
  <2>5. CASE /\ old.state_ # "OPEN" /\ new.state_ # "OPEN"
             /\ t \notin RWTypes \cup {"ACTIVATE", "PRECHARGE"}
    BY <1>6, <2>5, AfterOthers
  <2>6. QED
    BY <1>1, <2>1, <2>2, <2>3, <2>4, <2>5, StateMoves
<1>9. QED
  BY <1>7, <1>8

(* What finds the bank precharged comes late enough.                       *)
LEMMA MovedRecovered ==
    ASSUME NEW old, NEW new, NEW cmd \in IssueType, NEW b \in Banks,
           BankMoved(new, old, cmd, b), NEW d \in Distances, Rested(old, d),
           NeedsPrecharged(cmd, b)
    PROVE  \A kind \in Kinds : d[kind] >= Finish[kind] + config.tRP
<1> DEFINE t == cmd.cmd_type
<1>1. t \in Reopening /\ b \in Targets(cmd)
  BY DEF NeedsPrecharged, Reopening
<1>2. BankAccepts(old, t) /\ old.cmd_timing_[t] = 0 /\ old \in BankType
  BY <1>1 DEF BankMoved, Reopening
<1>3. old.state_ # "OPEN"
  BY <1>1, <1>2 DEF BankAccepts, Reopening, RWTypes, ReadTypes, WriteTypes
<1>4. \A kind \in Kinds : old.cmd_timing_[t] + d[kind] >= Finish[kind] + config.tRP
  BY <1>1, <1>3 DEF Rested
<1>5. \A kind \in Kinds : d[kind] \in Nat
  BY DEF Distances
<1>6. QED
  BY <1>2, <1>4, <1>5

(* The distances after all commands of a cycle, in that cycle.             *)
AfterAll(d, seen, b) ==
    [kind \in Kinds |->
        IF \E cmd \in seen : BankOf(cmd.addr) = b /\ OfKind(kind, cmd) THEN 0 ELSE d[kind]]

LEMMA RanRests ==
    ASSUME NEW after, NEW before, NEW seen, Ran(after, before, seen), ~ClosePage,
           NEW b \in Banks, NEW d \in Distances, Rested(before[b], d)
    PROVE  /\ Rested(after[b], AfterAll(d, seen, b))
           /\ \A cmd \in seen : NeedsPrecharged(cmd, b) =>
                \A kind \in Kinds : d[kind] >= Finish[kind] + config.tRP
<1>1. CASE seen = {} /\ after = before
  <2>1. AfterAll(d, seen, b) = d
    BY <1>1 DEF AfterAll, Distances
  <2>2. QED
    BY <1>1, <2>1
<1>2. ASSUME NEW cmd, seen = {cmd}, Moved(after, before, cmd)
      PROVE  /\ Rested(after[b], AfterAll(d, seen, b))
             /\ \A x \in seen : NeedsPrecharged(x, b) =>
                  \A kind \in Kinds : d[kind] >= Finish[kind] + config.tRP
  <2>1. cmd \in IssueType /\ ByPolicy(cmd) /\ BankMoved(after[b], before[b], cmd, b)
    BY <1>2 DEF Moved
  <2>2. AfterAll(d, seen, b) = After(d, cmd, b)
    BY <1>2 DEF AfterAll, After
  <2>3. Rested(after[b], After(d, cmd, b))
    BY <2>1, MovedRests
  <2>4. NeedsPrecharged(cmd, b) => \A kind \in Kinds : d[kind] >= Finish[kind] + config.tRP
    BY <2>1, MovedRecovered
  <2>5. QED
    BY <1>2, <2>2, <2>3, <2>4
<1>3. ASSUME NEW first, NEW second, NEW between, seen = {first, second},
             Moved(between, before, first), Moved(after, between, second)
      PROVE  /\ Rested(after[b], AfterAll(d, seen, b))
             /\ \A x \in seen : NeedsPrecharged(x, b) =>
                  \A kind \in Kinds : d[kind] >= Finish[kind] + config.tRP
  <2> DEFINE mid == After(d, first, b)
             Late(e) == \A kind \in Kinds : e[kind] >= Finish[kind] + config.tRP
  <2>1. first \in IssueType /\ ByPolicy(first) /\ BankMoved(between[b], before[b], first, b)
    BY <1>3 DEF Moved
  <2>2. second \in IssueType /\ ByPolicy(second) /\ BankMoved(after[b], between[b], second, b)
    BY <1>3 DEF Moved
  <2>3. Rested(between[b], mid)
    BY <2>1, MovedRests
  <2>4. mid \in Distances /\ \A kind \in Kinds : mid[kind] <= d[kind]
    BY AfterTyped
  <2>5. AfterAll(d, seen, b) = After(mid, second, b)
    BY <1>3 DEF AfterAll, After
  <2> HIDE DEF mid
  <2>6. Rested(after[b], After(mid, second, b))
    BY <2>2, <2>3, <2>4, MovedRests
  <2>7. NeedsPrecharged(first, b) => Late(d)
    BY <2>1, MovedRecovered
  <2>8. NeedsPrecharged(second, b) => Late(mid)
    BY <2>2, <2>3, <2>4, MovedRecovered
  <2>9. Late(mid) => Late(d)
    <3>1. \A kind \in Kinds : mid[kind] \in Nat /\ d[kind] \in Nat /\ Finish[kind] \in Nat
      BY <2>4, FinishIsNat DEF Distances
    <3>2. QED
      BY <2>4, <3>1, FinishIsNat
  <2>10. QED
    BY <1>3, <2>5, <2>6, <2>7, <2>8, <2>9
<1>4. QED
  BY <1>1, <1>2, <1>3 DEF Ran

(* Horizon is as long as the longest time of recovery.                     *)
LEMMA HorizonCovers ==
    Horizon \in Nat /\ \A kind \in Kinds : Horizon >= Finish[kind] + config.tRP
<1> DEFINE rd == config.AL + config.tRTP
           wr == WL + config.burst_cycle + config.tWR
<1>1. rd \in Nat /\ wr \in Nat /\ config.tRP \in Nat /\ config.tRAS \in Nat
  BY DelaysAreNat DEF WL
<1>2. Horizon = Later(tRC, Later(rd, wr) + config.tRP) /\ tRC = config.tRAS + config.tRP
  BY DEF Horizon, tRC
<1>3. Finish["act"] = config.tRAS /\ Finish["rd"] = rd /\ Finish["wr"] = wr
  BY DEF Finish, read_to_precharge, write_to_precharge
<1> HIDE DEF rd, wr
<1>4. Horizon \in Nat /\ Horizon >= config.tRAS + config.tRP
      /\ Horizon >= rd + config.tRP /\ Horizon >= wr + config.tRP
  BY <1>1, <1>2 DEF Later
<1>5. QED
  BY <1>3, <1>4 DEF Kinds

(* A cycle on, the banks are still rested.                                 *)
LEMMA AgedRests ==
    ASSUME NEW after, NEW before, Aged(after, before), NEW b \in Banks,
           NEW d \in Distances, Rested(before[b], d), NEW e \in Distances,
           \A kind \in Kinds : e[kind] >= d[kind] + 1 \/ e[kind] >= Horizon
    PROVE  Rested(after[b], e)
<1> DEFINE New(u) == after[b].cmd_timing_[u]
           Old(u) == before[b].cmd_timing_[u]
<1>1. /\ \A u \in CommandType : New(u) \in Nat /\ Old(u) \in Nat /\ New(u) >= Old(u) - 1
      /\ after[b].state_ = before[b].state_
  BY DEF Aged, BankType
<1>2. "PRECHARGE" \in CommandType /\ Reopening \subseteq CommandType
  BY DEF CommandType, Reopening, RankTypes
<1>3. \A kind \in Kinds : d[kind] \in Nat /\ e[kind] \in Nat /\ Finish[kind] \in Nat
  BY FinishIsNat DEF Distances
<1>4. config.tRP \in Nat /\ Horizon \in Nat
      /\ \A kind \in Kinds : Horizon >= Finish[kind] + config.tRP
  BY FinishIsNat, HorizonCovers
<1>5. CASE before[b].state_ = "OPEN"
  <2>1. \A kind \in Kinds : Old("PRECHARGE") + d[kind] >= Finish[kind]
    BY <1>5 DEF Rested
  <2> HIDE DEF New, Old
  <2>2. ASSUME NEW kind \in Kinds PROVE New("PRECHARGE") + e[kind] >= Finish[kind]
    <3>1. /\ New("PRECHARGE") \in Nat /\ Old("PRECHARGE") \in Nat
          /\ New("PRECHARGE") >= Old("PRECHARGE") - 1
      BY <1>1, <1>2
    <3>2. Old("PRECHARGE") + d[kind] >= Finish[kind]
      BY <2>1
    <3>3. QED
      BY <1>3, <1>4, <3>1, <3>2
  <2>3. QED
    BY <1>1, <1>5, <2>2 DEF Rested, New
<1>6. CASE before[b].state_ # "OPEN"
  <2>1. \A kind \in Kinds : \A u \in Reopening : Old(u) + d[kind] >= Finish[kind] + config.tRP
    BY <1>6 DEF Rested
  <2> HIDE DEF New, Old
  <2>2. ASSUME NEW kind \in Kinds, NEW u \in Reopening
        PROVE  New(u) + e[kind] >= Finish[kind] + config.tRP
    <3>1. New(u) \in Nat /\ Old(u) \in Nat /\ New(u) >= Old(u) - 1
      BY <1>1, <1>2
    <3>2. Old(u) + d[kind] >= Finish[kind] + config.tRP
      BY <2>1
    <3>3. QED
      BY <1>3, <1>4, <3>1, <3>2
  <2>3. QED
    BY <1>1, <1>6, <2>2 DEF Rested, New
<1>7. QED
  BY <1>5, <1>6

LEMMA MeasuredTyped ==
    ASSUME NEW d \in [Banks -> Distances], NEW seen
    PROVE  Measured(d, seen) \in [Banks -> Distances]
<1>1. Horizon \in Nat
  BY HorizonCovers
<1>2. \A x \in Banks : \A kind \in Kinds : d[x][kind] \in Nat
  BY DEF Distances
<1>3. QED
  BY <1>1, <1>2 DEF Measured, Distances

(* The monitor measures a cycle per cycle, up to Horizon.                  *)
LEMMA MeasuredAfter ==
    ASSUME NEW d \in [Banks -> Distances], NEW seen, NEW b \in Banks
    PROVE  LET e == Measured(d, seen)[b]
               mid == AfterAll(d[b], seen, b)
           IN /\ mid \in Distances
              /\ \A kind \in Kinds : e[kind] >= mid[kind] + 1 \/ e[kind] >= Horizon
<1>1. Horizon \in Nat
  BY HorizonCovers
<1>2. \A x \in Banks : \A kind \in Kinds : d[x][kind] \in Nat
  BY DEF Distances
<1>3. AfterAll(d[b], seen, b) \in Distances
  BY <1>2 DEF AfterAll, Distances
<1>4. ASSUME NEW kind \in Kinds
      PROVE  Measured(d, seen)[b][kind] >= AfterAll(d[b], seen, b)[kind] + 1
             \/ Measured(d, seen)[b][kind] >= Horizon
  <2> DEFINE hit == \E cmd \in seen : BankOf(cmd.addr) = b /\ OfKind(kind, cmd)
             n == d[b][kind]
  <2>1. Measured(d, seen)[b][kind] = IF hit THEN 1 ELSE IF n < Horizon THEN n + 1 ELSE Horizon
    BY DEF Measured
  <2>2. AfterAll(d[b], seen, b)[kind] = IF hit THEN 0 ELSE n
    BY DEF AfterAll
  <2>3. n \in Nat
    BY <1>2
  <2> HIDE DEF hit, n
  <2>4. QED
    BY <1>1, <2>1, <2>2, <2>3
<1>5. QED
  BY <1>3, <1>4

-----------------------------------------------------------------------------
(* The data bus stays free for the accesses that the timers let through.   *)

Latency(t) == IF t \in ReadTypes THEN RL ELSE WL

(* From ACTIVATE to an access of the row it opens.                         *)
Opens(t) == IF t \in ReadTypes THEN activate_to_read ELSE activate_to_write

(* The cycles until the bank can accept an access of type t.               *)
Due(bank, t) ==
    IF bank.state_ = "OPEN" THEN bank.cmd_timing_[t]
    ELSE Later(bank.cmd_timing_[t], bank.cmd_timing_["ACTIVATE"] + Opens(t))

(* All data of the cycles use are on the bus before those of an access     *)
(* that any bank can accept.                                               *)
Free(bank, use) == \A t \in RWTypes, k \in use : k < Due(bank, t) + Latency(t)

BusFree(bs, use) == \A b \in Banks : Free(bs[b], use)

(* What the data of an access of type t wait for after those of one of     *)
(* type s.                                                                 *)
Gap(s, t) == Latency(s) + config.burst_cycle - Latency(t)

LatenciesTyped ==
    /\ RL \in Nat /\ WL \in Nat /\ config.burst_cycle \in Nat
    /\ activate_to_read \in Int /\ activate_to_write \in Int

LEMMA LatencyTyped ==
    /\ LatenciesTyped
    /\ \A t : Latency(t) \in Nat /\ Opens(t) \in Int
BY DelaysAreNat DEF LatenciesTyped, Latency, Opens, RL, WL, activate_to_read,
   activate_to_write

(* What a row for accesses holds.                                          *)
LEMMA RWRowDelays ==
    ASSUME NEW t \in RWTypes, NEW r, NEW w, NEW p
    PROVE  \A row \in {RWRow(r, w), Also(RWRow(r, w), "PRECHARGE", p)} :
             t \in DOMAIN row /\ row[t] = IF t \in ReadTypes THEN r ELSE w
<1>1. t # "PRECHARGE"
  BY DEF RWTypes, ReadTypes, WriteTypes
<1>2. t \in DOMAIN RWRow(r, w) /\ RWRow(r, w)[t] = IF t \in ReadTypes THEN r ELSE w
  BY DEF RWRow
<1>3. QED
  BY <1>1, <1>2 DEF Also

(* The delays of the tables, whichever access comes first.                 *)
LEMMA DelaysCover ==
    /\ read_to_read_l >= config.burst_cycle /\ read_to_read_s >= config.burst_cycle
    /\ read_to_read_o >= config.burst_cycle /\ write_to_write_o >= config.burst_cycle
    /\ read_to_write >= RL + config.burst_cycle - WL
    /\ read_to_write_o >= RL + config.burst_cycle - WL
    /\ write_to_read_l >= WL + config.burst_cycle - RL
    /\ write_to_read_s >= WL + config.burst_cycle - RL
    /\ write_to_read_o >= WL + config.burst_cycle - RL
    /\ read_to_read_l \in Int /\ read_to_read_s \in Int /\ read_to_read_o \in Int
    /\ write_to_write_o \in Int /\ read_to_write \in Int /\ read_to_write_o \in Int
    /\ write_to_read_l \in Int /\ write_to_read_s \in Int /\ write_to_read_o \in Int
<1>1. /\ RL \in Nat /\ WL \in Nat /\ config.burst_cycle \in Nat /\ config.tRTRS \in Nat
      /\ config.tCCD_S \in Nat /\ config.tWTR_S \in Nat
      /\ LongOr(config.tCCD_L, config.tCCD_S) \in Nat
      /\ LongOr(config.tWTR_L, config.tWTR_S) \in Nat
  BY DelaysAreNat DEF RL, WL, LongOr
<1>2. read_delay = RL + config.burst_cycle /\ write_delay = WL + config.burst_cycle
  BY DEF read_delay, write_delay
<1>3. /\ read_to_read_l >= config.burst_cycle /\ read_to_read_s >= config.burst_cycle
      /\ read_to_read_l \in Int /\ read_to_read_s \in Int
  BY <1>1 DEF read_to_read_l, read_to_read_s, Later
<1>4. /\ read_to_read_o >= config.burst_cycle /\ write_to_write_o >= config.burst_cycle
      /\ read_to_write >= RL + config.burst_cycle - WL
      /\ read_to_read_o \in Int /\ write_to_write_o \in Int /\ read_to_write \in Int
  BY <1>1 DEF read_to_read_o, write_to_write_o, read_to_write
<1>5. /\ read_to_write_o >= RL + config.burst_cycle - WL
      /\ write_to_read_o >= WL + config.burst_cycle - RL
      /\ read_to_write_o \in Int /\ write_to_read_o \in Int
  BY <1>1, <1>2 DEF read_to_write_o, write_to_read_o
<1>6. /\ write_to_read_l >= WL + config.burst_cycle - RL
      /\ write_to_read_s >= WL + config.burst_cycle - RL
      /\ write_to_read_l \in Int /\ write_to_read_s \in Int
  BY <1>1, <1>2 DEF write_to_read_l, write_to_read_s
<1>7. QED
  BY <1>3, <1>4, <1>5, <1>6

(* The row that a bank takes from an access holds back every access by the *)
(* gap, unless the access closes the row of the bank.                      *)
LEMMA RowGap ==
    ASSUME NEW cmd \in IssueType, IsReadWrite(cmd), NEW b \in Banks,
           b = BankOf(cmd.addr) => cmd.cmd_type \in {"READ", "WRITE"},
           NEW t \in RWTypes
    PROVE  LET row == TimingRow(cmd, b)
           IN t \in DOMAIN row /\ row[t] >= Gap(cmd.cmd_type, t) /\ row[t] \in Int
<1> DEFINE s == cmd.cmd_type
           row == TimingRow(cmd, b)
           g(r, w) == IF t \in ReadTypes THEN r >= Gap(s, t) /\ r \in Int
                                         ELSE w >= Gap(s, t) /\ w \in Int
<1>1. s \in RWTypes /\ s \in CommandType /\ ~IsRankCMD(cmd)
  BY DEF IsReadWrite, CommandType, IsRankCMD, RankTypes, RWTypes, ReadTypes, WriteTypes
<1>2. Gap(s, t) = (IF s \in ReadTypes THEN RL ELSE WL) + config.burst_cycle
                    - (IF t \in ReadTypes THEN RL ELSE WL)
  BY DEF Gap, Latency
<1>3. RL \in Nat /\ WL \in Nat /\ config.burst_cycle \in Nat
  BY LatencyTyped DEF LatenciesTyped
<1>4. \/ row = same_bank[s] /\ s \in {"READ", "WRITE"}
      \/ row = other_banks_same_bankgroup[s]
      \/ row = other_bankgroups_same_rank[s]
      \/ row = other_ranks[s]
  <2>1. b = <<b[1], b[2], b[3]>>
    BY DEF Banks
  <2>2. row = same_bank[s] => b = BankOf(cmd.addr)
                              \/ row = other_banks_same_bankgroup[s]
                              \/ row = other_bankgroups_same_rank[s]
                              \/ row = other_ranks[s]
    BY <1>1, <2>1 DEF TimingRow, BankOf
  <2>3. \/ row = same_bank[s] \/ row = other_banks_same_bankgroup[s]
        \/ row = other_bankgroups_same_rank[s] \/ row = other_ranks[s]
    BY <1>1 DEF TimingRow
  <2>4. QED
    BY <2>2, <2>3
<1> HIDE DEF row
<1>5. CASE s \in ReadTypes
  <2>0. s \in {"READ", "READ_PRECHARGE"}
    BY <1>5 DEF ReadTypes
  <2>1. \/ row = RWRow(read_to_read_l, read_to_write)
        \/ row = Also(RWRow(read_to_read_l, read_to_write), "PRECHARGE", read_to_precharge)
        \/ row = RWRow(read_to_read_s, read_to_write)
        \/ row = RWRow(read_to_read_o, read_to_write_o)
    <3>1. CASE row = same_bank[s] /\ s \in {"READ", "WRITE"}
      BY <1>1, <2>0, <3>1 DEF same_bank, ReadTypes, WriteTypes
    <3>2. CASE row = other_banks_same_bankgroup[s]
      BY <1>1, <2>0, <3>2 DEF other_banks_same_bankgroup, ReadTypes, WriteTypes
    <3>3. CASE row = other_bankgroups_same_rank[s]
      BY <1>1, <2>0, <3>3 DEF other_bankgroups_same_rank, ReadTypes, WriteTypes
    <3>4. CASE row = other_ranks[s]
      BY <1>1, <2>0, <3>4 DEF other_ranks, ReadTypes, WriteTypes
    <3>5. QED
      BY <1>4, <3>1, <3>2, <3>3, <3>4
  <2>2. /\ g(read_to_read_l, read_to_write) /\ g(read_to_read_s, read_to_write)
        /\ g(read_to_read_o, read_to_write_o)
    BY <1>2, <1>3, <1>5, DelaysCover
  <2>3. QED
    BY <2>1, <2>2, RWRowDelays DEF row
<1>6. CASE s \in WriteTypes /\ s \notin ReadTypes
  <2>0. s \in {"WRITE", "WRITE_PRECHARGE"}
    BY <1>6 DEF WriteTypes
  <2>1. \/ row = RWRow(write_to_read_l, write_to_write_l)
        \/ row = Also(RWRow(write_to_read_l, write_to_write_l),
                      "PRECHARGE", write_to_precharge)
        \/ row = RWRow(write_to_read_s, write_to_write_s)
        \/ row = RWRow(write_to_read_o, write_to_write_o)
    <3>1. CASE row = same_bank[s] /\ s \in {"READ", "WRITE"}
      BY <1>1, <2>0, <3>1 DEF same_bank, ReadTypes, WriteTypes
    <3>2. CASE row = other_banks_same_bankgroup[s]
      BY <1>1, <2>0, <3>2 DEF other_banks_same_bankgroup, ReadTypes, WriteTypes
    <3>3. CASE row = other_bankgroups_same_rank[s]
      BY <1>1, <2>0, <3>3 DEF other_bankgroups_same_rank, ReadTypes, WriteTypes
    <3>4. CASE row = other_ranks[s]
      BY <1>1, <2>0, <3>4 DEF other_ranks, ReadTypes, WriteTypes
    <3>5. QED
      BY <1>4, <3>1, <3>2, <3>3, <3>4
  <2>2. /\ g(write_to_read_l, write_to_write_l) /\ g(write_to_read_s, write_to_write_s)
        /\ g(write_to_read_o, write_to_write_o)
    BY <1>2, <1>3, <1>6, DelaysCover DEF write_to_write_l, write_to_write_s
  <2>3. QED
    BY <2>1, <2>2, RWRowDelays DEF row
<1>7. QED
  BY <1>1, <1>5, <1>6 DEF RWTypes, row

LEMMA DueTyped ==
    ASSUME NEW bank \in BankType, NEW t \in RWTypes
    PROVE  /\ Due(bank, t) \in Int /\ bank.cmd_timing_[t] \in Nat
           /\ bank.cmd_timing_["ACTIVATE"] \in Nat
           /\ Due(bank, t) >= bank.cmd_timing_[t]
           /\ bank.state_ # "OPEN" =>
                Due(bank, t) >= bank.cmd_timing_["ACTIVATE"] + Opens(t)
<1>1. t \in CommandType /\ "ACTIVATE" \in CommandType
  BY DEF CommandType
<1> DEFINE n == bank.cmd_timing_[t]
           m == bank.cmd_timing_["ACTIVATE"] + Opens(t)
<1>2. n \in Nat /\ m \in Int /\ bank.cmd_timing_["ACTIVATE"] \in Nat
  <2>1. bank.cmd_timing_[t] \in Nat /\ bank.cmd_timing_["ACTIVATE"] \in Nat
    BY <1>1 DEF BankType
  <2>2. QED
    BY <2>1, LatencyTyped
<1>3. Due(bank, t) = IF bank.state_ = "OPEN" THEN n ELSE Later(n, m)
  BY DEF Due
<1> HIDE DEF n, m
<1>4. Later(n, m) \in Int /\ Later(n, m) >= n /\ Later(n, m) >= m
  BY <1>2 DEF Later
<1>5. /\ Due(bank, t) \in Int /\ Due(bank, t) >= n
      /\ bank.state_ # "OPEN" => Due(bank, t) >= m
  BY <1>2, <1>3, <1>4
<1>6. QED
  BY <1>2, <1>5 DEF n, m

(* No command brings the next access of a bank forward: an ACTIVATE only   *)
(* replaces the time that it was itself waited for.                        *)
LEMMA DueGrows ==
    ASSUME NEW old, NEW new, NEW cmd \in IssueType, NEW b \in Banks,
           BankMoved(new, old, cmd, b), NEW t \in RWTypes
    PROVE  Due(new, t) >= Due(old, t)
<1> DEFINE type == cmd.cmd_type
           row == TimingRow(cmd, b)
           New(u) == new.cmd_timing_[u]
           Old(u) == old.cmd_timing_[u]
<1>1. /\ old \in BankType /\ new \in BankType
      /\ \A u \in CommandType : New(u) \in Nat /\ Old(u) \in Nat /\ New(u) >= Old(u)
      /\ \A u \in CommandType : u \in DOMAIN row => New(u) >= row[u]
  BY DEF BankMoved, BankType
<1>2. t \in CommandType /\ "ACTIVATE" \in CommandType
  BY DEF CommandType
<1>3. /\ Due(old, t) = IF old.state_ = "OPEN" THEN Old(t)
                       ELSE Later(Old(t), Old("ACTIVATE") + Opens(t))
      /\ Due(new, t) = IF new.state_ = "OPEN" THEN New(t)
                       ELSE Later(New(t), New("ACTIVATE") + Opens(t))
      /\ Opens(t) \in Int
  BY LatencyTyped DEF Due
<1>4. New(t) \in Nat /\ Old(t) \in Nat /\ New(t) >= Old(t)
      /\ New("ACTIVATE") \in Nat /\ Old("ACTIVATE") \in Nat
      /\ New("ACTIVATE") >= Old("ACTIVATE")
  BY <1>1, <1>2
<1>5. CASE ~(old.state_ # "OPEN" /\ new.state_ = "OPEN")
  <2> HIDE DEF New, Old
  <2>1. QED
    BY <1>3, <1>4, <1>5 DEF Later
<1>6. CASE old.state_ # "OPEN" /\ new.state_ = "OPEN"
  <2>1. b \in Targets(cmd)
    BY <1>6 DEF BankMoved
  <2>2. /\ BankAccepts(old, type) /\ new.state_ = BankUpdateState(old, cmd).state_
        /\ type # "SREF_EXIT" => Old(type) = 0
    BY <2>1 DEF BankMoved
  <2>3. type = "ACTIVATE"
    BY <1>1, <1>6, <2>2, StateMoves
  <2>4. row = same_bank["ACTIVATE"]
    <3>1. ~IsRankCMD(cmd)
      BY <2>3 DEF IsRankCMD, RankTypes
    <3>2. QED
      BY <2>1, <2>3, <3>1, TargetOfBank
  <2>5. t \in DOMAIN row /\ row[t] = Opens(t)
    <3>1. t # "ACTIVATE" /\ t # "PRECHARGE"
      BY DEF RWTypes, ReadTypes, WriteTypes
    <3>2. row = Also(Also(RWRow(activate_to_read, activate_to_write), "ACTIVATE", tRC),
                     "PRECHARGE", config.tRAS)
      BY <1>2, <2>4 DEF same_bank
    <3> HIDE DEF row
    <3>3. QED
      BY <3>1, <3>2 DEF Also, RWRow, Opens
  <2>6. New(t) >= Opens(t)
    BY <1>1, <1>2, <2>5
  <2>7. Old("ACTIVATE") = 0
    BY <2>2, <2>3
  <2> HIDE DEF New, Old
  <2>8. QED
    BY <1>3, <1>4, <1>6, <2>6, <2>7 DEF Later
<1>7. QED
  BY <1>5, <1>6

(* With the page policy that closes rows, the data of a read leave the bus *)
(* before those of a write that opens the row again.                       *)
ReopensLate ==
    ClosePage => readp_to_act + activate_to_write + WL >= RL + config.burst_cycle

(* The data of an access are on the bus before those of the next one.      *)
LEMMA DueAfterBurst ==
    ASSUME ReopensLate, NEW old, NEW new, NEW cmd \in IssueType, ByPolicy(cmd),
           IsReadWrite(cmd), NEW b \in Banks, BankMoved(new, old, cmd, b), NEW t \in RWTypes
    PROVE  Due(new, t) >= Gap(cmd.cmd_type, t)
<1> DEFINE s == cmd.cmd_type
           row == TimingRow(cmd, b)
           New(u) == new.cmd_timing_[u]
<1>1. /\ old \in BankType /\ new \in BankType
      /\ \A u \in CommandType : u \in DOMAIN row => New(u) >= row[u]
  BY DEF BankMoved
<1>2. t \in CommandType /\ "ACTIVATE" \in CommandType /\ s \in CommandType /\ s \in RWTypes
  BY DEF CommandType, IsReadWrite
<1>3. Gap(s, t) \in Int /\ Due(new, t) \in Int /\ New(t) \in Nat /\ Due(new, t) >= New(t)
  BY <1>1, LatencyTyped, DueTyped DEF Gap, LatenciesTyped
<1>4. CASE b = BankOf(cmd.addr) => s \in {"READ", "WRITE"}
  <2>1. t \in DOMAIN row /\ row[t] >= Gap(s, t) /\ row[t] \in Int
    BY <1>4, RowGap
  <2>2. New(t) >= row[t]
    BY <1>1, <1>2, <2>1
  <2> DEFINE n == row[t]
             g == Gap(s, t)
             e == Due(new, t)
             m == New(t)
  <2>3. n \in Int /\ g \in Int /\ e \in Int /\ m \in Nat /\ e >= m /\ m >= n /\ n >= g
    BY <1>3, <2>1, <2>2
  <2> HIDE DEF n, g, e, m, New, row
  <2>4. e >= g
    BY <2>3
  <2>5. QED
    BY <2>4 DEF e, g
<1>5. CASE b = BankOf(cmd.addr) /\ s \in {"READ_PRECHARGE", "WRITE_PRECHARGE"}
  <2>1. ~IsRankCMD(cmd) /\ b \in Targets(cmd) /\ row = same_bank[s]
    <3>1. ~IsRankCMD(cmd)
      BY <1>5 DEF IsRankCMD, RankTypes
    <3>2. QED
      BY <1>5, <3>1, TargetOfBank
  <2>2. new.state_ # "OPEN"
    <3>1. BankAccepts(old, s) /\ new.state_ = BankUpdateState(old, cmd).state_
      BY <2>1 DEF BankMoved
    <3>2. QED
      BY <1>1, <1>5, <3>1, StateMoves DEF RWTypes, ReadTypes, WriteTypes
  <2>3. New("ACTIVATE") \in Nat /\ Due(new, t) >= New("ACTIVATE") + Opens(t)
    BY <1>1, <2>2, DueTyped
  <2>4. "ACTIVATE" \in DOMAIN row
        /\ row["ACTIVATE"] = IF s = "READ_PRECHARGE" THEN readp_to_act ELSE write_to_activate
    BY <1>2, <1>5, <2>1 DEF same_bank, Also
  <2>5. New("ACTIVATE") >= IF s = "READ_PRECHARGE" THEN readp_to_act ELSE write_to_activate
    BY <1>1, <1>2, <2>4
  <2>6. ClosePage
    BY <1>5 DEF ByPolicy
  <2>7. /\ s = "READ_PRECHARGE" => readp_to_act + Opens(t) >= Gap(s, t)
        /\ s = "WRITE_PRECHARGE" => write_to_activate + Opens(t) >= Gap(s, t)
    <3>1. \/ t \in ReadTypes /\ Opens(t) = activate_to_read /\ Latency(t) = RL
          \/ t \notin ReadTypes /\ Opens(t) = activate_to_write /\ Latency(t) = WL
      BY DEF Opens, Latency
    <3>2. /\ s = "READ_PRECHARGE" => Latency(s) = RL
          /\ s = "WRITE_PRECHARGE" => Latency(s) = WL
      BY DEF Latency, ReadTypes
    <3>3. /\ RL + activate_to_read \in Nat /\ WL + activate_to_write \in Nat
          /\ config.AL + activate_to_read \in Nat
          /\ activate_to_read \in Int /\ activate_to_write \in Int
          /\ RL \in Nat /\ WL \in Nat
      BY DelaysAreNat DEF RL, WL, activate_to_read, activate_to_write
    <3>4. readp_to_act + activate_to_read >= config.burst_cycle /\ readp_to_act \in Nat
      BY <3>3, DelaysAreNat DEF readp_to_act
    <3>5. write_to_activate \in Nat /\ write_to_activate >= WL + config.burst_cycle
      BY <3>3, DelaysAreNat DEF write_to_activate, write_to_precharge
    <3>6. readp_to_act + activate_to_write + WL >= RL + config.burst_cycle
      BY <2>6 DEF ReopensLate
    <3>7. ASSUME s = "READ_PRECHARGE" PROVE readp_to_act + Opens(t) >= Gap(s, t)
      BY <3>1, <3>2, <3>3, <3>4, <3>6, <3>7, DelaysAreNat DEF Gap
    <3>8. ASSUME s = "WRITE_PRECHARGE" PROVE write_to_activate + Opens(t) >= Gap(s, t)
      BY <3>1, <3>2, <3>3, <3>5, <3>8, DelaysAreNat DEF Gap
    <3>9. QED
      BY <3>7, <3>8
  <2>8. readp_to_act \in Nat /\ write_to_activate \in Nat /\ Opens(t) \in Int
    BY LatencyTyped, DelaysAreNat DEF readp_to_act, write_to_activate, write_to_precharge, WL
  <2> DEFINE o == Opens(t)
             g == Gap(s, t)
             e == Due(new, t)
             m == New("ACTIVATE")
  <2>9. \E a \in Nat : m >= a /\ a + o >= g
    BY <1>5, <2>5, <2>7, <2>8
  <2>10. m \in Nat /\ o \in Int /\ g \in Int /\ e \in Int /\ e >= m + o
    BY <1>3, <2>3, <2>8
  <2> HIDE DEF o, g, e, m
  <2>11. e >= g
    BY <2>9, <2>10
  <2>12. QED
    BY <2>11 DEF e, g
<1>6. QED
  BY <1>2, <1>4, <1>5 DEF RWTypes, ReadTypes, WriteTypes

LEMMA BurstTyped ==
    ASSUME NEW cmd
    PROVE  /\ Burst(cmd) \subseteq Int
           /\ ~IsReadWrite(cmd) => Burst(cmd) = {}
           /\ \A k \in Burst(cmd) : /\ k >= Latency(cmd.cmd_type)
                                    /\ k < Latency(cmd.cmd_type) + config.burst_cycle
<1>1. RL \in Nat /\ WL \in Nat /\ config.burst_cycle \in Nat
  BY LatencyTyped DEF LatenciesTyped
<1>2. CASE IsRead(cmd)
  <2>1. Burst(cmd) = RL .. RL + config.burst_cycle - 1 /\ Latency(cmd.cmd_type) = RL
    BY <1>2 DEF Burst, Latency, IsRead, IsWrite, ReadTypes, WriteTypes
  <2>2. IsReadWrite(cmd)
    BY <1>2 DEF IsRead, IsReadWrite, RWTypes
  <2>3. QED
    BY <1>1, <2>1, <2>2
<1>3. CASE IsWrite(cmd)
  <2>1. Burst(cmd) = WL .. WL + config.burst_cycle - 1 /\ Latency(cmd.cmd_type) = WL
    BY <1>3 DEF Burst, Latency, IsWrite, IsRead, ReadTypes, WriteTypes
  <2>2. IsReadWrite(cmd)
    BY <1>3 DEF IsWrite, IsReadWrite, RWTypes
  <2>3. QED
    BY <1>1, <2>1, <2>2
<1>4. CASE ~IsRead(cmd) /\ ~IsWrite(cmd)
  BY <1>4 DEF Burst
<1>5. QED
  BY <1>2, <1>3, <1>4

(* A command finds the bus free for its data and leaves it so.             *)
LEMMA MovedFree ==
    ASSUME ReopensLate, NEW after, NEW before, NEW cmd, Moved(after, before, cmd),
           NEW use \in SUBSET Int, BusFree(before, use)
    PROVE  /\ Burst(cmd) \cap use = {}
           /\ BusFree(after, use \cup Burst(cmd))
<1>1. cmd \in IssueType /\ ByPolicy(cmd)
      /\ \A b \in Banks : BankMoved(after[b], before[b], cmd, b)
  BY DEF Moved
<1>2. Burst(cmd) \subseteq Int
      /\ \A k \in Burst(cmd) : IsReadWrite(cmd) /\ k >= Latency(cmd.cmd_type)
                               /\ k < Latency(cmd.cmd_type) + config.burst_cycle
  BY BurstTyped
<1>3. \A b \in Banks : after[b] \in BankType /\ before[b] \in BankType
  BY <1>1 DEF BankMoved
<1>4. ASSUME NEW k \in Burst(cmd), k \in use PROVE FALSE
  <2> DEFINE b == BankOf(cmd.addr)
             s == cmd.cmd_type
  <2>1. IsReadWrite(cmd) /\ s \in RWTypes /\ ~IsRankCMD(cmd)
    BY <1>2 DEF IsReadWrite, IsRankCMD, RankTypes, RWTypes, ReadTypes, WriteTypes
  <2>2. b \in Banks /\ b \in Targets(cmd)
    BY <1>1, <2>1, TargetOfBank DEF IssueType
  <2>3. BankMoved(after[b], before[b], cmd, b)
    BY <1>1, <2>2
  <2>4. BankAccepts(before[b], s) /\ before[b].cmd_timing_[s] = 0
    BY <2>1, <2>2, <2>3 DEF BankMoved, RWTypes, ReadTypes, WriteTypes
  <2>5. before[b].state_ = "OPEN"
    BY <1>3, <2>1, <2>2, <2>4 DEF BankAccepts, BankType, RWTypes, ReadTypes, WriteTypes
  <2>6. Due(before[b], s) = 0
    BY <2>4, <2>5 DEF Due
  <2>7. k < Due(before[b], s) + Latency(s)
    BY <1>4, <2>1, <2>2 DEF BusFree, Free
  <2>8. k \in Int /\ Latency(s) \in Nat /\ k >= Latency(s)
    BY <1>2, LatencyTyped
  <2>9. QED
    BY <2>6, <2>7, <2>8
<1>5. ASSUME NEW b \in Banks, NEW t \in RWTypes, NEW k \in use \cup Burst(cmd)
      PROVE  k < Due(after[b], t) + Latency(t)
  <2> DEFINE new == Due(after[b], t)
             old == Due(before[b], t)
             l == Latency(t)
  <2>1. BankMoved(after[b], before[b], cmd, b) /\ new \in Int /\ old \in Int
        /\ l \in Nat /\ k \in Int
    BY <1>1, <1>2, <1>3, DueTyped, LatencyTyped
  <2>2. CASE k \in use
    <3>1. k < old + l
      BY <2>2 DEF BusFree, Free
    <3>2. new >= old
      BY <1>1, <2>1, DueGrows
    <3> HIDE DEF new, old, l
    <3>3. k < new + l
      BY <2>1, <3>1, <3>2
    <3>4. QED
      BY <3>3 DEF new, l
  <2>3. CASE k \in Burst(cmd)
    <3> DEFINE s == cmd.cmd_type
               m == Latency(s)
    <3>1. IsReadWrite(cmd) /\ k < m + config.burst_cycle
      BY <1>2, <2>3
    <3>2. new >= Gap(s, t)
      BY <1>1, <2>1, <3>1, DueAfterBurst
    <3>3. Gap(s, t) = m + config.burst_cycle - l
      BY DEF Gap
    <3>4. m \in Nat /\ config.burst_cycle \in Nat
      BY LatencyTyped DEF LatenciesTyped
    <3> HIDE DEF new, l, m
    <3>5. k < new + l
      BY <2>1, <3>1, <3>2, <3>3, <3>4
    <3>6. QED
      BY <3>5 DEF new, l
  <2>4. QED
    BY <2>2, <2>3
<1>6. QED
  BY <1>4, <1>5 DEF BusFree, Free

(* So do the commands of a cycle, of which at most one has data.           *)
Data(seen) == UNION {Burst(cmd) : cmd \in seen}

LEMMA RanFree ==
    ASSUME ReopensLate, NEW after, NEW before, NEW seen, Ran(after, before, seen),
           NEW use \in SUBSET Int, BusFree(before, use)
    PROVE  /\ BusFree(after, use \cup Data(seen))
           /\ Data(seen) \subseteq Int /\ Data(seen) \cap use = {}
           /\ \A k : {cmd \in seen : k \in Burst(cmd)} = {}
                     \/ \E cmd : {x \in seen : k \in Burst(x)} = {cmd}
<1> DEFINE Goal == /\ BusFree(after, use \cup Data(seen))
                   /\ Data(seen) \subseteq Int /\ Data(seen) \cap use = {}
                   /\ \A k : {cmd \in seen : k \in Burst(cmd)} = {}
                             \/ \E cmd : {x \in seen : k \in Burst(x)} = {cmd}
<1>1. ASSUME seen = {}, after = before PROVE Goal
  BY <1>1 DEF Data
<1>2. ASSUME NEW cmd, seen = {cmd}, Moved(after, before, cmd)
      PROVE  Goal
  <2>1. Data(seen) = Burst(cmd) /\ Burst(cmd) \subseteq Int
    BY <1>2, BurstTyped DEF Data
  <2>2. \A k : {x \in seen : k \in Burst(x)} \in {{}, {cmd}}
    BY <1>2
  <2>3. /\ BusFree(after, use \cup Data(seen))
        /\ Data(seen) \subseteq Int /\ Data(seen) \cap use = {}
    BY <1>2, <2>1, MovedFree
  <2>4. QED
    BY <2>2, <2>3
<1>3. ASSUME NEW first, NEW second, NEW between, seen = {first, second},
             IsReadWrite(first) # IsReadWrite(second),
             Moved(between, before, first), Moved(after, between, second)
      PROVE  Goal
  <2>0. ~IsReadWrite(first) \/ ~IsReadWrite(second)
    BY <1>3 DEF IsReadWrite
  <2>1. Burst(first) \subseteq Int /\ Burst(second) \subseteq Int
        /\ (Burst(first) = {} \/ Burst(second) = {})
    BY <2>0, BurstTyped
  <2>2. Burst(first) \cap use = {} /\ BusFree(between, use \cup Burst(first))
    BY <1>3, MovedFree
  <2>3. Burst(second) \cap (use \cup Burst(first)) = {}
        /\ BusFree(after, (use \cup Burst(first)) \cup Burst(second))
    BY <1>3, <2>1, <2>2, MovedFree
  <2>4. Data(seen) = Burst(first) \cup Burst(second)
    BY <1>3 DEF Data
  <2>5. (use \cup Burst(first)) \cup Burst(second) = use \cup Data(seen)
    BY <2>4
  <2>6. \A k : {x \in seen : k \in Burst(x)} \in {{}, {first}, {second}}
    BY <1>3, <2>1
  <2>7. QED
    BY <2>1, <2>2, <2>3, <2>4, <2>5, <2>6
<1> HIDE DEF Goal
<1>4. Goal
  BY <1>1, <1>2, <1>3 DEF Ran
<1>5. QED
  BY <1>4 DEF Goal

(* A cycle on, everything is one cycle nearer.                             *)
LEMMA AgedFree ==
    ASSUME NEW after, NEW before, Aged(after, before),
           NEW use \in SUBSET Int, BusFree(before, use),
           NEW later \in SUBSET Int, \A k \in later : k + 1 \in use
    PROVE  BusFree(after, later)
<1> SUFFICES ASSUME NEW b \in Banks, NEW t \in RWTypes, NEW k \in later
             PROVE  k < Due(after[b], t) + Latency(t)
  BY DEF BusFree, Free
<1> DEFINE New(u) == after[b].cmd_timing_[u]
           Old(u) == before[b].cmd_timing_[u]
           new == Due(after[b], t)
           old == Due(before[b], t)
           l == Latency(t)
<1>1. /\ after[b] \in BankType /\ before[b] \in BankType
      /\ after[b].state_ = before[b].state_
      /\ New(t) >= Old(t) - 1 /\ New("ACTIVATE") >= Old("ACTIVATE") - 1
  BY DEF Aged, CommandType
<1>2. /\ New(t) \in Nat /\ Old(t) \in Nat
      /\ New("ACTIVATE") \in Nat /\ Old("ACTIVATE") \in Nat
      /\ new \in Int /\ old \in Int
  BY <1>1, DueTyped
<1>3. /\ old = IF before[b].state_ = "OPEN" THEN Old(t)
               ELSE Later(Old(t), Old("ACTIVATE") + Opens(t))
      /\ new = IF before[b].state_ = "OPEN" THEN New(t)
               ELSE Later(New(t), New("ACTIVATE") + Opens(t))
  BY <1>1 DEF Due
<1>4. Opens(t) \in Int /\ l \in Nat /\ k \in Int /\ k + 1 < old + l
  BY LatencyTyped DEF BusFree, Free
<1> HIDE DEF New, Old, new, old, l
<1>5. new >= old - 1
  BY <1>1, <1>2, <1>3, <1>4 DEF Later
<1>6. k < new + l
  BY <1>2, <1>4, <1>5
<1>7. QED
  BY <1>6 DEF new, l

(* The cycles in which the monitor sees data on the bus.                   *)
OnBus(use) == {k \in BusCycles : use[k] # 0}

LEMMA TransferredOnce ==
    ASSUME NEW use \in [BusCycles -> {0, 1}], NEW seen, Data(seen) \cap OnBus(use) = {},
           \A k : {cmd \in seen : k \in Burst(cmd)} = {}
                  \/ \E cmd : {x \in seen : k \in Burst(x)} = {cmd}
    PROVE  LET next == Transferred(use, seen)
           IN /\ next \in [BusCycles -> {0, 1}]
              /\ \A k \in OnBus(next) : k + 1 \in OnBus(use) \cup Data(seen)
<1> DEFINE next == Transferred(use, seen)
           Of(k) == {cmd \in seen : k \in Burst(cmd)}
<1>1. ASSUME NEW k \in BusCycles
      PROVE  /\ next[k] \in {0, 1}
             /\ next[k] # 0 => k + 1 \in OnBus(use) \cup Data(seen)
  <2> DEFINE j == k + 1
             old == IF j \in BusCycles THEN use[j] ELSE 0
  <2>1. next[k] = old + Cardinality(Of(j))
    BY DEF Transferred
  <2>2. old \in {0, 1} /\ (old # 0 => j \in OnBus(use))
    BY DEF OnBus
  <2> HIDE DEF j
  <2>3. CASE Of(j) = {}
    <3>1. Cardinality(Of(j)) = 0
      BY <2>3, FS_EmptySet
    <3> HIDE DEF old, next, Of
    <3>2. QED
      BY <2>1, <2>2, <3>1 DEF j
  <2>4. ASSUME NEW cmd, Of(j) = {cmd}
        PROVE  /\ next[k] \in {0, 1}
               /\ next[k] # 0 => j \in OnBus(use) \cup Data(seen)
    <3>1. Cardinality(Of(j)) = 1
      BY <2>4, FS_Singleton
    <3>2. cmd \in seen /\ j \in Burst(cmd)
      BY <2>4
    <3>3. j \in Data(seen)
      BY <3>2 DEF Data
    <3>4. old = 0
      BY <2>2, <3>3
    <3> HIDE DEF old, next, Of
    <3>5. QED
      BY <2>1, <3>1, <3>3, <3>4
  <2>5. Of(j) = {} \/ \E cmd : Of(j) = {cmd}
    OBVIOUS
  <2> HIDE DEF Of, next
  <2>6. QED
    BY <2>3, <2>4, <2>5 DEF j
<1>2. DOMAIN next = BusCycles /\ next = [k \in BusCycles |-> next[k]]
  BY DEF Transferred
<1> HIDE DEF next
<1>3. next \in [BusCycles -> {0, 1}]
  BY <1>1, <1>2
<1>4. QED
  BY <1>1, <1>3 DEF OnBus, next

-----------------------------------------------------------------------------
(* The monitor.                                                            *)

(* The runs of the monitor are runs of the system.                         *)
LEMMA MonitorRuns == MSpec => Spec
<1>1. MInit => PInit
  BY DEF MInit
<1>2. [MNext]_mvars => [PNext]_pvars
  BY DEF MNext, MAddTransaction, MClockTick, MStats, mvars, PNext
<1>3. MSpec => PSpec
  BY <1>1, <1>2, PTL DEF MSpec, PSpec
<1>4. QED
  BY <1>3, PhasesRun

(* The inductive invariant for the data bus: all data that are on their    *)
(* way leave the bus before those of any access that a timer will let      *)
(* through.                                                                *)
BusesFree ==
    \A ch \in Channels : /\ bus[ch] \in [BusCycles -> {0, 1}]
                         /\ BusFree(BanksOf(ctrls_[ch]), OnBus(bus[ch]))

LEMMA BusesTick ==
    ASSUME ReopensLate, TypeOK, AllSound, BusesFree, MClockTick PROVE BusesFree'
<1> SUFFICES ASSUME NEW ch \in Channels
             PROVE  /\ bus'[ch] \in [BusCycles -> {0, 1}]
                    /\ BusFree(BanksOf(ctrls_'[ch]), OnBus(bus'[ch]))
  BY DEF BusesFree, BusFree, Free, Due, Latency, Opens, OnBus, BanksOf, BusCycles
<1> DEFINE seen == Seen(ctrls_'[ch])
           use == OnBus(bus[ch])
           before == BanksOf(ctrls_[ch])
           after == BanksOf(ctrls_'[ch])
           later == OnBus(bus'[ch])
<1>1. bus[ch] \in [BusCycles -> {0, 1}] /\ BusFree(before, use)
  BY DEF BusesFree
<1>2. PICK end : Ran(end, before, seen) /\ Aged(after, end)
  BY ChannelRuns DEF MClockTick, PClockTick
<1>3. bus'[ch] = Transferred(bus[ch], seen)
  BY DEF MClockTick
<1>4. use \in SUBSET Int /\ later \in SUBSET Int
  BY DEF OnBus, BusCycles
<1> HIDE DEF seen, before, after
<1>5. /\ BusFree(end, use \cup Data(seen))
      /\ Data(seen) \subseteq Int /\ Data(seen) \cap use = {}
      /\ \A k : {cmd \in seen : k \in Burst(cmd)} = {}
                \/ \E cmd : {x \in seen : k \in Burst(x)} = {cmd}
  BY <1>1, <1>2, <1>4, RanFree
<1>6. bus'[ch] \in [BusCycles -> {0, 1}] /\ \A k \in later : k + 1 \in use \cup Data(seen)
  BY <1>1, <1>3, <1>5, TransferredOnce
<1>7. use \cup Data(seen) \in SUBSET Int
  BY <1>4, <1>5
<1> HIDE DEF use, later
<1>8. BusFree(after, later)
  BY <1>2, <1>4, <1>5, <1>6, <1>7, AgedFree
<1>9. QED
  BY <1>6, <1>8 DEF after, later

(* No two bursts of a channel meet on the data bus, for every mix of reads *)
(* and writes over all ranks, bankgroups and banks, refreshes, sleep and   *)
(* two commands per cycle.                                                 *)
THEOREM DataBusIsExclusive == ASSUME ReopensLate PROVE MSpec => []DataBusExclusive
<1>1. MSpec => []TypeOK /\ []AllSound
  BY MonitorRuns, TypeCorrect, ControllersStaySound, PTL
<1>2. MInit => BusesFree
  <2> SUFFICES ASSUME MInit, NEW ch \in Channels
               PROVE  /\ bus[ch] \in [BusCycles -> {0, 1}]
                      /\ BusFree(BanksOf(ctrls_[ch]), OnBus(bus[ch]))
    BY DEF BusesFree
  <2>1. bus[ch] = [k \in BusCycles |-> 0]
    BY DEF MInit
  <2>2. OnBus(bus[ch]) = {}
    BY <2>1 DEF OnBus
  <2>3. QED
    BY <2>1, <2>2 DEF BusFree, Free
<1>3. TypeOK /\ AllSound /\ BusesFree /\ [MNext]_mvars => BusesFree'
  <2> SUFFICES ASSUME TypeOK, AllSound, BusesFree, [MNext]_mvars PROVE BusesFree'
    OBVIOUS
  <2>1. ASSUME NEW t \in Requests, MAddTransaction(t) PROVE BusesFree'
    <3>1. \A ch \in Channels : BanksOf(ctrls_'[ch]) = BanksOf(ctrls_[ch])
      BY <2>1, ArrivalKeepsBanks DEF MAddTransaction, PAddTransaction
    <3>2. bus' = bus
      BY <2>1 DEF MAddTransaction
    <3>3. QED
      BY <3>1, <3>2 DEF BusesFree
  <2>2. CASE MClockTick
    BY <2>2, BusesTick
  <2>3. CASE MStats \/ UNCHANGED mvars
    BY <2>3 DEF MStats, stats_mo, mvars, pvars, vars, BusesFree
  <2>4. QED
    BY <2>1, <2>2, <2>3 DEF MNext
<1>4. BusesFree => DataBusExclusive
  <2> SUFFICES ASSUME BusesFree, NEW ch \in Channels, NEW k \in BusCycles
               PROVE  bus[ch][k] <= 1
    BY DEF DataBusExclusive
  <2>1. bus[ch][k] \in {0, 1}
    BY DEF BusesFree
  <2>2. QED
    BY <2>1
<1>5. QED
  BY <1>1, <1>2, <1>3, <1>4, PTL DEF MSpec

(* The inductive invariant for the recovery of the banks: the timers cover *)
(* what is left of the accesses of every bank.                             *)
BanksRested ==
    \A ch \in Channels : /\ dist[ch] \in [Banks -> Distances]
                         /\ \A b \in Banks : Rested(BanksOf(ctrls_[ch])[b], dist[ch][b])

LEMMA RestedTick ==
    ASSUME ~ClosePage, TypeOK, AllSound, BanksRested, ClockTick, NEW ch \in Channels
    PROVE  LET seen == Seen(ctrls_'[ch])
               next == Measured(dist[ch], seen)
           IN /\ next \in [Banks -> Distances]
              /\ \A b \in Banks :
                   /\ Rested(BanksOf(ctrls_'[ch])[b], next[b])
                   /\ \A cmd \in seen : NeedsPrecharged(cmd, b) =>
                        \A kind \in Kinds : dist[ch][b][kind] >= Finish[kind] + config.tRP
<1> DEFINE seen == Seen(ctrls_'[ch])
           before == BanksOf(ctrls_[ch])
           after == BanksOf(ctrls_'[ch])
           d == dist[ch]
<1>1. d \in [Banks -> Distances] /\ \A b \in Banks : Rested(before[b], d[b])
  BY DEF BanksRested
<1>2. PICK end : Ran(end, before, seen) /\ Aged(after, end)
  BY ChannelRuns
<1> HIDE DEF seen, before, after, d
<1>3. ASSUME NEW b \in Banks
      PROVE  /\ Rested(after[b], Measured(d, seen)[b])
             /\ \A cmd \in seen : NeedsPrecharged(cmd, b) =>
                  \A kind \in Kinds : d[b][kind] >= Finish[kind] + config.tRP
  <2> DEFINE mid == AfterAll(d[b], seen, b)
             e == Measured(d, seen)[b]
  <2>1. d[b] \in Distances /\ Rested(before[b], d[b])
    BY <1>1
  <2>2. /\ Rested(end[b], mid)
        /\ \A cmd \in seen : NeedsPrecharged(cmd, b) =>
             \A kind \in Kinds : d[b][kind] >= Finish[kind] + config.tRP
    BY <1>2, <2>1, RanRests
  <2>3. /\ e \in Distances /\ mid \in Distances
        /\ \A kind \in Kinds : e[kind] >= mid[kind] + 1 \/ e[kind] >= Horizon
    BY <1>1, MeasuredTyped, MeasuredAfter
  <2> HIDE DEF mid, e
  <2>4. Rested(after[b], e)
    BY <1>2, <2>2, <2>3, AgedRests
  <2>5. QED
    BY <2>2, <2>4 DEF e
<1>4. Measured(d, seen) \in [Banks -> Distances]
  BY <1>1, MeasuredTyped
<1>5. QED
  BY <1>3, <1>4 DEF seen, after, d

(* With open pages, a bank is activated, refreshed or sent to sleep only   *)
(* after tRTP, tWR and tRP from its last accesses and after tRC from its   *)
(* last activation, whatever closed its row.                               *)
THEOREM BanksRecover == ASSUME ~ClosePage PROVE MSpec => BankRecovered
<1>1. MSpec => []TypeOK /\ []AllSound
  BY MonitorRuns, TypeCorrect, ControllersStaySound, PTL
<1>2. MInit => BanksRested
  <2> SUFFICES ASSUME MInit, NEW ch \in Channels
               PROVE  /\ dist[ch] \in [Banks -> Distances]
                      /\ \A b \in Banks : Rested(BanksOf(ctrls_[ch])[b], dist[ch][b])
    BY DEF BanksRested
  <2>1. dist[ch] = [b \in Banks |-> [kind \in Kinds |-> Horizon]]
    BY DEF MInit
  <2>2. dist[ch] \in [Banks -> Distances]
    BY <2>1, HorizonCovers DEF Distances
  <2>3. ASSUME NEW b \in Banks PROVE Rested(BanksOf(ctrls_[ch])[b], dist[ch][b])
    <3>1. BanksOf(ctrls_[ch])[b] = NewBank
      BY NewBanks DEF MInit, PInit
    <3>2. NewBank.state_ = "CLOSED" /\ \A t \in Reopening : NewBank.cmd_timing_[t] = 0
      BY DEF NewBank, Reopening, CommandType, RankTypes
    <3>3. \A kind \in Kinds : dist[ch][b][kind] = Horizon
      BY <2>1
    <3>4. QED
      BY <3>1, <3>2, <3>3, HorizonCovers DEF Rested
  <2>4. QED
    BY <2>2, <2>3
<1>3. TypeOK /\ AllSound /\ BanksRested /\ [MNext]_mvars => BanksRested'
  <2> SUFFICES ASSUME TypeOK, AllSound, BanksRested, [MNext]_mvars PROVE BanksRested'
    OBVIOUS
  <2>1. ASSUME NEW t \in Requests, MAddTransaction(t) PROVE BanksRested'
    <3>1. \A ch \in Channels : BanksOf(ctrls_'[ch]) = BanksOf(ctrls_[ch])
      BY <2>1, ArrivalKeepsBanks DEF MAddTransaction, PAddTransaction
    <3>2. dist' = dist
      BY <2>1 DEF MAddTransaction
    <3>3. QED
      BY <3>1, <3>2 DEF BanksRested
  <2>2. CASE MClockTick
    <3> SUFFICES ASSUME NEW ch \in Channels
                 PROVE  /\ dist'[ch] \in [Banks -> Distances]
                        /\ \A b \in Banks : Rested(BanksOf(ctrls_'[ch])[b], dist'[ch][b])
      BY DEF BanksRested, Rested, BanksOf, Distances
    <3>1. dist'[ch] = Measured(dist[ch], Seen(ctrls_'[ch]))
      BY <2>2 DEF MClockTick
    <3>2. QED
      BY <2>2, <3>1, RestedTick DEF MClockTick, PClockTick
  <2>3. CASE MStats \/ UNCHANGED mvars
    BY <2>3 DEF MStats, stats_mo, mvars, pvars, vars, BanksRested
  <2>4. QED
    BY <2>1, <2>2, <2>3 DEF MNext
<1>4. TypeOK /\ AllSound /\ BanksRested /\ [MNext]_mvars =>
        [ClockTick => \A ch \in Channels : \A cmd \in Issued(ch)', b \in Banks :
           NeedsPrecharged(cmd, b) =>
             /\ dist[ch][b]["rd"] >= config.AL + config.tRTP + config.tRP
             /\ dist[ch][b]["wr"] >= WL + config.burst_cycle + config.tWR + config.tRP
             /\ dist[ch][b]["act"] >= tRC]_mvars
  <2> SUFFICES ASSUME TypeOK, AllSound, BanksRested, ClockTick,
                      NEW ch \in Channels, NEW cmd \in Issued(ch)', NEW b \in Banks,
                      NeedsPrecharged(cmd, b)
               PROVE  /\ dist[ch][b]["rd"] >= config.AL + config.tRTP + config.tRP
                      /\ dist[ch][b]["wr"]
                           >= WL + config.burst_cycle + config.tWR + config.tRP
                      /\ dist[ch][b]["act"] >= tRC
    OBVIOUS
  <2>1. cmd \in Seen(ctrls_'[ch])
    BY DEF Issued, Seen
  <2>2. \A kind \in Kinds : dist[ch][b][kind] >= Finish[kind] + config.tRP
    BY <2>1, RestedTick
  <2>3. /\ Finish["rd"] = config.AL + config.tRTP
        /\ Finish["wr"] = WL + config.burst_cycle + config.tWR
        /\ Finish["act"] + config.tRP = tRC
    BY DEF Finish, read_to_precharge, write_to_precharge, tRC
  <2>4. QED
    BY <2>2, <2>3 DEF Kinds
<1>5. QED
  BY <1>1, <1>2, <1>3, <1>4, PTL DEF MSpec, BankRecovered
=============================================================================
