--------------------------- MODULE JedecSafetyProofs ---------------------------
(***************************************************************************)
(* The JEDEC memory system, for every configuration.                       *)
(*                                                                         *)
(* First type correctness.  TypeOK is inductive: each operator of the      *)
(* model maps an object of its type to an object of its type, one lemma    *)
(* per operator, and the commands that the banks answer with are of        *)
(* IssueType, NoCommand or AbruptExit.                                     *)
(*                                                                         *)
(* Then three safety properties of the controllers: the drain counter      *)
(* stays within the write buffer, the queues held back are those of the    *)
(* refresh being prepared, and the activation windows are never overrun.   *)
(* The inductive invariant, Safe, is a property of a single controller;    *)
(* the lemmas follow it through the phases of Controller::ClockTick.       *)
(***************************************************************************)
EXTENDS JedecDRAMSystem, SequenceLemmas, FiniteSetTheorems, TLAPS

-----------------------------------------------------------------------------
(* Types.                                                                  *)

(* Every delay of the configuration is a natural number.                   *)
LEMMA DelaysAreNat ==
    /\ config.burst_cycle \in Nat /\ config.AL \in Nat /\ config.CL \in Nat
    /\ config.CWL \in Nat /\ config.tCCD_L \in Nat /\ config.tCCD_S \in Nat
    /\ config.tRTRS \in Nat /\ config.tRTP \in Nat /\ config.tWTR_L \in Nat
    /\ config.tWTR_S \in Nat /\ config.tWR \in Nat /\ config.tRP \in Nat
    /\ config.tRRD_L \in Nat /\ config.tRRD_S \in Nat /\ config.tRAS \in Nat
    /\ config.tRCD \in Nat /\ config.tRFC \in Nat /\ config.tRFCb \in Nat
    /\ config.tCKESR \in Nat /\ config.tXS \in Nat /\ config.tFAW \in Nat
    /\ config.t32AW \in Nat /\ config.tPPD \in Nat /\ config.tRCDRD \in Nat
    /\ config.tRCDWR \in Nat /\ config.sref_threshold \in Nat
BY DelaysAssumption DEF DelayNames

(* The latencies the configuration derives are natural numbers.            *)
LEMMA LatenciesAreNat == read_delay \in Nat \ {0} /\ write_delay \in Nat
BY DelaysAreNat, ReadDelayAssumption DEF read_delay, write_delay, RL, WL

(* A rank has a bank.                                                      *)
LEMMA BanksIsPositive == banks \in Nat \ {0}
BY CountsAssumption DEF banks

(* There is a command queue.                                               *)
LEMMA QueuesArePositive == num_queues_ \in Nat \ {0}
<1>1. banks * config.ranks \in Nat \ {0}
  BY BanksIsPositive, CountsAssumption
<1>2. QED
  BY <1>1, CountsAssumption DEF num_queues_

(* The refresh interval, a division of tREFI by the ranks, is not zero.    *)
LEMMA IntervalIsPositive == refresh_interval_ \in Nat \ {0}
<1>1. config.tREFI \div config.ranks \in Nat \ {0}
  BY CountsAssumption, RefreshAssumption
<1>2. QED
  BY <1>1, CountsAssumption, RefreshAssumption DEF refresh_interval_, Policy

(* A remainder is an index.                                                *)
LEMMA Wrap == ASSUME NEW a \in Nat, NEW n \in Nat \ {0} PROVE a % n \in 0 .. n - 1
OBVIOUS

(* The quotient of a two-digit number is a digit.                          *)
LEMMA DivBound ==
    ASSUME NEW a \in Nat, NEW m \in Nat \ {0}, NEW n \in Nat \ {0}, a < m * n
    PROVE  a \div n \in 0 .. m - 1
OBVIOUS

(* Two digits make an index, as in GetQueueIndex.                          *)
LEMMA MixedRadix ==
    ASSUME NEW m \in Nat \ {0}, NEW n \in Nat \ {0}, NEW i \in 0 .. m - 1, NEW j \in 0 .. n - 1
    PROVE  i * n + j \in 0 .. m * n - 1
<1>1. (i + 1) * n <= m * n
  OBVIOUS
<1>2. (i + 1) * n = i * n + n
  OBVIOUS
<1>3. i * n \in Nat /\ m * n \in Nat
  OBVIOUS
<1>4. QED
  BY <1>1, <1>2, <1>3
(* GetQueueIndex of a bank is the index of a queue.                        *)
LEMMA QueueIndexInRange ==
    ASSUME NEW addr, BankOf(addr) \in Banks PROVE GetQueueIndex(addr) \in QueueIdx
<1>1. /\ addr.rank \in 0 .. config.ranks - 1
      /\ addr.bankgroup \in 0 .. config.bankgroups - 1
      /\ addr.bank \in 0 .. config.banks_per_group - 1
  BY DEF BankOf, Banks, Ranks, Bankgroups, BanksPerGroup
<1> DEFINE inRank == addr.bankgroup * config.banks_per_group + addr.bank
<1>2. inRank \in 0 .. banks - 1
  BY <1>1, MixedRadix, CountsAssumption DEF banks
<1>3. addr.rank * banks + inRank \in 0 .. config.ranks * banks - 1
  BY <1>1, <1>2, MixedRadix, CountsAssumption, BanksIsPositive
<1>4. config.ranks * banks = banks * config.ranks
  BY CountsAssumption, BanksIsPositive
<1>5. addr.rank * banks + addr.bankgroup * config.banks_per_group + addr.bank
        = addr.rank * banks + inRank
  BY <1>1, CountsAssumption, BanksIsPositive
<1>6. QED
  BY <1>1, <1>3, <1>4, <1>5 DEF GetQueueIndex, QueueIdx, num_queues_

(* The loops over bankgroups and banks visit banks.                        *)
LEMMA RankBankIsBank ==
    ASSUME NEW rank \in Ranks, NEW k \in 1 .. banks
    PROVE  RankBank(rank, k) \in Banks
<1>1. k - 1 \in Nat /\ k - 1 < config.bankgroups * config.banks_per_group
  BY BanksIsPositive DEF banks
<1>2. (k - 1) \div config.banks_per_group \in Bankgroups
  BY <1>1, DivBound, CountsAssumption DEF Bankgroups
<1>3. (k - 1) % config.banks_per_group \in BanksPerGroup
  BY <1>1, Wrap, CountsAssumption DEF BanksPerGroup
<1>4. QED
  BY <1>2, <1>3 DEF RankBank, Banks

(* What TransToCommand makes names a bank, a row and an address.           *)
LEMMA QueueCommandsTyped ==
    ASSUME NEW cmd \in QueueCommands
    PROVE  /\ cmd \in CommandRecord /\ cmd.cmd_type \in RWTypes
           /\ BankOf(cmd.addr) \in Banks /\ cmd.addr.row \in Rows
           /\ cmd.hex_addr \in Addr
<1>1. PICK t \in Transactions : cmd = TransToCommand(t)
  BY DEF QueueCommands
<1> DEFINE m == AddressMapping[t.addr]
<1>2. /\ m.rank \in Ranks /\ m.bankgroup \in Bankgroups /\ m.bank \in BanksPerGroup
      /\ m.row \in Rows /\ m.column \in Columns /\ t.addr \in Addr
  BY AddrAssumption DEF Transactions, Rows, Columns
<1>3. cmd.addr = Address(m.rank, m.bankgroup, m.bank, m.row, m.column)
      /\ cmd.hex_addr = t.addr /\ cmd.cmd_type \in RWTypes /\ cmd.by = cmd.cmd_type
      /\ cmd = Command(cmd.cmd_type, cmd.addr, cmd.hex_addr, cmd.by)
  BY <1>1 DEF TransToCommand, Command, RWTypes, ReadTypes, WriteTypes
<1> HIDE DEF m
<1>4. QED
  BY <1>2, <1>3 DEF CommandRecord, Command, Address, AddressType, BankOf, Banks, CommandType

(* What InsertRefresh queues names a rank and, per bank, a bank.           *)
LEMMA RefreshCommandsTyped ==
    ASSUME NEW cmd \in RefreshCommands
    PROVE  /\ cmd \in CommandRecord /\ cmd.cmd_type \in {"REFRESH", "REFRESH_BANK"}
           /\ cmd.cmd_type = "REFRESH_BANK" => BankOf(cmd.addr) \in Banks
<1>1. CASE cmd \in {RankRefresh(r) : r \in Ranks}
  BY <1>1 DEF RankRefresh, Command, Address, CommandRecord, AddressType, CommandType,
              RankTypes
<1>2. CASE cmd \in {BankRefresh(b[1], b[2], b[3]) : b \in Banks}
  BY <1>2 DEF BankRefresh, Command, Address, CommandRecord, AddressType, CommandType,
              Banks, BankOf
<1>3. QED
  BY <1>1, <1>2 DEF RefreshCommands

(* What the banks are asked for: the entries of the queues, the refreshes  *)
(* that are due, and the two self-refresh commands.                        *)
SelfRefreshCommands ==
    {Command(type, Address(r, -1, -1, -1, -1), -1, type) :
        type \in {"SREF_ENTER", "SREF_EXIT"}, r \in Ranks}

Askable == QueueCommands \cup RefreshCommands \cup SelfRefreshCommands

(* What they answer with.                                                 *)
Answers == IssueType \cup {NoCommand, AbruptExit}

(* What is common to all commands the banks are asked for.                 *)
LEMMA AskableTyped ==
    ASSUME NEW cmd \in Askable
    PROVE  /\ cmd \in CommandRecord
           /\ cmd.cmd_type \in RWTypes \cup RankTypes \cup {"REFRESH_BANK"}
           /\ ~IsRankCMD(cmd) => BankOf(cmd.addr) \in Banks
           /\ cmd.cmd_type \in RWTypes => cmd.addr.row \in Rows /\ cmd.hex_addr \in Addr
<1>1. CASE cmd \in QueueCommands
  BY <1>1, QueueCommandsTyped
<1>2. CASE cmd \in RefreshCommands
  BY <1>2, RefreshCommandsTyped DEF IsRankCMD, RankTypes, RWTypes, ReadTypes, WriteTypes
<1>3. CASE cmd \in SelfRefreshCommands
  BY <1>3 DEF SelfRefreshCommands, Command, Address, CommandRecord, AddressType,
              CommandType, IsRankCMD, RankTypes, RWTypes, ReadTypes, WriteTypes
<1>4. QED
  BY <1>1, <1>2, <1>3 DEF Askable

(* BankState::GetReadyCommand answers with a command for the address it    *)
(* was asked for, an ACTIVATE only on behalf of an access and an access    *)
(* only as asked.                                                          *)
LEMMA BankAnswerTyped ==
    ASSUME NEW b \in BankType, NEW cmd \in Askable
    PROVE  LET r == BankGetReadyCommand(b, cmd) IN
           /\ r \in CommandRecord \cup {NoCommand, AbruptExit}
           /\ ~IsRankCMD(cmd) => r \in Answers
           /\ r \in CommandRecord =>
                /\ r.addr = cmd.addr
                /\ r.cmd_type = "ACTIVATE" => cmd.cmd_type \in RWTypes
                /\ r.cmd_type \in RWTypes => cmd.cmd_type = r.cmd_type
           /\ r \in {NoCommand, AbruptExit} => r.cmd_type \notin CommandType
<1> DEFINE t == RequiredType(b, cmd)
           r == BankGetReadyCommand(b, cmd)
<1>1. /\ t \in CommandType \cup {"EXIT"}
      /\ t = "ACTIVATE" => cmd.cmd_type \in RWTypes
      /\ t \in RWTypes => cmd.cmd_type = t
  BY AskableTyped DEF RequiredType, CommandType, RankTypes, RWTypes, ReadTypes, WriteTypes
<1>2. NoCommand.cmd_type = "SIZE" /\ AbruptExit.cmd_type = "EXIT"
  BY DEF NoCommand, AbruptExit, Command
<1>3. "SIZE" \notin CommandType /\ "EXIT" \notin CommandType
  BY DEF CommandType, RankTypes, RWTypes, ReadTypes, WriteTypes
<1>4. cmd \in CommandRecord
  BY AskableTyped
<1>5. CASE t = "EXIT"
  BY <1>5, <1>2, <1>3 DEF BankGetReadyCommand, Answers, CommandRecord
<1>6. CASE t # "EXIT"
  <2>1. CASE b.cmd_timing_[t] = 0
    <3>1. r = Command(t, cmd.addr, cmd.hex_addr, cmd.cmd_type)
      BY <1>6, <2>1 DEF BankGetReadyCommand
    <3>2. r \in CommandRecord /\ r.addr = cmd.addr /\ r.cmd_type = t
          /\ r.hex_addr = cmd.hex_addr
      BY <3>1, <1>1, <1>4, <1>6 DEF Command, CommandRecord
    <3>3. ~IsRankCMD(cmd) => r \in IssueType
      BY <3>2, <1>1, AskableTyped DEF IssueType, IsReadWrite
    <3>4. r \notin {NoCommand, AbruptExit}
      BY <3>2, <1>2, <1>3 DEF CommandRecord
    <3>5. QED
      BY <3>2, <3>3, <3>4, <1>1 DEF Answers
  <2>2. CASE b.cmd_timing_[t] # 0
    BY <1>6, <2>2, <1>2, <1>3 DEF BankGetReadyCommand, Answers, CommandRecord
  <2>3. QED
    BY <2>1, <2>2
<1>7. QED
  BY <1>5, <1>6
(* ChannelState::GetReadyCommand answers with a command that can be        *)
(* issued.                                                                 *)
LEMMA ChannelAnswerTyped ==
    ASSUME NEW cs \in ChannelStateType, NEW cmd \in Askable
    PROVE  ChannelGetReadyCommand(cs, cmd) \in Answers
<1>1. cs.bank_states_ \in [Banks -> BankType]
  BY DEF ChannelStateType
<1>2. CASE ~IsRankCMD(cmd)
  <2>1. BankGetReadyCommand(cs.bank_states_[BankOf(cmd.addr)], cmd) \in Answers
    BY <1>1, <1>2, AskableTyped, BankAnswerTyped
  <2>2. QED
    BY <1>2, <2>1 DEF ChannelGetReadyCommand, Answers
<1>3. CASE IsRankCMD(cmd)
  <2> DEFINE rank == cmd.addr.rank
             ready == [k \in 1 .. banks |->
                         BankGetReadyCommand(cs.bank_states_[RankBank(rank, k)], cmd)]
             decisive == {k \in 1 .. banks :
                            IsValid(ready[k]) /\ ready[k].cmd_type # cmd.cmd_type}
             least == Min(decisive)
             b == RankBank(rank, least)
  <2>0. cmd \in CommandRecord /\ rank \in Ranks
    BY AskableTyped DEF CommandRecord, AddressType
  <2>1. ASSUME NEW k \in 1 .. banks
        PROVE  /\ ready[k] \in CommandRecord \cup {NoCommand, AbruptExit}
               /\ ready[k] \in CommandRecord =>
                    /\ ready[k].cmd_type = "ACTIVATE" => cmd.cmd_type \in RWTypes
                    /\ ready[k].cmd_type \in RWTypes => cmd.cmd_type = ready[k].cmd_type
    <3>1. cs.bank_states_[RankBank(rank, k)] \in BankType
      BY <1>1, <2>0, RankBankIsBank
    <3>2. QED
      BY <3>1, BankAnswerTyped
  <2>2. cmd.cmd_type \notin RWTypes /\ cmd.cmd_type # "ACTIVATE"
    BY <1>3 DEF IsRankCMD, RankTypes, RWTypes, ReadTypes, WriteTypes
  <2>3. CASE decisive # {}
    <3>0. decisive \in SUBSET Nat
      OBVIOUS
    <3> HIDE DEF decisive
    <3>1. least \in decisive
      BY <2>3, <3>0, MinIsLeast
    <3> USE DEF decisive
    <3>2. b \in Banks
      BY <2>0, <3>1, RankBankIsBank
    <3>3. /\ ready[least] \in CommandRecord \cup {NoCommand, AbruptExit}
          /\ ready[least].cmd_type # "SIZE"
          /\ ready[least] \in CommandRecord =>
               ready[least].cmd_type \notin RWTypes \cup {"ACTIVATE"}
      BY <2>1, <2>2, <3>1 DEF IsValid
    <3> HIDE DEF ready, decisive, least
    <3>4. CASE IsExit(ready[least])
      BY <1>3, <2>3, <3>4 DEF ChannelGetReadyCommand, RankGetReadyCommand, RankDecides, Answers,
                              ready, decisive, least
    <3>5. CASE ~IsExit(ready[least])
      <4> DEFINE ans == [ready[least] EXCEPT !.addr = Address(rank, b[2], b[3], -1, -1)]
      <4>1. ChannelGetReadyCommand(cs, cmd) = ans
        BY <1>3, <2>3, <3>5 DEF ChannelGetReadyCommand, RankGetReadyCommand, RankDecides,
                                ready, decisive, least
      <4>2. ready[least] \in CommandRecord
        BY <3>3, <3>5 DEF IsExit, NoCommand, AbruptExit, Command
      <4>3. Address(rank, b[2], b[3], -1, -1) \in AddressType
            /\ BankOf(Address(rank, b[2], b[3], -1, -1)) \in Banks
        BY <2>0, <3>2 DEF Address, AddressType, Banks, BankOf
      <4>4. ans \in CommandRecord /\ ans.cmd_type = ready[least].cmd_type
            /\ ans.addr = Address(rank, b[2], b[3], -1, -1)
        BY <4>2, <4>3 DEF CommandRecord
      <4>5. ans \in IssueType
        BY <4>3, <4>4, <4>2, <3>3 DEF IssueType, IsReadWrite
      <4>6. QED
        BY <4>1, <4>5 DEF Answers
    <3>6. QED
      BY <3>4, <3>5
  <2>4. CASE decisive = {}
    <3>1. Command(cmd.cmd_type, cmd.addr, cmd.hex_addr, cmd.cmd_type) \in IssueType
      BY <1>3, <2>0, <2>2 DEF IssueType, Command, CommandRecord, IsRankCMD, IsReadWrite
    <3>2. QED
      BY <1>3, <2>4, <3>1 DEF ChannelGetReadyCommand, RankGetReadyCommand, RankDecides, Answers
  <2>5. QED
    BY <2>3, <2>4
<1>4. QED
  BY <1>2, <1>3

(* The timing tables hold integers.                                        *)
LEMMA RowsOfTables ==
    ASSUME NEW cmd \in IssueType, NEW b \in Banks
    PROVE  \A t \in DOMAIN TimingRow(cmd, b) : TimingRow(cmd, b)[t] \in Int
<1>1. cmd.cmd_type \in CommandType
  BY DEF IssueType, CommandRecord
<1> DEFINE D == {read_to_read_l, read_to_read_s, read_to_read_o, read_to_write,
                 read_to_write_o, read_to_precharge, readp_to_act,
                 write_to_read_l, write_to_read_s, write_to_read_o,
                 write_to_write_l, write_to_write_s, write_to_write_o,
                 write_to_precharge, read_to_activate, write_to_activate,
                 activate_to_activate_l, activate_to_read, activate_to_write,
                 tRC, config.tRAS, config.tRP, config.tPPD, config.tRFC,
                 config.tRFCb, config.tREFI, config.tRRD_S, config.tCKESR,
                 config.tXS}
           Row(f) == \A t \in DOMAIN f : f[t] \in Int
<1>2. \A d \in D : d \in Int
  BY DelaysAreNat, RefreshAssumption, LatenciesAreNat
     DEF read_to_read_l, read_to_read_s, read_to_read_o, read_to_write,
         read_to_write_o, read_to_precharge, readp_to_act, write_to_read_l,
         write_to_read_s, write_to_read_o, write_to_write_l, write_to_write_s,
         write_to_write_o, write_to_precharge, read_to_activate,
         write_to_activate, activate_to_activate_l, activate_to_read,
         activate_to_write, tRC, LongOr, Later, RL, WL
<1>3. Row(NoRow)
  BY DEF NoRow
<1>4. \A r, w \in Int : Row(RWRow(r, w))
  BY DEF RWRow
<1>5. \A d \in Int : Row(RefreshRow(d))
  BY DEF RefreshRow
<1>6. ASSUME NEW f, Row(f), NEW type, NEW d \in Int PROVE Row(Also(f, type, d))
  BY <1>6 DEF Also
<1>7. \A type, d : d \in Int => Row(Only(type, d))
  BY <1>3, <1>6 DEF Only
<1>8. ASSUME NEW t \in CommandType
      PROVE  /\ Row(same_bank[t]) /\ Row(other_banks_same_bankgroup[t])
             /\ Row(other_bankgroups_same_rank[t]) /\ Row(other_ranks[t])
             /\ Row(same_rank[t])
  <2> HIDE DEF Row
  <2>1. Row(same_bank[t])
    BY <1>2, <1>3, <1>4, <1>5, <1>6 DEF same_bank
  <2>2. Row(other_banks_same_bankgroup[t])
    BY <1>2, <1>3, <1>4, <1>6, <1>7 DEF other_banks_same_bankgroup
  <2>3. Row(other_bankgroups_same_rank[t])
    BY <1>2, <1>3, <1>4, <1>6, <1>7 DEF other_bankgroups_same_rank
  <2>4. Row(other_ranks[t])
    BY <1>2, <1>3, <1>4 DEF other_ranks
  <2>5. Row(same_rank[t])
    BY <1>2, <1>3, <1>5, <1>6, <1>7 DEF same_rank
  <2>6. QED
    BY <2>1, <2>2, <2>3, <2>4, <2>5
<1>9. QED
  <2> HIDE DEF Row
  <2>1. Row(TimingRow(cmd, b))
    BY <1>1, <1>3, <1>8 DEF TimingRow
  <2>2. QED
    BY <2>1 DEF Row
(* BankState::UpdateState keeps a bank in its type.                        *)
LEMMA BankUpdateStateTyped ==
    ASSUME NEW b \in BankType, NEW cmd \in IssueType
    PROVE  BankUpdateState(b, cmd) \in BankType
<1>1. cmd.cmd_type \in CommandType /\ (cmd.cmd_type = "ACTIVATE" => cmd.addr.row \in Rows)
  BY DEF IssueType, CommandRecord
<1>2. CASE cmd.cmd_type \in {"READ", "WRITE"}
  <2> DEFINE n == IF b.row_hit_count_ < RowHitLimit THEN b.row_hit_count_ + 1
                  ELSE b.row_hit_count_
  <2>1. n \in 0 .. RowHitLimit
    BY LimitsAssumption DEF BankType
  <2> HIDE DEF n
  <2>2. [b EXCEPT !.row_hit_count_ = n] \in BankType
    BY <2>1 DEF BankType
  <2>3. QED
    BY <1>2, <2>2 DEF BankUpdateState, n
<1>3. CASE cmd.cmd_type \in {"READ_PRECHARGE", "WRITE_PRECHARGE", "PRECHARGE"}
  <2>1. 0 \in 0 .. RowHitLimit
    BY LimitsAssumption
  <2>2. [b EXCEPT !.state_ = "CLOSED", !.open_row_ = -1, !.row_hit_count_ = 0] \in BankType
    BY <2>1 DEF BankType
  <2>3. QED
    BY <1>3, <2>2 DEF BankUpdateState
<1>4. CASE cmd.cmd_type = "ACTIVATE"
  BY <1>1, <1>4 DEF BankUpdateState, BankType
<1>5. CASE cmd.cmd_type \in {"SREF_ENTER", "SREF_EXIT"}
  BY <1>5 DEF BankUpdateState, BankType
<1>6. CASE cmd.cmd_type \in {"REFRESH", "REFRESH_BANK"}
  BY <1>6 DEF BankUpdateState
<1>7. QED
  BY <1>1, <1>2, <1>3, <1>4, <1>5, <1>6
     DEF CommandType, RankTypes, RWTypes, ReadTypes, WriteTypes

(* BankState::UpdateTiming keeps a bank in its type: a delay that comes    *)
(* out negative never lowers a timer.                                      *)
LEMMA BankUpdateTimingTyped ==
    ASSUME NEW b \in BankType, NEW row, \A t \in DOMAIN row : row[t] \in Int
    PROVE  BankUpdateTiming(b, row) \in BankType
<1> DEFINE f == [t \in CommandType |-> IF t \in DOMAIN row
                   THEN Later(b.cmd_timing_[t], row[t]) ELSE b.cmd_timing_[t]]
<1>1. b.cmd_timing_ \in [CommandType -> Nat]
  BY DEF BankType
<1>2. f \in [CommandType -> Nat]
  BY <1>1 DEF Later
<1> HIDE DEF f
<1>3. [b EXCEPT !.cmd_timing_ = f] \in BankType
  BY <1>2 DEF BankType
<1>4. QED
  BY <1>3 DEF BankUpdateTiming, f

(* The passing of a cycle keeps a bank in its type.                        *)
LEMMA BankElapseTyped ==
    ASSUME NEW b \in BankType PROVE BankElapse(b) \in BankType
<1> DEFINE f == [t \in CommandType |-> OneLess(b.cmd_timing_[t])]
           e == IF b.serve_end >= 0 THEN b.serve_end - 1 ELSE b.serve_end
<1>1. b.cmd_timing_ \in [CommandType -> Nat] /\ b.serve_end \in -1 .. read_delay + 1
  BY DEF BankType
<1>2. f \in [CommandType -> Nat] /\ e \in -1 .. read_delay + 1
  BY <1>1, LatenciesAreNat DEF OneLess
<1> HIDE DEF f, e
<1>3. [b EXCEPT !.cmd_timing_ = f, !.serve_end = e] \in BankType
  BY <1>2 DEF BankType
<1>4. QED
  BY <1>3 DEF BankElapse, f, e

(* Dropping a refresh that was issued leaves refreshes.                    *)
LEMMA RefreshDoneTyped ==
    ASSUME NEW cs \in ChannelStateType, NEW rank, NEW bank
    PROVE  /\ RankRefreshDone(cs, rank) \in ChannelStateType
           /\ BankRefreshDone(cs, bank) \in ChannelStateType
<1> DEFINE q == cs.refresh_q_
<1>1. q \in Seq(RefreshCommands)
  BY DEF ChannelStateType
<1>2. ASSUME NEW I \in SUBSET (1 .. Len(q)), I # {}
      PROVE  RemoveAt(q, Min(I)) \in Seq(RefreshCommands)
  <2>1. I \in SUBSET Nat /\ DOMAIN q = 1 .. Len(q)
    BY <1>1
  <2>2. Min(I) \in I
    BY <2>1, <1>2, MinIsLeast
  <2>3. QED
    BY <1>1, <2>1, <2>2, RemoveAtProperties
<1>3. ASSUME NEW r \in Seq(RefreshCommands)
      PROVE  [cs EXCEPT !.refresh_q_ = r] \in ChannelStateType
  BY DEF ChannelStateType
<1>4. RankRefreshDone(cs, rank) \in ChannelStateType
  <2> DEFINE I == {i \in 1 .. Len(q) : q[i].addr.rank = rank}
  <2>1. CASE I = {}
    <3>1. RankRefreshDone(cs, rank) = [cs EXCEPT !.refresh_q_ = q]
      BY <2>1 DEF RankRefreshDone, RemoveFirstMatch
    <3>2. QED
      BY <3>1, <1>1, <1>3
  <2>2. CASE I # {}
    <3>1. RemoveAt(q, Min(I)) \in Seq(RefreshCommands)
      BY <1>2, <2>2
    <3>2. RankRefreshDone(cs, rank) = [cs EXCEPT !.refresh_q_ = RemoveAt(q, Min(I))]
      BY <2>2 DEF RankRefreshDone, RemoveFirstMatch, SelectInSeq
    <3>3. QED
      BY <3>1, <3>2, <1>3
  <2>3. QED
    BY <2>1, <2>2
<1>5. BankRefreshDone(cs, bank) \in ChannelStateType
  <2> DEFINE I == {i \in 1 .. Len(q) : BankOf(q[i].addr) = bank}
  <2>1. CASE I = {}
    <3>1. BankRefreshDone(cs, bank) = [cs EXCEPT !.refresh_q_ = q]
      BY <2>1 DEF BankRefreshDone, RemoveFirstMatch
    <3>2. QED
      BY <3>1, <1>1, <1>3
  <2>2. CASE I # {}
    <3>1. RemoveAt(q, Min(I)) \in Seq(RefreshCommands)
      BY <1>2, <2>2
    <3>2. BankRefreshDone(cs, bank) = [cs EXCEPT !.refresh_q_ = RemoveAt(q, Min(I))]
      BY <2>2 DEF BankRefreshDone, RemoveFirstMatch, SelectInSeq
    <3>3. QED
      BY <3>1, <3>2, <1>3
  <2>3. QED
    BY <2>1, <2>2
<1>6. QED
  BY <1>4, <1>5

(* UpdateTimingAndStates keeps a channel in its type.                      *)
LEMMA ChannelUpdateTyped ==
    ASSUME NEW cs \in ChannelStateType, NEW cmd \in IssueType
    PROVE  UpdateTimingAndStates(cs, cmd) \in ChannelStateType
<1>0. cmd.addr.rank \in Ranks
  BY DEF IssueType, CommandRecord, AddressType
<1> DEFINE bs == [b \in Banks |-> IF b \in Targets(cmd)
                    THEN BankUpdateState(cs.bank_states_[b], cmd) ELSE cs.bank_states_[b]]
           s == [cs EXCEPT !.bank_states_ = bs]
           u == ChannelUpdateState(cs, cmd)
           w == IF cmd.cmd_type = "ACTIVATE"
                THEN UpdateActivationTimes(u, cmd.addr.rank) ELSE u
           bt == [b \in Banks |-> BankUpdateTiming(w.bank_states_[b], TimingRow(cmd, b))]
<1>1. bs \in [Banks -> BankType]
  BY BankUpdateStateTyped DEF ChannelStateType
<1> HIDE DEF bs
<1>2. s \in ChannelStateType
  BY <1>1 DEF ChannelStateType
<1> HIDE DEF s
<1>3. u \in ChannelStateType
  <2>0. u = CASE cmd.cmd_type = "REFRESH" -> RankRefreshDone(s, cmd.addr.rank)
              [] cmd.cmd_type = "REFRESH_BANK" -> BankRefreshDone(s, BankOf(cmd.addr))
              [] cmd.cmd_type = "SREF_ENTER" -> [s EXCEPT !.rank_is_sref_[cmd.addr.rank] = TRUE]
              [] cmd.cmd_type = "SREF_EXIT" -> [s EXCEPT !.rank_is_sref_[cmd.addr.rank] = FALSE]
              [] OTHER -> s
    BY DEF ChannelUpdateState, s, bs
  <2>1. RankRefreshDone(s, cmd.addr.rank) \in ChannelStateType
    BY <1>2, RefreshDoneTyped
  <2>2. BankRefreshDone(s, BankOf(cmd.addr)) \in ChannelStateType
    BY <1>2, RefreshDoneTyped
  <2>3. ASSUME NEW x \in BOOLEAN
        PROVE  [s EXCEPT !.rank_is_sref_[cmd.addr.rank] = x] \in ChannelStateType
    BY <1>2 DEF ChannelStateType
  <2>4. QED
    BY <2>0, <2>1, <2>2, <2>3, <1>2
<1> HIDE DEF u
<1>4. w \in ChannelStateType
  <2>1. ASSUME NEW window \in Seq(Nat), NEW len \in Nat
        PROVE  Activated(window, len) \in Seq(Nat)
    BY DEF Activated
  <2>2. UpdateActivationTimes(u, cmd.addr.rank) \in ChannelStateType
    BY <1>0, <1>3, <2>1, DelaysAreNat DEF UpdateActivationTimes, ChannelStateType
  <2>3. QED
    BY <1>3, <2>2
<1> HIDE DEF w
<1>5. bt \in [Banks -> BankType]
  BY <1>4, RowsOfTables, BankUpdateTimingTyped DEF ChannelStateType
<1> HIDE DEF bt
<1>6. [w EXCEPT !.bank_states_ = bt] \in ChannelStateType
  BY <1>4, <1>5 DEF ChannelStateType
<1>7. UpdateTimingAndStates(cs, cmd) = [w EXCEPT !.bank_states_ = bt]
  BY DEF UpdateTimingAndStates, ChannelUpdateTiming, w, bt, u
<1>8. QED
  BY <1>6, <1>7

(* The passing of a cycle keeps a channel in its type.                     *)
LEMMA ChannelElapseTyped ==
    ASSUME NEW cs \in ChannelStateType PROVE ChannelElapse(cs) \in ChannelStateType
<1> DEFINE Ages(window) == [i \in DOMAIN window |-> OneLess(window[i])]
           bs == [b \in Banks |-> BankElapse(cs.bank_states_[b])]
           f == [r \in Ranks |-> Ages(cs.four_aw_[r])]
           g == [r \in Ranks |-> Ages(cs.thirty_two_aw_[r])]
<1>1. bs \in [Banks -> BankType]
  BY BankElapseTyped DEF ChannelStateType
<1>2. ASSUME NEW window \in Seq(Nat) PROVE Ages(window) \in Seq(Nat)
  BY DEF OneLess
<1> HIDE DEF Ages
<1>3. f \in [Ranks -> Seq(Nat)] /\ g \in [Ranks -> Seq(Nat)]
  BY <1>2 DEF ChannelStateType
<1> HIDE DEF bs, f, g
<1>4. [cs EXCEPT !.bank_states_ = bs, !.four_aw_ = f, !.thirty_two_aw_ = g]
        \in ChannelStateType
  BY <1>1, <1>3 DEF ChannelStateType
<1>5. QED
  BY <1>4 DEF ChannelElapse, bs, f, g, Ages
(* GetFirstReadyInQueue answers with a command that can be issued.         *)
LEMMA FirstReadyTyped ==
    ASSUME NEW cs \in ChannelStateType, NEW queue \in Seq(QueueCommands)
    PROVE  GetFirstReadyInQueue(cs, queue) \in Answers
<1> DEFINE ready == [i \in DOMAIN queue |-> ChannelGetReadyCommand(cs, queue[i])]
           eligible ==
             {i \in DOMAIN queue :
                /\ IsValid(ready[i])
                /\ ready[i].cmd_type = "PRECHARGE" => ArbitratePrecharge(cs, queue, i)
                /\ IsWrite(ready[i]) => ~HasRWDependency(queue, i)}
<1>1. \A i \in DOMAIN queue : ready[i] \in Answers
  BY ChannelAnswerTyped DEF Askable
<1>2. eligible \in SUBSET Nat /\ eligible \subseteq DOMAIN queue
  OBVIOUS
<1>3. GetFirstReadyInQueue(cs, queue) =
        IF eligible = {} THEN NoCommand ELSE ready[Min(eligible)]
  BY DEF GetFirstReadyInQueue, FirstEligible
<1> HIDE DEF ready, eligible
<1>4. CASE eligible = {}
  BY <1>3, <1>4 DEF Answers
<1>5. CASE eligible # {}
  <2>1. Min(eligible) \in eligible
    BY <1>2, <1>5, MinIsLeast
  <2>2. QED
    BY <1>1, <1>2, <1>3, <1>5, <2>1
<1>6. QED
  BY <1>4, <1>5

(* A valid answer that is no exit can be issued.                           *)
LEMMA AnswersValid ==
    ASSUME NEW cmd \in Answers, IsValid(cmd), ~IsExit(cmd)
    PROVE  cmd \in IssueType
BY DEF Answers, IsValid, IsExit, NoCommand, AbruptExit, Command

(* EraseRWCommand keeps the command queues in their type.                  *)
LEMMA EraseTyped ==
    ASSUME NEW cq \in CommandQueueType, NEW cmd \in IssueType, IsReadWrite(cmd),
           Entries(cq.queues_[GetQueueIndex(cmd.addr)], cmd) # {}
    PROVE  EraseRWCommand(cq, cmd) \in CommandQueueType
<1> DEFINE idx == GetQueueIndex(cmd.addr)
           queue == cq.queues_[idx]
           E == Entries(queue, cmd)
<1>1. BankOf(cmd.addr) \in Banks
  BY DEF IssueType, IsReadWrite, IsRankCMD, RankTypes, RWTypes, ReadTypes, WriteTypes
<1>2. idx \in QueueIdx
  BY <1>1, QueueIndexInRange
<1>3. queue \in Seq(QueueCommands)
  BY <1>2 DEF CommandQueueType
<1>4. E \in SUBSET Nat /\ E \subseteq DOMAIN queue
  BY <1>3 DEF Entries
<1> HIDE DEF E, queue, idx
<1>5. Min(E) \in E
  BY <1>4, MinIsLeast DEF E, queue, idx
<1>6. RemoveAt(queue, Min(E)) \in Seq(QueueCommands)
  BY <1>3, <1>4, <1>5, RemoveAtProperties
<1>7. EraseRWCommand(cq, cmd) = [cq EXCEPT !.queues_[idx] = RemoveAt(queue, Min(E))]
  BY DEF EraseRWCommand, idx, queue, E
<1>8. QED
  BY <1>2, <1>6, <1>7 DEF CommandQueueType

(* The round-robin index stays in range.                                   *)
LEMMA NextQueueInRange ==
    ASSUME NEW cq \in CommandQueueType, NEW k \in Nat
    PROVE  GetNextQueue(cq, k) \in QueueIdx
<1>1. cq.queue_idx_ + k \in Nat
  BY QueuesArePositive DEF CommandQueueType, QueueIdx
<1>2. (cq.queue_idx_ + k) % num_queues_ \in 0 .. num_queues_ - 1
  BY <1>1, Wrap, QueuesArePositive
<1>3. QED
  BY <1>2 DEF GetNextQueue, QueueIdx

(* Taking a command keeps the command queues in their type.                *)
LEMMA TakeCommandTyped ==
    ASSUME NEW cq \in CommandQueueType, NEW k \in Nat, NEW cmd \in Answers, IsValid(cmd)
    PROVE  /\ TakeCommand(cq, k, cmd).cmd \in Answers
           /\ TakeCommand(cq, k, cmd).cq \in CommandQueueType
<1> DEFINE next == [cq EXCEPT !.queue_idx_ = GetNextQueue(cq, k)]
<1>1. next \in CommandQueueType /\ next.queues_ = cq.queues_
  <2>1. GetNextQueue(cq, k) \in QueueIdx
    BY NextQueueInRange, QueuesArePositive
  <2>2. QED
    BY <2>1 DEF CommandQueueType
<1> HIDE DEF next
<1>2. CASE ~IsReadWrite(cmd)
  BY <1>1, <1>2 DEF TakeCommand, next
<1>3. CASE IsReadWrite(cmd) /\ Entries(cq.queues_[GetQueueIndex(cmd.addr)], cmd) = {}
  BY <1>1, <1>3 DEF TakeCommand, next, Answers
<1>4. CASE IsReadWrite(cmd) /\ Entries(cq.queues_[GetQueueIndex(cmd.addr)], cmd) # {}
  <2>1. cmd \in IssueType
    BY <1>4, AnswersValid DEF IsReadWrite, IsExit, RWTypes, ReadTypes, WriteTypes
  <2>2. EraseRWCommand(next, cmd) \in CommandQueueType
    BY <1>1, <1>4, <2>1, EraseTyped
  <2>3. QED
    BY <1>4, <2>2 DEF TakeCommand, next
<1>5. QED
  BY <1>2, <1>3, <1>4

(* GetCommandToIssue keeps the command queues in their type.               *)
LEMMA GetCommandTyped ==
    ASSUME NEW cs \in ChannelStateType, NEW cq \in CommandQueueType
    PROVE  /\ GetCommandToIssue(cs, cq).cmd \in Answers
           /\ GetCommandToIssue(cs, cq).cq \in CommandQueueType
<1> DEFINE ready == ReadyInQueues(cs, cq)
           found == {k \in 1 .. num_queues_ : IsValid(ready[k])}
<1>1. \A k \in 1 .. num_queues_ : ready[k] \in Answers
  <2>1. \A k \in 1 .. num_queues_ : GetNextQueue(cq, k) \in QueueIdx
    BY NextQueueInRange, QueuesArePositive
  <2>2. QED
    BY <2>1, FirstReadyTyped DEF ReadyInQueues, CommandQueueType, Answers
<1> HIDE DEF ready
<1>2. /\ found \in SUBSET Nat /\ found \subseteq 1 .. num_queues_
      /\ \A k \in found : IsValid(ready[k])
  BY QueuesArePositive
<1>3. GetCommandToIssue(cs, cq) =
        IF found = {} THEN [cmd |-> NoCommand, cq |-> cq]
        ELSE TakeCommand(cq, Min(found), ready[Min(found)])
  BY DEF GetCommandToIssue, TakeFirst, ready
<1> HIDE DEF found
<1>4. CASE found = {}
  BY <1>3, <1>4 DEF Answers
<1>5. CASE found # {}
  <2>1. Min(found) \in found
    BY <1>2, <1>5, MinIsLeast
  <2>2. QED
    BY <1>1, <1>2, <1>3, <1>5, <2>1, TakeCommandTyped
<1>6. QED
  BY <1>4, <1>5

(* FinishRefresh keeps the command queues in their type.                   *)
LEMMA FinishRefreshTyped ==
    ASSUME NEW cs \in ChannelStateType, NEW cq \in CommandQueueType, IsRefreshWaiting(cs)
    PROVE  /\ FinishRefresh(cs, cq).cmd \in Answers
           /\ FinishRefresh(cs, cq).cq \in CommandQueueType
<1> DEFINE ref == PendingRefCommand(cs)
<1>1. ref \in RefreshCommands
  BY DEF ChannelStateType, PendingRefCommand, IsRefreshWaiting
<1>2. ChannelGetReadyCommand(cs, ref) \in Answers
  BY <1>1, ChannelAnswerTyped DEF Askable
<1>3. GetRefQIndices(ref) \in SUBSET QueueIdx
  <2>1. CASE ref.cmd_type = "REFRESH"
    BY <2>1 DEF GetRefQIndices
  <2>2. CASE ref.cmd_type # "REFRESH"
    <3>1. GetQueueIndex(ref.addr) \in QueueIdx
      BY <1>1, <2>2, RefreshCommandsTyped, QueueIndexInRange
    <3>2. QED
      BY <2>2, <3>1 DEF GetRefQIndices
  <2>3. QED
    BY <2>1, <2>2
<1> HIDE DEF ref
<1>4. ASSUME NEW s \in SUBSET QueueIdx, NEW v \in BOOLEAN, NEW q \in CommandQueueType
      PROVE  [q EXCEPT !.ref_q_indices_ = s, !.is_in_ref_ = v] \in CommandQueueType
  BY DEF CommandQueueType
<1>5. QED
  BY <1>2, <1>3, <1>4 DEF FinishRefresh, ref

(* Refresh::ClockTick keeps the channel and its own counters in their      *)
(* types.                                                                  *)
LEMMA RefreshTickTyped ==
    ASSUME NEW cs \in ChannelStateType, NEW rf \in RefreshType
    PROVE  /\ RefreshClockTick(cs, rf).cs \in ChannelStateType
           /\ RefreshClockTick(cs, rf).rf \in RefreshType
<1>1. InsertRefresh(cs, rf) \in ChannelStateType
  <2>1. ASSUME NEW ref \in RefreshCommands PROVE NeedRefresh(cs, ref) \in ChannelStateType
    <3>1. Append(cs.refresh_q_, ref) \in Seq(RefreshCommands)
      BY DEF ChannelStateType
    <3>2. QED
      BY <3>1 DEF NeedRefresh, ChannelStateType
  <2>2. \A r \in Ranks : RankRefresh(r) \in RefreshCommands
    BY DEF RefreshCommands
  <2>3. BankRefresh(rf.next_rank_, rf.next_bg_, rf.next_bank_) \in RefreshCommands
    <3>1. <<rf.next_rank_, rf.next_bg_, rf.next_bank_>> \in Banks
      BY DEF RefreshType, Banks
    <3>2. QED
      BY <3>1 DEF RefreshCommands
  <2> DEFINE awake == {r \in Ranks : ~IsRankSelfRefreshing(cs, r)}
  <2>4. awake # {} => Min(awake) \in Ranks
    <3>1. awake \in SUBSET Nat /\ awake \subseteq Ranks
      BY CountsAssumption DEF Ranks
    <3> HIDE DEF awake
    <3>2. QED
      BY <3>1, MinIsLeast
  <2>5. rf.next_rank_ \in Ranks
    BY DEF RefreshType
  <2>6. QED
    BY <2>1, <2>2, <2>3, <2>4, <2>5, RefreshAssumption DEF InsertRefresh, Policy
<1>2. IterateNext(rf) \in RefreshType
  <2>1. \A n \in Nat \ {0} : \A i \in 0 .. n - 1 : (i + 1) % n \in 0 .. n - 1
    BY Wrap
  <2> DEFINE Step(x, due, n) == IF due THEN (x + 1) % n ELSE x
  <2>2. ASSUME NEW d1, NEW d2, NEW d3
        PROVE  [rf EXCEPT !.next_bg_ = Step(@, d1, config.bankgroups),
                          !.next_bank_ = Step(@, d2, config.banks_per_group),
                          !.next_rank_ = Step(@, d3, config.ranks)] \in RefreshType
    BY <2>1, CountsAssumption DEF RefreshType, Ranks, Bankgroups, BanksPerGroup
  <2>3. QED
    BY <2>2 DEF IterateNext
<1>3. ASSUME NEW g \in RefreshType, NEW n \in 0 .. refresh_interval_
      PROVE  [g EXCEPT !.clk_ = n] \in RefreshType
  BY DEF RefreshType
<1>4. CASE rf.clk_ = refresh_interval_
  <2>1. 1 \in 0 .. refresh_interval_
    BY IntervalIsPositive
  <2>2. QED
    BY <1>1, <1>2, <1>3, <1>4, <2>1 DEF RefreshClockTick
<1>5. CASE rf.clk_ # refresh_interval_
  <2>1. rf.clk_ + 1 \in 0 .. refresh_interval_
    BY <1>5, IntervalIsPositive DEF RefreshType
  <2>2. QED
    BY <1>3, <1>5, <2>1 DEF RefreshClockTick
<1>6. QED
  BY <1>4, <1>5
(* The members of a controller.                                            *)
LEMMA ControllerFields ==
    ASSUME NEW c \in ControllerType
    PROVE  /\ c.channel_state_ \in ChannelStateType /\ c.cmd_queue_ \in CommandQueueType
           /\ c.refresh_ \in RefreshType /\ c.unified_queue_ \in Seq(Transactions)
           /\ c.read_queue_ \in Seq(Transactions) /\ c.write_buffer_ \in Seq(Transactions)
           /\ c.pending_rd_q_ \in [Addr -> Nat] /\ c.pending_wr_q_ \in [Addr -> Nat]
           /\ c.return_queue_ \in [Returns -> Nat] /\ c.write_draining_ \in Int
           /\ c.cmd_trace_ \in Seq(IssueType) /\ c.exited \in BOOLEAN
BY DEF ControllerType

(* A transaction queue holds transactions.                                 *)
LEMMA TransQueueTyped ==
    ASSUME NEW c \in ControllerType, NEW w \in BOOLEAN
    PROVE  c[QueueFor(w)] \in Seq(Transactions)
BY DEF QueueFor, ControllerType

(* A controller with another transaction queue.                            *)
LEMMA WithTransQueue ==
    ASSUME NEW c \in ControllerType, NEW q \in Seq(Transactions), NEW w \in BOOLEAN
    PROVE  [c EXCEPT ![QueueFor(w)] = q] \in ControllerType
<1>1. QueueFor(w) \in {"unified_queue_", "read_queue_", "write_buffer_"}
  BY DEF QueueFor
<1>2. CASE QueueFor(w) = "unified_queue_"
  BY <1>2 DEF ControllerType
<1>3. CASE QueueFor(w) = "read_queue_"
  BY <1>3 DEF ControllerType
<1>4. CASE QueueFor(w) = "write_buffer_"
  BY <1>4 DEF ControllerType
<1>5. QED
  BY <1>1, <1>2, <1>3, <1>4

(* Adding to return_queue_ keeps a controller in its type.                 *)
LEMMA CompleteTyped ==
    ASSUME NEW c \in ControllerType, NEW a \in Addr, NEW w \in BOOLEAN, NEW n \in Nat,
           NEW wait \in 0 .. MaxWait
    PROVE  Complete(c, a, w, n, wait) \in ControllerType
<1> DEFINE r == Return(a, w, wait)
<1>1. r \in Returns
  BY DEF Return, Returns
<1> HIDE DEF r
<1>2. [c.return_queue_ EXCEPT ![r] = c.return_queue_[r] + n] \in [Returns -> Nat]
  BY <1>1 DEF ControllerType
<1>3. QED
  BY <1>2 DEF Complete, ControllerType, r

(* A controller with another number of pending requests.                   *)
LEMMA PendingTyped ==
    ASSUME NEW c \in ControllerType, NEW a \in Addr, NEW n \in Nat
    PROVE  /\ [c EXCEPT !.pending_rd_q_[a] = n] \in ControllerType
           /\ [c EXCEPT !.pending_wr_q_[a] = n] \in ControllerType
BY DEF ControllerType

(* A transaction at the back of its queue.                                 *)
LEMMA EnqueueTyped ==
    ASSUME NEW c \in ControllerType, NEW t \in Transactions
    PROVE  Enqueue(c, t) \in ControllerType
<1> DEFINE w == t.is_write
<1>1. w \in BOOLEAN
  BY DEF Transactions
<1> HIDE DEF w
<1>2. c[QueueFor(w)] \in Seq(Transactions)
  BY <1>1, TransQueueTyped
<1>3. Append(c[QueueFor(w)], t) \in Seq(Transactions)
  BY <1>2
<1>4. [c EXCEPT ![QueueFor(w)] = Append(c[QueueFor(w)], t)] \in ControllerType
  BY <1>1, <1>3, WithTransQueue
<1>5. QED
  BY <1>4 DEF Enqueue, w

(* Controller::AddTransaction keeps a controller in its type.              *)
LEMMA AddTransactionTyped ==
    ASSUME NEW c \in ControllerType, NEW t \in Transactions
    PROVE  ControllerAddTransaction(c, t) \in ControllerType
<1>1. t.addr \in Addr /\ t.is_write \in BOOLEAN
  BY DEF Transactions
<1>2. \A w \in BOOLEAN : Transaction(t.addr, w) \in Transactions
  BY <1>1 DEF Transaction, Transactions
<1>3. 1 \in 0 .. MaxWait
  BY LatenciesAreNat DEF MaxWait
<1>4. ASSUME NEW d \in ControllerType, NEW w \in BOOLEAN
      PROVE  Enqueue(d, Transaction(t.addr, w)) \in ControllerType
  BY <1>2, EnqueueTyped
<1>5. c.pending_rd_q_[t.addr] + 1 \in Nat /\ c.pending_wr_q_[t.addr] + 1 \in Nat
  BY <1>1, ControllerFields
<1>6. AddWrite(c, t.addr) \in ControllerType
  <2>1. [c EXCEPT !.pending_wr_q_[t.addr] = c.pending_wr_q_[t.addr] + 1] \in ControllerType
    BY <1>1, <1>5, PendingTyped
  <2>2. Enqueue([c EXCEPT !.pending_wr_q_[t.addr] = c.pending_wr_q_[t.addr] + 1],
                Transaction(t.addr, TRUE)) \in ControllerType
    BY <2>1, <1>4
  <2>3. QED
    BY <2>2, <1>1, <1>3, CompleteTyped DEF AddWrite
<1>7. AddRead(c, t.addr) \in ControllerType
  <2>1. [c EXCEPT !.pending_rd_q_[t.addr] = c.pending_rd_q_[t.addr] + 1] \in ControllerType
    BY <1>1, <1>5, PendingTyped
  <2>2. Enqueue([c EXCEPT !.pending_rd_q_[t.addr] = c.pending_rd_q_[t.addr] + 1],
                Transaction(t.addr, FALSE)) \in ControllerType
    BY <2>1, <1>4
  <2>3. Complete(c, t.addr, FALSE, 1, 1) \in ControllerType
    BY <1>1, <1>3, CompleteTyped
  <2>4. QED
    BY <2>1, <2>2, <2>3 DEF AddRead
<1>8. QED
  BY <1>6, <1>7 DEF ControllerAddTransaction

(* ReturnDoneTrans keeps a controller in its type.                         *)
LEMMA ReturnDoneTyped ==
    ASSUME NEW c \in ControllerType PROVE ReturnDoneTrans(c) \in ControllerType
<1> DEFINE f == [r \in Returns |-> IF r.wait = 0 THEN 0 ELSE c.return_queue_[r]]
<1>1. f \in [Returns -> Nat]
  BY DEF ControllerType
<1> HIDE DEF f
<1>2. [c EXCEPT !.return_queue_ = f] \in ControllerType
  BY <1>1 DEF ControllerType
<1>3. QED
  BY <1>2 DEF ReturnDoneTrans, f

(* The requests that a command settles leave a controller in its type: the *)
(* test IssueCommand makes before keeps pending_wr_q_ from going below     *)
(* zero.                                                                   *)
LEMMA SettleTyped ==
    ASSUME NEW c \in ControllerType, NEW cmd \in IssueType,
           ~(IsWrite(cmd) /\ c.pending_wr_q_[cmd.hex_addr] = 0)
    PROVE  Settle(c, cmd) \in ControllerType
<1> DEFINE a == cmd.hex_addr
<1>1. CASE IsRead(cmd)
  <2>1. a \in Addr
    BY <1>1 DEF IssueType, IsRead, IsReadWrite, RWTypes
  <2>2. read_delay \in 0 .. MaxWait /\ c.pending_rd_q_[a] \in Nat
    BY <2>1, LatenciesAreNat, ControllerFields DEF MaxWait
  <2>3. Complete(c, a, FALSE, c.pending_rd_q_[a], read_delay) \in ControllerType
    BY <2>1, <2>2, CompleteTyped
  <2>4. [Complete(c, a, FALSE, c.pending_rd_q_[a], read_delay)
            EXCEPT !.pending_rd_q_[a] = 0] \in ControllerType
    BY <2>1, <2>3, PendingTyped
  <2>5. Settle(c, cmd) = [Complete(c, a, FALSE, c.pending_rd_q_[a], read_delay)
                     EXCEPT !.pending_rd_q_[a] = 0]
    <3>1. ~IsWrite(cmd)
      BY <1>1 DEF IsRead, IsWrite, ReadTypes, WriteTypes
    <3>2. QED
      BY <1>1, <3>1 DEF Settle
  <2>6. QED
    BY <2>4, <2>5
<1>2. CASE IsWrite(cmd)
  <2>1. a \in Addr
    BY <1>2 DEF IssueType, IsWrite, IsReadWrite, RWTypes
  <2>2. c.pending_wr_q_[a] \in Nat
    BY <2>1, ControllerFields
  <2>3. c.pending_wr_q_[a] - 1 \in Nat
    BY <1>2, <2>2
  <2>4. [c EXCEPT !.pending_wr_q_[a] = c.pending_wr_q_[a] - 1] \in ControllerType
    BY <2>1, <2>3, PendingTyped
  <2>5. ~IsRead(cmd)
    BY <1>2 DEF IsRead, IsWrite, ReadTypes, WriteTypes
  <2>6. QED
    BY <1>2, <2>4, <2>5 DEF Settle
<1>3. CASE ~IsRead(cmd) /\ ~IsWrite(cmd)
  BY <1>3 DEF Settle
<1>4. QED
  BY <1>1, <1>2, <1>3

(* IssueCommand keeps a controller in its type.                            *)
LEMMA IssueCommandTyped ==
    ASSUME NEW c \in ControllerType, NEW cmd \in Answers, IsValid(cmd)
    PROVE  IssueCommand(c, cmd) \in ControllerType
<1>1. Exit(c) \in ControllerType
  BY DEF Exit, ControllerType
<1>2. CASE IsExit(cmd)
  BY <1>1, <1>2 DEF IssueCommand
<1>3. CASE ~IsExit(cmd)
  <2>1. cmd \in IssueType
    BY <1>3, AnswersValid
  <2> DEFINE traced == [c EXCEPT !.cmd_trace_ = Append(c.cmd_trace_, cmd)]
             settled == Settle(traced, cmd)
             a == cmd.hex_addr
             b == BankOf(cmd.addr)
  <2>2. traced \in ControllerType
    <3>1. Append(c.cmd_trace_, cmd) \in Seq(IssueType)
      BY <2>1, ControllerFields
    <3>2. QED
      BY <3>1 DEF ControllerType
  <2> HIDE DEF traced
  <2>3. ASSUME ~(IsWrite(cmd) /\ traced.pending_wr_q_[a] = 0)
        PROVE  settled \in ControllerType
    BY <2>1, <2>2, <2>3, SettleTyped
  <2>4. traced.pending_wr_q_ = c.pending_wr_q_
    BY DEF traced, ControllerType
  <2> DEFINE updated == [settled EXCEPT
                 !.channel_state_ = UpdateTimingAndStates(settled.channel_state_, cmd)]
  <2>5. ASSUME settled \in ControllerType PROVE updated \in ControllerType
    <3> HIDE DEF settled
    <3>1. UpdateTimingAndStates(settled.channel_state_, cmd) \in ChannelStateType
      BY <2>1, <2>5, ControllerFields, ChannelUpdateTyped
    <3>2. QED
      BY <2>5, <3>1 DEF ControllerType
  <2> HIDE DEF settled, updated
  <2>6. ASSUME NEW d \in ControllerType PROVE MarkInServe(d, cmd) \in ControllerType
    <3>1. CASE IsRankCMD(cmd)
      BY <3>1 DEF MarkInServe, IsRankCMD, IsRead, RankTypes, ReadTypes
    <3>2. CASE ~IsRankCMD(cmd)
      <4>1. b \in Banks
        BY <2>1, <3>2 DEF IssueType
      <4> HIDE DEF b
      <4> DEFINE bs == d.channel_state_.bank_states_
      <4>2. bs \in [Banks -> BankType]
        BY ControllerFields DEF ChannelStateType
      <4>3. ASSUME NEW n \in -1 .. read_delay + 1
            PROVE  [bs[b] EXCEPT !.in_serve = TRUE, !.serve_end = n] \in BankType
        BY <4>1, <4>2 DEF BankType
      <4>4. [bs[b] EXCEPT !.in_serve = TRUE] \in BankType
        BY <4>1, <4>2 DEF BankType
      <4>5. ASSUME NEW x \in BankType
            PROVE  [d EXCEPT !.channel_state_.bank_states_[b] = x] \in ControllerType
        <5>1. [bs EXCEPT ![b] = x] \in [Banks -> BankType]
          BY <4>2
        <5> HIDE DEF bs
        <5>2. [d.channel_state_ EXCEPT !.bank_states_ = [bs EXCEPT ![b] = x]] \in ChannelStateType
          BY <5>1, ControllerFields DEF ChannelStateType
        <5>3. [d EXCEPT !.channel_state_ =
                 [d.channel_state_ EXCEPT !.bank_states_ = [bs EXCEPT ![b] = x]]] \in ControllerType
          BY <5>2 DEF ControllerType
        <5>4. QED
          BY <5>3 DEF bs
      <4>6. read_delay + 1 \in -1 .. read_delay + 1
        BY LatenciesAreNat
      <4>7. [d EXCEPT !.channel_state_.bank_states_[b] =
                [bs[b] EXCEPT !.in_serve = TRUE, !.serve_end = read_delay + 1]] \in ControllerType
        BY <4>3, <4>5, <4>6
      <4>8. [d EXCEPT !.channel_state_.bank_states_[b] =
                [bs[b] EXCEPT !.in_serve = TRUE]] \in ControllerType
        BY <4>4, <4>5
      <4>9. QED
        BY <4>7, <4>8 DEF MarkInServe, b
    <3>3. QED
      BY <3>1, <3>2
  <2>7. CASE \/ IsRead(cmd) /\ c.pending_rd_q_[a] = 0
             \/ IsWrite(cmd) /\ c.pending_wr_q_[a] = 0
             \/ ~ChannelAccepts(c.channel_state_, cmd)
    BY <1>1, <2>7 DEF IssueCommand
  <2>8. CASE ~ \/ IsRead(cmd) /\ c.pending_rd_q_[a] = 0
               \/ IsWrite(cmd) /\ c.pending_wr_q_[a] = 0
               \/ ~ChannelAccepts(c.channel_state_, cmd)
    <3>1. MarkInServe(updated, cmd) \in ControllerType
      BY <2>3, <2>4, <2>5, <2>6, <2>8
    <3>2. IssueCommand(c, cmd) = MarkInServe(updated, cmd)
      BY <1>3, <2>8 DEF IssueCommand, updated, settled, traced
    <3>3. QED
      BY <3>1, <3>2
  <2>9. QED
    BY <2>7, <2>8
<1>4. QED
  BY <1>2, <1>3
(* The first command of a cycle can be issued.                             *)
LEMMA FirstCommandTyped ==
    ASSUME NEW c \in ControllerType
    PROVE  FirstCommand(c).cmd \in Answers /\ FirstCommand(c).cq \in CommandQueueType
<1> DEFINE cs == c.channel_state_
           refresh == IF IsRefreshWaiting(cs) THEN FinishRefresh(cs, c.cmd_queue_)
                      ELSE [cmd |-> NoCommand, cq |-> c.cmd_queue_]
<1>1. cs \in ChannelStateType /\ c.cmd_queue_ \in CommandQueueType
  BY ControllerFields
<1>2. refresh.cmd \in Answers /\ refresh.cq \in CommandQueueType
  BY <1>1, FinishRefreshTyped DEF Answers
<1> HIDE DEF refresh, cs
<1>3. GetCommandToIssue(cs, refresh.cq).cmd \in Answers
      /\ GetCommandToIssue(cs, refresh.cq).cq \in CommandQueueType
  BY <1>1, <1>2, GetCommandTyped
<1>4. FirstCommand(c) = IF IsValid(refresh.cmd) THEN refresh
                        ELSE GetCommandToIssue(cs, refresh.cq)
  BY DEF FirstCommand, OrFromQueues, refresh, cs
<1>5. QED
  BY <1>2, <1>3, <1>4

(* A controller with other command queues.                                 *)
LEMMA WithCommandQueue ==
    ASSUME NEW c \in ControllerType, NEW cq \in CommandQueueType
    PROVE  [c EXCEPT !.cmd_queue_ = cq] \in ControllerType
BY DEF ControllerType

(* The issue phase keeps a controller in its type.                         *)
LEMMA IssuePhaseTyped ==
    ASSUME NEW c \in ControllerType PROVE IssuePhase(c) \in ControllerType
<1> DEFINE first == FirstCommand(c)
           taken == [c EXCEPT !.cmd_queue_ = first.cq]
           issued == IssueCommand(taken, first.cmd)
<1>1. taken \in ControllerType /\ first.cmd \in Answers
  BY FirstCommandTyped, WithCommandQueue
<1>2. IsValid(first.cmd) => issued \in ControllerType
  BY <1>1, IssueCommandTyped
<1>3. ASSUME NEW d \in ControllerType, NEW f
      PROVE  IssueSecond(d, f, GetCommandToIssue(d.channel_state_, d.cmd_queue_))
               \in ControllerType
  <2> DEFINE second == GetCommandToIssue(d.channel_state_, d.cmd_queue_)
             left == [d EXCEPT !.cmd_queue_ = second.cq]
  <2>1. second.cmd \in Answers /\ second.cq \in CommandQueueType
    BY ControllerFields, GetCommandTyped
  <2> HIDE DEF second
  <2>2. left \in ControllerType
    BY <2>1, WithCommandQueue
  <2> HIDE DEF left
  <2>3. IsExit(second.cmd) => IsValid(second.cmd)
    BY DEF IsExit, IsValid
  <2>4. IsValid(second.cmd) => IssueCommand(left, second.cmd) \in ControllerType
    BY <2>1, <2>2, IssueCommandTyped
  <2>5. IssueSecond(d, f, second) \in {left} \cup
          (IF IsValid(second.cmd) THEN {IssueCommand(left, second.cmd)} ELSE {})
    BY <2>3 DEF IssueSecond, second, left
  <2>6. QED
    BY <2>2, <2>4, <2>5 DEF second
<1> HIDE DEF first, taken, issued
<1>4. IssuePhase(c) = IF ~IsValid(first.cmd) THEN taken
                      ELSE IF issued.exited \/ ~config.enable_hbm_dual_cmd THEN issued
                      ELSE IssueSecond(issued, first,
                             GetCommandToIssue(issued.channel_state_, issued.cmd_queue_))
  BY DEF IssuePhase, IssueFirst, AndSecond, first, taken, issued
<1>5. QED
  BY <1>1, <1>2, <1>3, <1>4

(* A controller with another channel state.                                *)
LEMMA WithChannelState ==
    ASSUME NEW c \in ControllerType, NEW cs \in ChannelStateType
    PROVE  [c EXCEPT !.channel_state_ = cs] \in ControllerType
BY DEF ControllerType

(* Counting idle cycles keeps a controller in its type.                    *)
LEMMA CountIdleTyped ==
    ASSUME NEW c \in ControllerType PROVE CountIdle(c) \in ControllerType
<1> DEFINE cs == c.channel_state_
           Counted(r) ==
             CASE IsRankSelfRefreshing(cs, r) -> cs.rank_idle_cycles[r]
               [] ~IsRankSelfRefreshing(cs, r) /\ IsAllBankIdleInRank(cs, r) ->
                    IF cs.rank_idle_cycles[r] < config.sref_threshold
                    THEN cs.rank_idle_cycles[r] + 1 ELSE config.sref_threshold
               [] OTHER -> 0
           idle == [r \in Ranks |-> Counted(r)]
<1>1. cs \in ChannelStateType
  BY ControllerFields
<1>2. \A r \in Ranks : cs.rank_idle_cycles[r] \in 0 .. config.sref_threshold
  BY <1>1 DEF ChannelStateType
<1>3. \A r \in Ranks : Counted(r) \in 0 .. config.sref_threshold
  BY <1>2, DelaysAreNat
<1>4. idle \in [Ranks -> 0 .. config.sref_threshold]
  BY <1>3
<1> HIDE DEF idle
<1>5. [cs EXCEPT !.rank_idle_cycles = idle] \in ChannelStateType
  BY <1>1, <1>4 DEF ChannelStateType
<1>6. [c EXCEPT !.channel_state_ = [cs EXCEPT !.rank_idle_cycles = idle]] \in ControllerType
  BY <1>5, WithChannelState
<1>7. QED
  BY <1>6 DEF CountIdle, idle

(* What the self-refresh loop finds for a rank is an answer of its banks.  *)
LEMMA SelfRefreshAnswers ==
    ASSUME NEW c \in ControllerType, NEW r \in Ranks PROVE SelfRefreshCommand(c, r) \in Answers
<1> DEFINE Rank(type) == Command(type, Address(r, -1, -1, -1, -1), -1, type)
<1>1. Rank("SREF_EXIT") \in Askable /\ Rank("SREF_ENTER") \in Askable
  BY DEF Askable, SelfRefreshCommands
<1> HIDE DEF Rank
<1>2. /\ ChannelGetReadyCommand(c.channel_state_, Rank("SREF_EXIT")) \in Answers
      /\ ChannelGetReadyCommand(c.channel_state_, Rank("SREF_ENTER")) \in Answers
  BY <1>1, ControllerFields, ChannelAnswerTyped
<1>3. NoCommand \in Answers
  BY DEF Answers
<1>4. QED
  BY <1>2, <1>3 DEF SelfRefreshCommand, Rank

(* The self-refresh loop keeps a controller in its type.                   *)
LEMMA SelfRefreshTyped ==
    ASSUME NEW c \in ControllerType PROVE SelfRefresh(c) \in ControllerType
<1>1. ASSUME NEW r \in Ranks PROVE SelfRefreshCommand(c, r) \in Answers
  BY SelfRefreshAnswers
<1> DEFINE found == {r \in Ranks : IsValid(SelfRefreshCommand(c, r))}
           r0 == Min(found)
<1>2. found \in SUBSET Nat /\ found \subseteq Ranks
  BY CountsAssumption DEF Ranks
<1>3. \A r \in found : IsValid(SelfRefreshCommand(c, r))
  OBVIOUS
<1>4. SelfRefresh(c) = IF ~config.enable_self_refresh \/ c.cmd_trace_ # <<>> \/ found = {}
                       THEN c ELSE IssueCommand(c, SelfRefreshCommand(c, r0))
  BY DEF SelfRefresh
<1> HIDE DEF found
<1>5. found # {} => r0 \in found
  BY <1>2, MinIsLeast
<1> HIDE DEF r0
<1>6. found # {} => IssueCommand(c, SelfRefreshCommand(c, r0)) \in ControllerType
  BY <1>1, <1>2, <1>3, <1>5, IssueCommandTyped
<1>7. QED
  BY <1>4, <1>6

(* Calculate_stats keeps a controller in its type.                         *)
LEMMA CalculateStatsTyped ==
    ASSUME NEW c \in ControllerType PROVE Calculate_stats(c) \in ControllerType
<1> DEFINE bs == c.channel_state_.bank_states_
           done == [b \in Banks |-> IF bs[b].serve_end = 0 \/ IsRowClosed(bs[b])
                                    THEN [bs[b] EXCEPT !.in_serve = FALSE] ELSE bs[b]]
<1>1. c.channel_state_ \in ChannelStateType /\ bs \in [Banks -> BankType]
  BY ControllerFields DEF ChannelStateType
<1>2. \A b \in Banks : [bs[b] EXCEPT !.in_serve = FALSE] \in BankType
  BY <1>1 DEF BankType
<1>3. done \in [Banks -> BankType]
  BY <1>1, <1>2
<1> HIDE DEF done
<1>4. [c.channel_state_ EXCEPT !.bank_states_ = done] \in ChannelStateType
  BY <1>1, <1>3 DEF ChannelStateType
<1>5. [c EXCEPT !.channel_state_ = [c.channel_state_ EXCEPT !.bank_states_ = done]]
        \in ControllerType
  BY <1>4, WithChannelState
<1>6. QED
  BY <1>5 DEF Calculate_stats, done

(* AddCommand keeps the command queues in their type.                      *)
LEMMA AddCommandTyped ==
    ASSUME NEW cq \in CommandQueueType, NEW t \in Transactions
    PROVE  AddCommand(cq, TransToCommand(t)) \in CommandQueueType
<1> DEFINE cmd == TransToCommand(t)
           q == GetQueueIndex(cmd.addr)
<1>1. cmd \in QueueCommands
  BY DEF QueueCommands
<1> HIDE DEF cmd
<1>2. q \in QueueIdx /\ cmd.addr.rank \in Ranks
  BY <1>1, QueueCommandsTyped, QueueIndexInRange DEF CommandRecord, AddressType
<1> HIDE DEF q
<1>3. Append(cq.queues_[q], cmd) \in Seq(QueueCommands)
  BY <1>1, <1>2 DEF CommandQueueType
<1>4. [cq EXCEPT !.queues_[q] = Append(cq.queues_[q], cmd),
                 !.rank_q_empty[cmd.addr.rank] = FALSE] \in CommandQueueType
  BY <1>2, <1>3 DEF CommandQueueType
<1>5. QED
  BY <1>4 DEF AddCommand, q, cmd

(* ScheduleTransaction keeps a controller in its type.                     *)
LEMMA ScheduleTyped ==
    ASSUME NEW c \in ControllerType PROVE ScheduleTransaction(c) \in ControllerType
<1> DEFINE goal == DrainGoal(c)
           w == goal > 0
           which == ScheduledQueue(goal)
           accepted == {i \in DOMAIN c[which] :
             WillAcceptCommand(c.cmd_queue_, AddressMapping[c[which][i].addr])}
           i0 == Min(accepted)
           drains == ~config.unified_queue /\ c[which][i0].is_write
<1>0. which = QueueFor(w) /\ w \in BOOLEAN
  BY DEF ScheduledQueue
<1>1. goal \in Int
  BY ControllerFields DEF DrainGoal
<1> HIDE DEF goal, w
<1>2. c[which] \in Seq(Transactions)
  BY <1>0, TransQueueTyped
<1>3. accepted \in SUBSET Nat /\ accepted \subseteq DOMAIN c[which]
  BY <1>2
<1>4. ASSUME NEW d \in ControllerType, NEW n \in Int
      PROVE  [d EXCEPT !.write_draining_ = n] \in ControllerType
  BY DEF ControllerType
<1>5. ScheduleTransaction(c) =
        IF accepted = {} THEN [c EXCEPT !.write_draining_ = goal]
        ELSE IF HasOlderReads(c, c[which][i0]) THEN [c EXCEPT !.write_draining_ = 0]
        ELSE [ToCommandQueue(c, which, i0) EXCEPT
                !.write_draining_ = IF drains THEN goal - 1 ELSE goal]
  BY DEF ScheduleTransaction, goal
<1> HIDE DEF accepted, which
<1>6. ASSUME accepted # {} PROVE ToCommandQueue(c, which, i0) \in ControllerType
  <2>1. i0 \in accepted
    BY <1>3, <1>6, MinIsLeast
  <2> HIDE DEF i0
  <2>2. i0 \in DOMAIN c[which]
    BY <1>3, <2>1
  <2>3. c[which][i0] \in Transactions /\ RemoveAt(c[which], i0) \in Seq(Transactions)
    BY <1>2, <2>2, RemoveAtProperties
  <2> DEFINE cq == AddCommand(c.cmd_queue_, TransToCommand(c[which][i0]))
             d == [c EXCEPT !.cmd_queue_ = cq]
  <2>4. cq \in CommandQueueType
    BY <2>3, ControllerFields, AddCommandTyped
  <2> HIDE DEF cq
  <2>5. d \in ControllerType
    BY <2>4, WithCommandQueue
  <2>6. [d EXCEPT ![QueueFor(w)] = RemoveAt(c[which], i0)] \in ControllerType
    BY <1>0, <2>3, <2>5, WithTransQueue
  <2>7. d[which] = c[which]
    BY <1>0 DEF QueueFor, ControllerType
  <2>8. ToCommandQueue(c, which, i0) = [d EXCEPT ![which] = RemoveAt(d[which], i0)]
    BY DEF ToCommandQueue, cq
  <2>9. QED
    BY <1>0, <2>6, <2>7, <2>8
<1>7. CASE accepted = {}
  BY <1>1, <1>4, <1>5, <1>7
<1>8. CASE accepted # {} /\ HasOlderReads(c, c[which][i0])
  BY <1>4, <1>5, <1>8
<1>9. CASE accepted # {} /\ ~HasOlderReads(c, c[which][i0])
  <2> HIDE DEF i0
  <2>1. (IF drains THEN goal - 1 ELSE goal) \in Int
    BY <1>1
  <2>2. [ToCommandQueue(c, which, i0) EXCEPT
           !.write_draining_ = IF drains THEN goal - 1 ELSE goal] \in ControllerType
    BY <1>4, <1>6, <1>9, <2>1
  <2>3. QED
    BY <1>5, <1>9, <2>2
<1>10. QED
  BY <1>7, <1>8, <1>9

(* The passing of a cycle keeps a controller in its type.                  *)
LEMMA ElapseTyped ==
    ASSUME NEW c \in ControllerType PROVE Elapse(c) \in ControllerType
<1> DEFINE q == c.return_queue_
           f == [r \in Returns |->
                   (IF r.wait < MaxWait THEN q[[r EXCEPT !.wait = r.wait + 1]] ELSE 0)
                   + (IF r.wait = 0 THEN q[r] ELSE 0)]
<1>1. q \in [Returns -> Nat] /\ MaxWait \in Nat
  BY ControllerFields, LatenciesAreNat DEF MaxWait
<1>2. ASSUME NEW r \in Returns, r.wait < MaxWait
      PROVE  [r EXCEPT !.wait = r.wait + 1] \in Returns
  BY <1>1, <1>2 DEF Returns
<1>3. f \in [Returns -> Nat]
  BY <1>1, <1>2
<1> HIDE DEF f
<1>4. ChannelElapse(c.channel_state_) \in ChannelStateType
  BY ControllerFields, ChannelElapseTyped
<1>5. [c EXCEPT !.channel_state_ = ChannelElapse(c.channel_state_),
                !.return_queue_ = f] \in ControllerType
  BY <1>3, <1>4 DEF ControllerType
<1>6. QED
  BY <1>5 DEF Elapse, f

(* Controller::ClockTick keeps a controller in its type.                   *)
LEMMA ControllerTickTyped ==
    ASSUME NEW c \in ControllerType PROVE ControllerClockTick(c) \in ControllerType
<1> DEFINE tick == RefreshClockTick(c.channel_state_, c.refresh_)
           begun == [c EXCEPT !.channel_state_ = tick.cs, !.refresh_ = tick.rf,
                              !.cmd_trace_ = <<>>]
           issued == IssuePhase(begun)
           slept == SelfRefresh(CountIdle(issued))
<1>1. tick.cs \in ChannelStateType /\ tick.rf \in RefreshType
  BY ControllerFields, RefreshTickTyped
<1> HIDE DEF tick
<1>2. begun \in ControllerType
  <2>1. << >> \in Seq(IssueType)
    OBVIOUS
  <2>2. QED
    BY <1>1, <2>1 DEF ControllerType
<1> HIDE DEF begun
<1>3. issued \in ControllerType
  BY <1>2, IssuePhaseTyped
<1> HIDE DEF issued
<1>4. slept \in ControllerType
  BY <1>3, CountIdleTyped, SelfRefreshTyped
<1> HIDE DEF slept
<1>5. Elapse(ScheduleTransaction(Calculate_stats(slept))) \in ControllerType
  BY <1>4, CalculateStatsTyped, ScheduleTyped, ElapseTyped
<1>6. ControllerClockTick(c) = IF issued.exited THEN issued
                               ELSE IF slept.exited THEN slept
                               ELSE Elapse(ScheduleTransaction(Calculate_stats(slept)))
  BY DEF ControllerClockTick, RefreshPhase, PowerPhase, SchedulePhase, slept, issued, begun, tick
<1>7. QED
  BY <1>3, <1>4, <1>5, <1>6

(* The constructor makes a controller of its type.                         *)
LEMMA NewControllerTyped == NewController \in ControllerType
<1>1. NewBank \in BankType
  BY LimitsAssumption, LatenciesAreNat DEF NewBank, BankType
<1>2. NewChannelState \in ChannelStateType
  <2>1. 0 \in 0 .. config.sref_threshold
    BY DelaysAreNat
  <2>2. QED
    BY <1>1, <2>1 DEF NewChannelState, ChannelStateType
<1>3. NewCommandQueue \in CommandQueueType
  <2>1. 0 \in QueueIdx
    BY QueuesArePositive DEF QueueIdx
  <2>2. QED
    BY <2>1 DEF NewCommandQueue, CommandQueueType
<1>4. NewRefresh \in RefreshType
  BY IntervalIsPositive, CountsAssumption
     DEF NewRefresh, RefreshType, Ranks, Bankgroups, BanksPerGroup
<1>5. QED
  BY <1>2, <1>3, <1>4 DEF NewController, ControllerType

(* Every member of every object keeps its type for every configuration,    *)
(* whatever requests arrive and however refreshes, dual issue and self-    *)
(* refresh interleave with them: the timers never go below zero although   *)
(* some table entries are differences, the indices of queues, ranks and    *)
(* banks stay in range, and only commands that can be issued are.          *)
THEOREM TypeCorrect == Spec => []TypeOK
<1>1. Init => TypeOK
  BY NewControllerTyped, CountsAssumption DEF Init, TypeOK, Nothing
<1>2. TypeOK /\ [Next]_vars => TypeOK'
  <2> SUFFICES ASSUME TypeOK, [Next]_vars PROVE TypeOK'
    OBVIOUS
  <2>1. ASSUME NEW t \in Requests, AddTransaction(t) PROVE TypeOK'
    <3>1. t \in Transactions
      BY RequestsAssumption
    <3>2. GetChannel(t.addr) \in Channels
      BY <3>1, AddrAssumption DEF GetChannel, Transactions
    <3>3. ctrls_' \in [Channels -> ControllerType]
      BY <2>1, <3>1, <3>2, AddTransactionTyped DEF AddTransaction, TypeOK
    <3>4. returned' \in [Transactions -> Nat] /\ clk_' = clk_
      BY <2>1 DEF AddTransaction, Nothing
    <3>5. QED
      BY <3>3, <3>4 DEF TypeOK
  <2>2. CASE ClockTick
    <3>1. ctrls_' \in [Channels -> ControllerType]
      BY <2>2, ReturnDoneTyped, ControllerTickTyped DEF ClockTick, TypeOK
    <3>2. \A t \in Transactions : DoneTrans(ctrls_[GetChannel(t.addr)], t) \in Nat
      <4> SUFFICES ASSUME NEW t \in Transactions
                   PROVE  DoneTrans(ctrls_[GetChannel(t.addr)], t) \in Nat
        OBVIOUS
      <4>1. ctrls_[GetChannel(t.addr)] \in ControllerType
        BY AddrAssumption DEF TypeOK, GetChannel, Transactions
      <4>2. Return(t.addr, t.is_write, 0) \in Returns
        BY LatenciesAreNat DEF Return, Returns, Transactions, MaxWait
      <4>3. QED
        BY <4>1, <4>2, ControllerFields DEF DoneTrans
    <3>3. clk_' \in 0 .. config.epoch_period - 1
      <4>1. clk_ + 1 \in Nat /\ config.epoch_period \in Nat \ {0}
        BY CountsAssumption DEF TypeOK
      <4>2. (clk_ + 1) % config.epoch_period \in 0 .. config.epoch_period - 1
        BY <4>1, Wrap
      <4>3. QED
        BY <2>2, <4>2 DEF ClockTick, Advance
    <3>4. QED
      BY <2>2, <3>1, <3>2, <3>3 DEF ClockTick, TypeOK
  <2>3. CASE UNCHANGED vars
    BY <2>3 DEF vars, TypeOK
  <2>4. QED
    BY <2>1, <2>2, <2>3 DEF Next
<1>3. QED
  BY <1>1, <1>2, PTL DEF Spec

-----------------------------------------------------------------------------
(* Safety of a controller.                                                 *)

(* No window holds more entries than its depth.                            *)
WindowsOk(cs) ==
    \A r \in Ranks : /\ Len(cs.four_aw_[r]) <= FawDepth
                     /\ Len(cs.thirty_two_aw_[r]) <= Aw32Depth

(* What FinishRefresh has left in the command queues.                      *)
HeldOk(cs, cq) ==
    IF cq.is_in_ref_
    THEN IsRefreshWaiting(cs) /\ cq.ref_q_indices_ = GetRefQIndices(PendingRefCommand(cs))
    ELSE cq.ref_q_indices_ = {}

(* The drain counter, with what keeps it in step with the buffer: each of  *)
(* the two queues holds transactions of its own direction.                 *)
DrainOk(c) ==
    /\ c.write_draining_ \in 0 .. Len(c.write_buffer_)
    /\ \A i \in DOMAIN c.write_buffer_ : c.write_buffer_[i].is_write
    /\ \A i \in DOMAIN c.read_queue_ : ~c.read_queue_[i].is_write

Safe(c) ==
    /\ c \in ControllerType
    /\ WindowsOk(c.channel_state_)
    /\ HeldOk(c.channel_state_, c.cmd_queue_)
    /\ DrainOk(c)

(* An ACTIVATE among the commands has been admitted by the windows.        *)
Admitted(cs, cmd) ==
    cmd.cmd_type = "ACTIVATE" => ActivationWindowOk(cs, cmd.addr.rank)

-----------------------------------------------------------------------------
(* Which commands the channel answers with.                                *)

(* A bank refreshes only when it is asked to, and is opened or accessed    *)
(* only for an access.                                                     *)
LEMMA BankAnswerKind ==
    ASSUME NEW b \in BankType, NEW cmd \in Askable
    PROVE  LET r == BankGetReadyCommand(b, cmd)
           IN /\ IsRefresh(r) => r.cmd_type = cmd.cmd_type
              /\ r.cmd_type = "ACTIVATE" => cmd.cmd_type \in RWTypes /\ r.addr = cmd.addr
              /\ r.cmd_type \in RWTypes => cmd.cmd_type \in RWTypes
<1> DEFINE t == RequiredType(b, cmd)
<1>1. /\ t \in {"REFRESH", "REFRESH_BANK"} => t = cmd.cmd_type
      /\ t \in RWTypes \cup {"ACTIVATE"} => cmd.cmd_type \in RWTypes
  BY AskableTyped DEF RequiredType, RankTypes, RWTypes, ReadTypes, WriteTypes
<1> HIDE DEF t
<1>2. CASE t = "EXIT"
  BY <1>2 DEF BankGetReadyCommand, t, IsRefresh, AbruptExit, Command,
              RWTypes, ReadTypes, WriteTypes
<1>3. CASE t # "EXIT" /\ b.cmd_timing_[t] = 0
  BY <1>1, <1>3 DEF BankGetReadyCommand, t, IsRefresh, Command
<1>4. CASE t # "EXIT" /\ b.cmd_timing_[t] # 0
  BY <1>4 DEF BankGetReadyCommand, t, IsRefresh, NoCommand, Command,
              RWTypes, ReadTypes, WriteTypes
<1>5. QED
  BY <1>2, <1>3, <1>4

(* ChannelState::GetReadyCommand answers with an ACTIVATE only if the      *)
(* windows admit one, and with a refresh only if it was asked for one.  A  *)
(* command for a rank is never answered with an access or an ACTIVATE.     *)
LEMMA ChannelAnswerKind ==
    ASSUME NEW cs \in ChannelStateType, NEW cmd \in Askable
    PROVE  LET r == ChannelGetReadyCommand(cs, cmd)
           IN /\ Admitted(cs, r) /\ (IsRefresh(r) => IsRefresh(cmd))
              /\ IsRankCMD(cmd) => r.cmd_type \notin RWTypes \cup {"ACTIVATE"}
<1>1. cs.bank_states_ \in [Banks -> BankType]
  BY DEF ChannelStateType
<1>2. CASE ~IsRankCMD(cmd)
  <2> DEFINE r == BankGetReadyCommand(cs.bank_states_[BankOf(cmd.addr)], cmd)
  <2>1. /\ IsRefresh(r) => r.cmd_type = cmd.cmd_type
        /\ r.cmd_type = "ACTIVATE" => r.addr = cmd.addr
    BY <1>1, <1>2, AskableTyped, BankAnswerKind
  <2> HIDE DEF r
  <2>2. ChannelGetReadyCommand(cs, cmd) =
          IF r.cmd_type = "ACTIVATE" /\ ~ActivationWindowOk(cs, cmd.addr.rank)
          THEN NoCommand ELSE r
    BY <1>2 DEF ChannelGetReadyCommand, r
  <2>3. ~IsRefresh(NoCommand) /\ NoCommand.cmd_type # "ACTIVATE"
    BY DEF IsRefresh, NoCommand, Command
  <2>4. QED
    BY <1>2, <2>1, <2>2, <2>3 DEF Admitted, IsRefresh
<1>3. CASE IsRankCMD(cmd)
  <2> DEFINE rank == cmd.addr.rank
             ready == [k \in 1 .. banks |->
                         BankGetReadyCommand(cs.bank_states_[RankBank(rank, k)], cmd)]
             decisive == {k \in 1 .. banks :
                            IsValid(ready[k]) /\ ready[k].cmd_type # cmd.cmd_type}
             least == Min(decisive)
             b == RankBank(rank, least)
  <2>0. rank \in Ranks
    BY AskableTyped DEF CommandRecord, AddressType
  <2>1. cmd.cmd_type \notin RWTypes /\ cmd.cmd_type # "ACTIVATE"
    BY <1>3 DEF IsRankCMD, RankTypes, RWTypes, ReadTypes, WriteTypes
  <2>2. ASSUME NEW k \in 1 .. banks
        PROVE  /\ IsRefresh(ready[k]) => ready[k].cmd_type = cmd.cmd_type
               /\ ready[k].cmd_type \notin RWTypes \cup {"ACTIVATE"}
               /\ ready[k] \in CommandRecord \cup {NoCommand, AbruptExit}
    <3>1. cs.bank_states_[RankBank(rank, k)] \in BankType
      BY <1>1, <2>0, RankBankIsBank
    <3>2. QED
      BY <2>1, <3>1, BankAnswerKind, BankAnswerTyped
  <2>3. CASE decisive # {}
    <3>0. decisive \in SUBSET Nat
      OBVIOUS
    <3> HIDE DEF decisive
    <3>1. least \in decisive
      BY <2>3, <3>0, MinIsLeast
    <3> USE DEF decisive
    <3>2. /\ ~IsRefresh(ready[least])
          /\ ready[least].cmd_type \notin RWTypes \cup {"ACTIVATE"}
          /\ ready[least] \in CommandRecord \cup {NoCommand, AbruptExit}
      BY <2>2, <3>1
    <3> HIDE DEF ready, decisive, least
    <3>3. CASE IsExit(ready[least])
      <4>1. ChannelGetReadyCommand(cs, cmd) = AbruptExit
        BY <1>3, <2>3, <3>3 DEF ChannelGetReadyCommand, RankGetReadyCommand, RankDecides,
                                ready, decisive, least
      <4>2. QED
        BY <4>1 DEF Admitted, IsRefresh, AbruptExit, Command, RWTypes, ReadTypes, WriteTypes
    <3>4. CASE ~IsExit(ready[least])
      <4> DEFINE ans == [ready[least] EXCEPT !.addr = Address(rank, b[2], b[3], -1, -1)]
      <4>1. ChannelGetReadyCommand(cs, cmd) = ans
        BY <1>3, <2>3, <3>4 DEF ChannelGetReadyCommand, RankGetReadyCommand, RankDecides,
                                ready, decisive, least
      <4>2. ans.cmd_type = ready[least].cmd_type
        BY <3>2 DEF CommandRecord, NoCommand, AbruptExit, Command
      <4>3. QED
        BY <3>2, <4>1, <4>2 DEF Admitted, IsRefresh
    <3>5. QED
      BY <3>3, <3>4
  <2>4. CASE decisive = {}
    <3>1. \/ ChannelGetReadyCommand(cs, cmd) = NoCommand
          \/ ChannelGetReadyCommand(cs, cmd) =
               Command(cmd.cmd_type, cmd.addr, cmd.hex_addr, cmd.cmd_type)
      BY <1>3, <2>4 DEF ChannelGetReadyCommand, RankGetReadyCommand, RankDecides
    <3>2. QED
      BY <2>1, <3>1 DEF Admitted, IsRefresh, NoCommand, Command,
                        RWTypes, ReadTypes, WriteTypes
  <2>5. QED
    BY <2>3, <2>4
<1>4. QED
  BY <1>2, <1>3

(* The commands of the queues and of self-refresh are no refreshes.        *)
LEMMA NotRefresh ==
    ASSUME NEW cmd \in QueueCommands \cup SelfRefreshCommands
    PROVE  ~IsRefresh(cmd) /\ cmd \in Askable
<1>1. CASE cmd \in QueueCommands
  BY <1>1, QueueCommandsTyped DEF IsRefresh, RWTypes, ReadTypes, WriteTypes, Askable
<1>2. CASE cmd \in SelfRefreshCommands
  BY <1>2 DEF SelfRefreshCommands, Command, IsRefresh, Askable
<1>3. QED
  BY <1>1, <1>2

-----------------------------------------------------------------------------
(* The commands a cycle issues.                                            *)

(* What a command queue has ready: an admitted ACTIVATE or another         *)
(* command, never a refresh.                                               *)
LEMMA FirstReadyKind ==
    ASSUME NEW cs \in ChannelStateType, NEW queue \in Seq(QueueCommands)
    PROVE  LET r == GetFirstReadyInQueue(cs, queue)
           IN Admitted(cs, r) /\ ~IsRefresh(r)
<1> DEFINE ready == [i \in DOMAIN queue |-> ChannelGetReadyCommand(cs, queue[i])]
           eligible ==
             {i \in DOMAIN queue :
                /\ IsValid(ready[i])
                /\ ready[i].cmd_type = "PRECHARGE" => ArbitratePrecharge(cs, queue, i)
                /\ IsWrite(ready[i]) => ~HasRWDependency(queue, i)}
<1>1. \A i \in DOMAIN queue : Admitted(cs, ready[i]) /\ ~IsRefresh(ready[i])
  BY ChannelAnswerKind, NotRefresh
<1>2. eligible \in SUBSET Nat /\ eligible \subseteq DOMAIN queue
  OBVIOUS
<1>3. GetFirstReadyInQueue(cs, queue) =
        IF eligible = {} THEN NoCommand ELSE ready[Min(eligible)]
  BY DEF GetFirstReadyInQueue, FirstEligible
<1> HIDE DEF ready, eligible
<1>4. CASE eligible = {}
  BY <1>3, <1>4 DEF NoCommand, Command, Admitted, IsRefresh
<1>5. CASE eligible # {}
  <2>1. Min(eligible) \in eligible
    BY <1>2, <1>5, MinIsLeast
  <2>2. QED
    BY <1>1, <1>2, <1>3, <1>5, <2>1
<1>6. QED
  BY <1>4, <1>5

(* Taking a command does not touch the hold-back.                          *)
LEMMA TakeCommandHeld ==
    ASSUME NEW cs \in ChannelStateType, NEW cq \in CommandQueueType, NEW k \in Nat,
           NEW cmd \in Answers, Admitted(cs, cmd), ~IsRefresh(cmd)
    PROVE  LET got == TakeCommand(cq, k, cmd)
           IN /\ Admitted(cs, got.cmd) /\ ~IsRefresh(got.cmd)
              /\ got.cq.is_in_ref_ = cq.is_in_ref_
              /\ got.cq.ref_q_indices_ = cq.ref_q_indices_
<1>1. Admitted(cs, AbruptExit) /\ ~IsRefresh(AbruptExit)
  BY DEF AbruptExit, Command, Admitted, IsRefresh
<1> DEFINE next == [cq EXCEPT !.queue_idx_ = GetNextQueue(cq, k)]
<1>2. /\ next.is_in_ref_ = cq.is_in_ref_ /\ next.ref_q_indices_ = cq.ref_q_indices_
      /\ EraseRWCommand(next, cmd).is_in_ref_ = cq.is_in_ref_
      /\ EraseRWCommand(next, cmd).ref_q_indices_ = cq.ref_q_indices_
  BY DEF CommandQueueType, EraseRWCommand
<1> HIDE DEF next
<1>3. TakeCommand(cq, k, cmd) \in {[cmd |-> cmd, cq |-> next], [cmd |-> AbruptExit, cq |-> next],
                                   [cmd |-> cmd, cq |-> EraseRWCommand(next, cmd)]}
  BY DEF TakeCommand, next
<1>4. QED
  BY <1>1, <1>2, <1>3

(* GetCommandToIssue finds no refresh, finds an ACTIVATE only if it is     *)
(* admitted, and leaves the hold-back alone.                               *)
LEMMA GetCommandHeld ==
    ASSUME NEW cs \in ChannelStateType, NEW cq \in CommandQueueType
    PROVE  LET got == GetCommandToIssue(cs, cq)
           IN /\ Admitted(cs, got.cmd) /\ ~IsRefresh(got.cmd)
              /\ got.cq.is_in_ref_ = cq.is_in_ref_
              /\ got.cq.ref_q_indices_ = cq.ref_q_indices_
<1> DEFINE ready == ReadyInQueues(cs, cq)
           found == {k \in 1 .. num_queues_ : IsValid(ready[k])}
<1>0. Admitted(cs, NoCommand) /\ ~IsRefresh(NoCommand) /\ NoCommand \in Answers
  BY DEF NoCommand, Command, Admitted, IsRefresh, Answers
<1>1. \A k \in 1 .. num_queues_ :
        ready[k] \in Answers /\ Admitted(cs, ready[k]) /\ ~IsRefresh(ready[k])
  <2>1. \A k \in 1 .. num_queues_ : GetNextQueue(cq, k) \in QueueIdx
    BY NextQueueInRange, QueuesArePositive
  <2>2. QED
    BY <1>0, <2>1, FirstReadyTyped, FirstReadyKind DEF ReadyInQueues, CommandQueueType
<1> HIDE DEF ready
<1>2. found \in SUBSET Nat /\ found \subseteq 1 .. num_queues_
  BY QueuesArePositive
<1>3. GetCommandToIssue(cs, cq) =
        IF found = {} THEN [cmd |-> NoCommand, cq |-> cq]
        ELSE TakeCommand(cq, Min(found), ready[Min(found)])
  BY DEF GetCommandToIssue, TakeFirst, ready
<1> HIDE DEF found
<1>4. CASE found = {}
  BY <1>0, <1>3, <1>4
<1>5. CASE found # {}
  <2>1. Min(found) \in found
    BY <1>2, <1>5, MinIsLeast
  <2>2. Min(found) \in Nat /\ Min(found) \in 1 .. num_queues_
    BY <1>2, <2>1
  <2> DEFINE cmd == ready[Min(found)]
  <2>3. cmd \in Answers /\ Admitted(cs, cmd) /\ ~IsRefresh(cmd)
    BY <1>1, <2>2
  <2> HIDE DEF cmd
  <2>4. QED
    BY <1>3, <1>5, <2>2, <2>3, TakeCommandHeld DEF cmd
<1>6. QED
  BY <1>4, <1>5

(* The hold-back after the command of a refresh or of the queues has been  *)
(* chosen: released if it is the refresh, that of the head otherwise.      *)
HeldAfter(cs, cmd, cq) ==
    IF IsRefresh(cmd) THEN ~cq.is_in_ref_ /\ cq.ref_q_indices_ = {}
    ELSE HeldOk(cs, cq)

(* FinishRefresh holds back the queues of the oldest refresh until it      *)
(* answers with that refresh.                                              *)
LEMMA FinishRefreshHeld ==
    ASSUME NEW cs \in ChannelStateType, NEW cq \in CommandQueueType,
           IsRefreshWaiting(cs), HeldOk(cs, cq)
    PROVE  LET got == FinishRefresh(cs, cq)
           IN Admitted(cs, got.cmd) /\ HeldAfter(cs, got.cmd, got.cq)
<1> DEFINE ref == PendingRefCommand(cs)
           cmd == ChannelGetReadyCommand(cs, ref)
           held == IF cq.is_in_ref_ THEN cq
                   ELSE [cq EXCEPT !.ref_q_indices_ = GetRefQIndices(ref),
                                   !.is_in_ref_ = TRUE]
           got == FinishRefresh(cs, cq)
<1>1. ref \in Askable
  BY DEF ChannelStateType, PendingRefCommand, IsRefreshWaiting, Askable
<1> HIDE DEF ref
<1>2. Admitted(cs, cmd)
  BY <1>1, ChannelAnswerKind
<1> HIDE DEF cmd
<1>3. held.is_in_ref_ /\ held.ref_q_indices_ = GetRefQIndices(ref)
  BY DEF CommandQueueType, HeldOk, ref
<1>4. /\ [held EXCEPT !.ref_q_indices_ = {}, !.is_in_ref_ = FALSE].is_in_ref_ = FALSE
      /\ [held EXCEPT !.ref_q_indices_ = {}, !.is_in_ref_ = FALSE].ref_q_indices_ = {}
  BY DEF CommandQueueType
<1>5. HeldOk(cs, held)
  BY <1>3 DEF HeldOk, ref
<1> HIDE DEF held
<1>6. got = [cmd |-> cmd,
             cq  |-> IF IsRefresh(cmd)
                     THEN [held EXCEPT !.ref_q_indices_ = {}, !.is_in_ref_ = FALSE]
                     ELSE held]
  BY DEF FinishRefresh, cmd, held, ref
<1> DEFINE freed == [held EXCEPT !.ref_q_indices_ = {}, !.is_in_ref_ = FALSE]
<1>7. got.cmd = cmd /\ got.cq = IF IsRefresh(cmd) THEN freed ELSE held
  BY <1>6
<1>8. freed.is_in_ref_ = FALSE /\ freed.ref_q_indices_ = {}
  BY <1>4
<1> HIDE DEF freed, got
<1>9. Admitted(cs, got.cmd) /\ HeldAfter(cs, got.cmd, got.cq)
  BY <1>2, <1>5, <1>7, <1>8 DEF HeldAfter
<1>10. QED
  BY <1>9 DEF got

(* The first command of a cycle.                                           *)
LEMMA FirstCommandHeld ==
    ASSUME NEW c \in ControllerType, HeldOk(c.channel_state_, c.cmd_queue_)
    PROVE  LET got == FirstCommand(c)
           IN /\ Admitted(c.channel_state_, got.cmd)
              /\ HeldAfter(c.channel_state_, got.cmd, got.cq)
<1> DEFINE cs == c.channel_state_
           refresh == IF IsRefreshWaiting(cs) THEN FinishRefresh(cs, c.cmd_queue_)
                      ELSE [cmd |-> NoCommand, cq |-> c.cmd_queue_]
           got == GetCommandToIssue(cs, refresh.cq)
<1>1. cs \in ChannelStateType /\ c.cmd_queue_ \in CommandQueueType
  BY ControllerFields
<1>2. Admitted(cs, NoCommand) /\ ~IsRefresh(NoCommand)
  BY DEF NoCommand, Command, Admitted, IsRefresh
<1>3. refresh.cq \in CommandQueueType
  BY <1>1, FinishRefreshTyped
<1>4. Admitted(cs, refresh.cmd) /\ HeldAfter(cs, refresh.cmd, refresh.cq)
  BY <1>1, <1>2, FinishRefreshHeld DEF HeldAfter
<1>5. FirstCommand(c) = IF IsValid(refresh.cmd) THEN refresh ELSE got
  BY DEF FirstCommand, OrFromQueues
<1> HIDE DEF refresh, cs
<1>6. CASE IsValid(refresh.cmd)
  BY <1>4, <1>5, <1>6 DEF cs
<1>7. CASE ~IsValid(refresh.cmd)
  <2>1. ~IsRefresh(refresh.cmd)
    BY <1>7 DEF IsValid, IsRefresh
  <2>2. HeldOk(cs, refresh.cq)
    BY <1>4, <2>1 DEF HeldAfter
  <2>3. /\ Admitted(cs, got.cmd) /\ ~IsRefresh(got.cmd)
        /\ got.cq.is_in_ref_ = refresh.cq.is_in_ref_
        /\ got.cq.ref_q_indices_ = refresh.cq.ref_q_indices_
    BY <1>1, <1>3, GetCommandHeld
  <2> HIDE DEF got
  <2>4. HeldAfter(cs, got.cmd, got.cq)
    BY <2>2, <2>3 DEF HeldAfter, HeldOk
  <2>5. QED
    BY <1>5, <1>7, <2>3, <2>4 DEF cs
<1>8. QED
  BY <1>6, <1>7

-----------------------------------------------------------------------------
(* What issuing a command does to the windows and to refresh_q_.           *)

(* A window that admits an activation has room for it once its expired     *)
(* head is dropped.                                                        *)
LEMMA ActivatedFits ==
    ASSUME NEW window \in Seq(Nat), NEW len \in Nat, NEW depth \in Nat \ {0},
           Len(window) <= depth, WindowReady(window, depth)
    PROVE  Len(Activated(window, len)) <= depth
<1>1. CASE window # <<>> /\ Head(window) = 0
  <2>1. Tail(window) \in Seq(Nat) /\ Len(Tail(window)) = Len(window) - 1
    BY <1>1
  <2>2. Len(Append(Tail(window), len)) = Len(window)
    BY <2>1
  <2>3. QED
    BY <1>1, <2>2 DEF Activated
<1>2. CASE ~(window # <<>> /\ Head(window) = 0)
  <2>1. Len(window) < depth
    <3>1. CASE window = <<>>
      BY <3>1
    <3>2. CASE window # <<>>
      <4>1. Head(window) \in Nat /\ Head(window) # 0
        BY <1>2, <3>2
      <4>2. QED
        BY <3>2, <4>1 DEF WindowReady
    <3>3. QED
      BY <3>1, <3>2
  <2>2. Len(Append(window, len)) = Len(window) + 1
    OBVIOUS
  <2>3. QED
    BY <1>2, <2>1, <2>2 DEF Activated
<1>3. QED
  BY <1>1, <1>2

(* An admitted command keeps the windows within their depths.              *)
LEMMA UpdateWindows ==
    ASSUME NEW cs \in ChannelStateType, NEW cmd \in IssueType,
           WindowsOk(cs), Admitted(cs, cmd)
    PROVE  WindowsOk(UpdateTimingAndStates(cs, cmd))
<1> DEFINE u == ChannelUpdateState(cs, cmd)
           rank == cmd.addr.rank
           new == UpdateTimingAndStates(cs, cmd)
<1>0. rank \in Ranks
  BY DEF IssueType, CommandRecord, AddressType
<1>1. u.four_aw_ = cs.four_aw_ /\ u.thirty_two_aw_ = cs.thirty_two_aw_
  BY DEF ChannelUpdateState, RankRefreshDone, BankRefreshDone, ChannelStateType
<1>2. /\ cs.four_aw_ \in [Ranks -> Seq(Nat)] /\ cs.thirty_two_aw_ \in [Ranks -> Seq(Nat)]
      /\ FawDepth \in Nat \ {0} /\ Aw32Depth \in Nat \ {0}
      /\ config.tFAW \in Nat /\ config.t32AW \in Nat
  BY DelaysAreNat, LimitsAssumption DEF ChannelStateType
<1>3. CASE cmd.cmd_type # "ACTIVATE"
  <2>1. new.four_aw_ = u.four_aw_ /\ new.thirty_two_aw_ = u.thirty_two_aw_
    BY <1>3 DEF UpdateTimingAndStates, ChannelUpdateTiming
  <2>2. QED
    BY <1>1, <2>1 DEF WindowsOk
<1>4. CASE cmd.cmd_type = "ACTIVATE"
  <2>0. u = [cs EXCEPT !.bank_states_ = u.bank_states_]
    BY <1>4 DEF ChannelUpdateState, ChannelStateType
  <2>1. /\ new.four_aw_ = [cs.four_aw_ EXCEPT ![rank] = Activated(cs.four_aw_[rank], config.tFAW)]
        /\ new.thirty_two_aw_ = [cs.thirty_two_aw_ EXCEPT ![rank] =
             IF IsGDDR THEN Activated(cs.thirty_two_aw_[rank], config.t32AW)
             ELSE cs.thirty_two_aw_[rank]]
    BY <1>1, <1>4, <2>0 DEF UpdateTimingAndStates, ChannelUpdateTiming, UpdateActivationTimes,
                            ChannelStateType
  <2> HIDE DEF new
  <2>2. /\ WindowReady(cs.four_aw_[rank], FawDepth)
        /\ IsGDDR => WindowReady(cs.thirty_two_aw_[rank], Aw32Depth)
    BY <1>4 DEF Admitted, ActivationWindowOk
  <2>3. Len(Activated(cs.four_aw_[rank], config.tFAW)) <= FawDepth
    BY <1>0, <1>2, <2>2, ActivatedFits DEF WindowsOk
  <2>4. IsGDDR => Len(Activated(cs.thirty_two_aw_[rank], config.t32AW)) <= Aw32Depth
    BY <1>0, <1>2, <2>2, ActivatedFits DEF WindowsOk
  <2>5. ASSUME NEW r \in Ranks
        PROVE  Len(new.four_aw_[r]) <= FawDepth /\ Len(new.thirty_two_aw_[r]) <= Aw32Depth
    <3>1. CASE r = rank
      BY <1>0, <1>2, <2>1, <2>3, <2>4, <3>1 DEF WindowsOk
    <3>2. CASE r # rank
      BY <1>0, <1>2, <2>1, <3>2 DEF WindowsOk
    <3>3. QED
      BY <3>1, <3>2
  <2>6. QED
    BY <2>5 DEF WindowsOk, new
<1>5. QED
  BY <1>3, <1>4

(* Only a refresh changes refresh_q_.                                      *)
LEMMA UpdateRefreshes ==
    ASSUME NEW cs \in ChannelStateType, NEW cmd, ~IsRefresh(cmd)
    PROVE  UpdateTimingAndStates(cs, cmd).refresh_q_ = cs.refresh_q_
<1> DEFINE u == ChannelUpdateState(cs, cmd)
<1>1. cmd.cmd_type # "REFRESH" /\ cmd.cmd_type # "REFRESH_BANK"
  BY DEF IsRefresh
<1>2. u.refresh_q_ = cs.refresh_q_
  BY <1>1 DEF ChannelUpdateState, ChannelStateType
<1> HIDE DEF u
<1>3. QED
  BY <1>2 DEF UpdateTimingAndStates, ChannelUpdateTiming, UpdateActivationTimes, u

-----------------------------------------------------------------------------
(* The phases of Controller::ClockTick.                                    *)

(* What issuing leaves alone.                                              *)
SameQueues(d, c) ==
    /\ d.write_draining_ = c.write_draining_ /\ d.write_buffer_ = c.write_buffer_
    /\ d.read_queue_ = c.read_queue_ /\ d.cmd_queue_ = c.cmd_queue_

(* The drain counter of ScheduleTransaction depends on these members only. *)
LEMMA SameQueuesDrain ==
    ASSUME NEW c, NEW d, SameQueues(d, c), DrainOk(c) PROVE DrainOk(d)
BY DEF SameQueues, DrainOk

(* MarkInServe changes nothing but two members of a bank.                  *)
LEMMA MarkFrame ==
    ASSUME NEW c \in ControllerType, NEW cmd
    PROVE  LET d == MarkInServe(c, cmd)
           IN /\ SameQueues(d, c)
              /\ d.channel_state_.refresh_q_ = c.channel_state_.refresh_q_
              /\ d.channel_state_.four_aw_ = c.channel_state_.four_aw_
              /\ d.channel_state_.thirty_two_aw_ = c.channel_state_.thirty_two_aw_
<1> DEFINE b == BankOf(cmd.addr)
           opens == \/ cmd.cmd_type = "ACTIVATE" /\ cmd.by \in ReadTypes
                    \/ cmd.cmd_type = "PRECHARGE" /\ cmd.by \in RWTypes
<1>0. c.channel_state_ \in ChannelStateType
  BY ControllerFields
<1>1. ~(IsRead(cmd) /\ opens)
  BY DEF IsRead, ReadTypes
<1> HIDE DEF b
<1>2. CASE IsRead(cmd)
  <2> DEFINE serving == [c.channel_state_.bank_states_[b] EXCEPT
                           !.in_serve = TRUE, !.serve_end = read_delay + 1]
  <2>1. MarkInServe(c, cmd) = [c EXCEPT !.channel_state_.bank_states_[b] = serving]
    BY <1>1, <1>2 DEF MarkInServe, b
  <2> HIDE DEF serving
  <2>2. QED
    BY <1>0, <2>1 DEF ControllerType, ChannelStateType, SameQueues
<1>3. CASE opens
  <2>1. MarkInServe(c, cmd) = [c EXCEPT !.channel_state_.bank_states_[b].in_serve = TRUE]
    BY <1>1, <1>3 DEF MarkInServe, b
  <2>2. QED
    BY <1>0, <2>1 DEF ControllerType, ChannelStateType, SameQueues
<1>4. CASE ~IsRead(cmd) /\ ~opens
  BY <1>4 DEF MarkInServe, SameQueues
<1>5. QED
  BY <1>2, <1>3, <1>4

(* Settle changes return_queue_ and the pending requests only.             *)
LEMMA SettleFrame ==
    ASSUME NEW c \in ControllerType, NEW cmd
    PROVE  /\ SameQueues(Settle(c, cmd), c)
           /\ Settle(c, cmd).channel_state_ = c.channel_state_
<1>1. ~(IsRead(cmd) /\ IsWrite(cmd))
  BY DEF IsRead, IsWrite, ReadTypes, WriteTypes
<1> DEFINE a == cmd.hex_addr
<1> HIDE DEF a
<1>2. CASE IsRead(cmd)
  <2>1. Settle(c, cmd) = [Complete(c, a, FALSE, c.pending_rd_q_[a], read_delay)
                            EXCEPT !.pending_rd_q_[a] = 0]
    BY <1>1, <1>2 DEF Settle, a
  <2> DEFINE d == Complete(c, a, FALSE, c.pending_rd_q_[a], read_delay)
             q == d.return_queue_
  <2>2. d = [c EXCEPT !.return_queue_ = q]
    BY DEF Complete, ControllerType
  <2> HIDE DEF d, q
  <2>3. QED
    BY <2>1, <2>2 DEF ControllerType, SameQueues, d
<1>3. CASE IsWrite(cmd)
  <2>1. Settle(c, cmd) = [c EXCEPT !.pending_wr_q_[a] = @ - 1]
    BY <1>1, <1>3 DEF Settle, a
  <2>2. QED
    BY <2>1 DEF ControllerType, SameQueues
<1>4. CASE ~IsRead(cmd) /\ ~IsWrite(cmd)
  BY <1>4 DEF Settle, SameQueues
<1>5. QED
  BY <1>2, <1>3, <1>4

(* The hold-back is right also if the command is not issued after all.     *)
LEMMA HeldAfterHeld ==
    ASSUME NEW cs, NEW cmd, NEW cq \in CommandQueueType, HeldAfter(cs, cmd, cq)
    PROVE  HeldOk(cs, cq)
BY DEF HeldAfter, HeldOk, CommandQueueType

(* Issuing an admitted command keeps a controller safe: a refresh leaves   *)
(* refresh_q_ only after the queues it held back have been released.       *)
LEMMA IssueCommandSafe ==
    ASSUME NEW c \in ControllerType, NEW cmd \in Answers, IsValid(cmd),
           WindowsOk(c.channel_state_), DrainOk(c), Admitted(c.channel_state_, cmd),
           HeldAfter(c.channel_state_, cmd, c.cmd_queue_)
    PROVE  Safe(IssueCommand(c, cmd))
<1> DEFINE issued == IssueCommand(c, cmd)
           cs == c.channel_state_
           cq == c.cmd_queue_
           exits == \/ IsExit(cmd)
                    \/ IsRead(cmd) /\ c.pending_rd_q_[cmd.hex_addr] = 0
                    \/ IsWrite(cmd) /\ c.pending_wr_q_[cmd.hex_addr] = 0
                    \/ ~ChannelAccepts(cs, cmd)
<1>0. cs \in ChannelStateType /\ cq \in CommandQueueType
  BY ControllerFields
<1>1. issued \in ControllerType
  BY IssueCommandTyped
<1>2. CASE exits
  <2>1. issued = [c EXCEPT !.exited = TRUE]
    BY <1>2 DEF IssueCommand, Exit
  <2> HIDE DEF issued
  <2>2. issued.channel_state_ = cs /\ issued.cmd_queue_ = cq /\ SameQueues(issued, c)
    BY <2>1 DEF ControllerType, SameQueues
  <2>3. DrainOk(issued)
    BY <2>2, SameQueuesDrain
  <2>4. HeldOk(cs, cq)
    BY <1>0, HeldAfterHeld
  <2>5. QED
    BY <1>1, <2>2, <2>3, <2>4 DEF Safe, issued
<1>3. CASE ~exits
  <2> DEFINE traced == [c EXCEPT !.cmd_trace_ = Append(c.cmd_trace_, cmd)]
             settled == Settle(traced, cmd)
             new == UpdateTimingAndStates(cs, cmd)
             updated == [settled EXCEPT !.channel_state_ = new]
  <2>0. cmd \in IssueType
    BY <1>3, AnswersValid
  <2>1. traced \in ControllerType
    <3>1. Append(c.cmd_trace_, cmd) \in Seq(IssueType)
      BY <2>0, ControllerFields
    <3>2. QED
      BY <3>1 DEF ControllerType
  <2>2. SameQueues(traced, c) /\ traced.channel_state_ = cs
    BY DEF ControllerType, SameQueues
  <2> HIDE DEF traced
  <2>3. SameQueues(settled, traced) /\ settled.channel_state_ = cs
    BY <2>1, <2>2, SettleFrame
  <2>4. issued = MarkInServe([settled EXCEPT !.channel_state_ =
                                UpdateTimingAndStates(settled.channel_state_, cmd)], cmd)
    BY <1>3 DEF IssueCommand, traced
  <2> HIDE DEF settled, issued
  <2>5. issued = MarkInServe(updated, cmd)
    BY <2>3, <2>4
  <2>6. settled \in ControllerType
    <3>1. traced.pending_wr_q_ = c.pending_wr_q_
      BY DEF traced, ControllerType
    <3>2. QED
      BY <1>3, <2>0, <2>1, <3>1, SettleTyped DEF settled
  <2>7. new \in ChannelStateType /\ WindowsOk(new)
    BY <1>0, <2>0, ChannelUpdateTyped, UpdateWindows
  <2>8. ~IsRefresh(cmd) => new.refresh_q_ = cs.refresh_q_
    BY <1>0, UpdateRefreshes
  <2> HIDE DEF new
  <2>9. /\ updated \in ControllerType /\ updated.channel_state_ = new
         /\ SameQueues(updated, settled)
    BY <2>6, <2>7 DEF ControllerType, SameQueues
  <2> HIDE DEF updated
  <2>10. /\ SameQueues(issued, updated)
         /\ issued.channel_state_.refresh_q_ = new.refresh_q_
         /\ issued.channel_state_.four_aw_ = new.four_aw_
         /\ issued.channel_state_.thirty_two_aw_ = new.thirty_two_aw_
    BY <2>5, <2>9, MarkFrame
  <2>11. SameQueues(issued, c)
    BY <2>2, <2>3, <2>9, <2>10 DEF SameQueues
  <2>12. WindowsOk(issued.channel_state_)
    BY <2>7, <2>10 DEF WindowsOk
  <2>13. DrainOk(issued)
    BY <2>11, SameQueuesDrain
  <2>14. HeldOk(issued.channel_state_, issued.cmd_queue_)
    <3>1. issued.cmd_queue_ = cq
      BY <2>11 DEF SameQueues
    <3>2. CASE IsRefresh(cmd)
      BY <3>1, <3>2 DEF HeldAfter, HeldOk
    <3>3. CASE ~IsRefresh(cmd)
      BY <2>8, <2>10, <3>1, <3>3
         DEF HeldAfter, HeldOk, IsRefreshWaiting, PendingRefCommand
    <3>4. QED
      BY <3>2, <3>3
  <2>15. QED
    BY <1>1, <2>12, <2>13, <2>14 DEF Safe, issued
<1>4. QED
  BY <1>2, <1>3

(* A controller with other command queues, held back alike.                *)
LEMMA TakenSafe ==
    ASSUME NEW c, Safe(c), NEW cq \in CommandQueueType
    PROVE  LET d == [c EXCEPT !.cmd_queue_ = cq]
           IN /\ d \in ControllerType /\ d.cmd_queue_ = cq
              /\ d.channel_state_ = c.channel_state_
              /\ WindowsOk(d.channel_state_) /\ DrainOk(d)
<1> DEFINE d == [c EXCEPT !.cmd_queue_ = cq]
<1>1. c \in ControllerType /\ WindowsOk(c.channel_state_) /\ DrainOk(c)
  BY DEF Safe
<1>2. d \in ControllerType
  BY <1>1, WithCommandQueue
<1>3. /\ d.cmd_queue_ = cq /\ d.channel_state_ = c.channel_state_
      /\ d.write_draining_ = c.write_draining_ /\ d.write_buffer_ = c.write_buffer_
      /\ d.read_queue_ = c.read_queue_
  BY <1>1 DEF ControllerType
<1> HIDE DEF d
<1>4. DrainOk(d)
  BY <1>1, <1>3 DEF DrainOk
<1>5. QED
  BY <1>1, <1>2, <1>3, <1>4 DEF d

(* The second command of a cycle comes from the queues.                    *)
LEMMA IssueSecondSafe ==
    ASSUME NEW c, Safe(c), NEW first
    PROVE  Safe(IssueSecond(c, first, GetCommandToIssue(c.channel_state_, c.cmd_queue_)))
<1> DEFINE cs == c.channel_state_
           second == GetCommandToIssue(cs, c.cmd_queue_)
           taken == [c EXCEPT !.cmd_queue_ = second.cq]
<1>1. c \in ControllerType /\ cs \in ChannelStateType /\ c.cmd_queue_ \in CommandQueueType
  BY ControllerFields DEF Safe
<1>2. second.cmd \in Answers /\ second.cq \in CommandQueueType
  BY <1>1, GetCommandTyped
<1>3. /\ Admitted(cs, second.cmd) /\ ~IsRefresh(second.cmd)
      /\ second.cq.is_in_ref_ = c.cmd_queue_.is_in_ref_
      /\ second.cq.ref_q_indices_ = c.cmd_queue_.ref_q_indices_
  BY <1>1, GetCommandHeld
<1> HIDE DEF second
<1>4. /\ taken \in ControllerType /\ taken.cmd_queue_ = second.cq
      /\ taken.channel_state_ = cs
      /\ WindowsOk(taken.channel_state_) /\ DrainOk(taken)
  BY <1>2, TakenSafe
<1>5. HeldOk(cs, second.cq)
  BY <1>3 DEF Safe, HeldOk
<1> HIDE DEF taken
<1>6. Safe(taken)
  BY <1>4, <1>5 DEF Safe
<1>7. ASSUME IsValid(second.cmd) PROVE Safe(IssueCommand(taken, second.cmd))
  BY <1>2, <1>3, <1>4, <1>5, <1>7, IssueCommandSafe DEF HeldAfter
<1>8. IsExit(second.cmd) => IsValid(second.cmd)
  BY DEF IsExit, IsValid
<1>9. \/ IssueSecond(c, first, second) = taken
      \/ /\ IsValid(second.cmd)
         /\ IssueSecond(c, first, second) = IssueCommand(taken, second.cmd)
  BY <1>8 DEF IssueSecond, taken, second
<1>10. QED
  BY <1>6, <1>7, <1>9 DEF second

(* The issue phase keeps a controller safe.                                *)
LEMMA IssuePhaseSafe ==
    ASSUME NEW c, Safe(c) PROVE Safe(IssuePhase(c))
<1> DEFINE cs == c.channel_state_
           first == FirstCommand(c)
           taken == [c EXCEPT !.cmd_queue_ = first.cq]
           issued == IssueCommand(taken, first.cmd)
<1>1. c \in ControllerType
  BY DEF Safe
<1>2. first.cmd \in Answers /\ first.cq \in CommandQueueType
  BY <1>1, FirstCommandTyped
<1>3. Admitted(cs, first.cmd) /\ HeldAfter(cs, first.cmd, first.cq)
  BY <1>1, FirstCommandHeld DEF Safe
<1> HIDE DEF first
<1>4. /\ taken \in ControllerType /\ taken.cmd_queue_ = first.cq
      /\ taken.channel_state_ = cs
      /\ WindowsOk(taken.channel_state_) /\ DrainOk(taken)
  BY <1>2, TakenSafe
<1>5. HeldOk(cs, first.cq)
  BY <1>2, <1>3, HeldAfterHeld
<1> HIDE DEF taken
<1>6. Safe(taken)
  BY <1>4, <1>5 DEF Safe
<1>7. ASSUME IsValid(first.cmd) PROVE Safe(issued)
  BY <1>2, <1>3, <1>4, <1>7, IssueCommandSafe
<1> HIDE DEF issued
<1>8. IssuePhase(c) = IF ~IsValid(first.cmd) THEN taken
                      ELSE IF issued.exited \/ ~config.enable_hbm_dual_cmd THEN issued
                      ELSE IssueSecond(issued, first,
                             GetCommandToIssue(issued.channel_state_, issued.cmd_queue_))
  BY DEF IssuePhase, IssueFirst, AndSecond, first, taken, issued
<1>9. QED
  BY <1>6, <1>7, <1>8, IssueSecondSafe

(* A step that keeps refresh_q_ and the queues and lets no window grow.    *)
LEMMA FrameSafe ==
    ASSUME NEW c, Safe(c), NEW d \in ControllerType, SameQueues(d, c),
           d.channel_state_.refresh_q_ = c.channel_state_.refresh_q_,
           WindowsOk(d.channel_state_)
    PROVE  Safe(d)
<1>1. DrainOk(d)
  BY SameQueuesDrain DEF Safe
<1>2. HeldOk(d.channel_state_, d.cmd_queue_)
  BY DEF Safe, SameQueues, HeldOk, IsRefreshWaiting, PendingRefCommand
<1>3. QED
  BY <1>1, <1>2 DEF Safe

(* Counting idle cycles keeps a controller safe.                           *)
LEMMA CountIdleSafe ==
    ASSUME NEW c, Safe(c) PROVE Safe(CountIdle(c))
<1>1. c \in ControllerType /\ c.channel_state_ \in ChannelStateType
  BY ControllerFields DEF Safe
<1> DEFINE d == CountIdle(c)
           idle == d.channel_state_.rank_idle_cycles
<1>2. d \in ControllerType
  BY <1>1, CountIdleTyped
<1>3. d = [c EXCEPT !.channel_state_ = [c.channel_state_ EXCEPT !.rank_idle_cycles = idle]]
  BY <1>1 DEF CountIdle, ControllerType, ChannelStateType
<1> HIDE DEF d, idle
<1>4. /\ SameQueues(d, c) /\ d.channel_state_.refresh_q_ = c.channel_state_.refresh_q_
      /\ d.channel_state_.four_aw_ = c.channel_state_.four_aw_
      /\ d.channel_state_.thirty_two_aw_ = c.channel_state_.thirty_two_aw_
  BY <1>1, <1>3 DEF ControllerType, ChannelStateType, SameQueues
<1>5. WindowsOk(d.channel_state_)
  BY <1>4 DEF Safe, WindowsOk
<1>6. QED
  BY <1>2, <1>4, <1>5, FrameSafe DEF d

(* The self-refresh loop finds no refresh, no ACTIVATE and no access.      *)
LEMMA SelfRefreshKind ==
    ASSUME NEW c \in ControllerType, NEW r \in Ranks
    PROVE  LET cmd == SelfRefreshCommand(c, r)
           IN /\ cmd \in Answers /\ Admitted(c.channel_state_, cmd) /\ ~IsRefresh(cmd)
              /\ cmd.cmd_type \notin RWTypes \cup {"ACTIVATE"}
<1> DEFINE cs == c.channel_state_
           Rank(type) == Command(type, Address(r, -1, -1, -1, -1), -1, type)
           Fine(cmd) == /\ cmd \in Answers /\ Admitted(cs, cmd) /\ ~IsRefresh(cmd)
                        /\ cmd.cmd_type \notin RWTypes \cup {"ACTIVATE"}
<1>1. cs \in ChannelStateType
  BY ControllerFields
<1>2. Rank("SREF_EXIT") \in SelfRefreshCommands /\ Rank("SREF_ENTER") \in SelfRefreshCommands
  BY DEF SelfRefreshCommands
<1> HIDE DEF Rank
<1>3. ASSUME NEW ask \in SelfRefreshCommands PROVE Fine(ChannelGetReadyCommand(cs, ask))
  <2>1. IsRankCMD(ask)
    BY DEF SelfRefreshCommands, Command, IsRankCMD, RankTypes
  <2>2. QED
    BY <1>1, <2>1, NotRefresh, ChannelAnswerTyped, ChannelAnswerKind
<1>4. Fine(NoCommand)
  BY DEF Answers, NoCommand, Command, Admitted, IsRefresh, RWTypes, ReadTypes, WriteTypes
<1>5. \/ SelfRefreshCommand(c, r) = ChannelGetReadyCommand(cs, Rank("SREF_EXIT"))
      \/ SelfRefreshCommand(c, r) = ChannelGetReadyCommand(cs, Rank("SREF_ENTER"))
      \/ SelfRefreshCommand(c, r) = NoCommand
  BY DEF SelfRefreshCommand, Rank
<1> HIDE DEF Fine
<1>6. Fine(SelfRefreshCommand(c, r))
  BY <1>2, <1>3, <1>4, <1>5
<1>7. QED
  BY <1>6 DEF Fine

(* The loop keeps a controller safe.                                       *)
LEMMA SelfRefreshSafe ==
    ASSUME NEW c, Safe(c) PROVE Safe(SelfRefresh(c))
<1> DEFINE cs == c.channel_state_
           found == {r \in Ranks : IsValid(SelfRefreshCommand(c, r))}
           r0 == Min(found)
<1>0. c \in ControllerType /\ cs \in ChannelStateType
  BY ControllerFields DEF Safe
<1>1. ASSUME NEW r \in Ranks
      PROVE  LET cmd == SelfRefreshCommand(c, r)
             IN cmd \in Answers /\ Admitted(cs, cmd) /\ ~IsRefresh(cmd)
  BY <1>0, SelfRefreshKind
<1>2. found \in SUBSET Nat /\ found \subseteq Ranks
  BY CountsAssumption DEF Ranks
<1>3. \A r \in found : IsValid(SelfRefreshCommand(c, r))
  OBVIOUS
<1>4. SelfRefresh(c) = IF ~config.enable_self_refresh \/ c.cmd_trace_ # <<>> \/ found = {}
                       THEN c ELSE IssueCommand(c, SelfRefreshCommand(c, r0))
  BY DEF SelfRefresh
<1> HIDE DEF found
<1>5. found # {} => r0 \in found
  BY <1>2, MinIsLeast
<1> HIDE DEF r0
<1>6. ASSUME found # {} PROVE Safe(IssueCommand(c, SelfRefreshCommand(c, r0)))
  <2> DEFINE cmd == SelfRefreshCommand(c, r0)
  <2>1. cmd \in Answers /\ Admitted(cs, cmd) /\ ~IsRefresh(cmd) /\ IsValid(cmd)
    BY <1>1, <1>2, <1>3, <1>5, <1>6
  <2> HIDE DEF cmd
  <2>2. HeldAfter(cs, cmd, c.cmd_queue_)
    BY <2>1 DEF HeldAfter, Safe
  <2>3. Safe(IssueCommand(c, cmd))
    BY <1>0, <2>1, <2>2, IssueCommandSafe DEF Safe
  <2>4. QED
    BY <2>3 DEF cmd
<1>7. QED
  BY <1>4, <1>6

(* Calculate_stats keeps a controller safe.                                *)
LEMMA CalculateStatsSafe ==
    ASSUME NEW c, Safe(c) PROVE Safe(Calculate_stats(c))
<1>1. c \in ControllerType /\ c.channel_state_ \in ChannelStateType
  BY ControllerFields DEF Safe
<1> DEFINE d == Calculate_stats(c)
           done == d.channel_state_.bank_states_
<1>2. d \in ControllerType
  BY <1>1, CalculateStatsTyped
<1>3. d = [c EXCEPT !.channel_state_ = [c.channel_state_ EXCEPT !.bank_states_ = done]]
  BY <1>1 DEF Calculate_stats, ControllerType, ChannelStateType
<1> HIDE DEF d, done
<1>4. /\ SameQueues(d, c) /\ d.channel_state_.refresh_q_ = c.channel_state_.refresh_q_
      /\ d.channel_state_.four_aw_ = c.channel_state_.four_aw_
      /\ d.channel_state_.thirty_two_aw_ = c.channel_state_.thirty_two_aw_
  BY <1>1, <1>3 DEF ControllerType, ChannelStateType, SameQueues
<1>5. WindowsOk(d.channel_state_)
  BY <1>4 DEF Safe, WindowsOk
<1>6. QED
  BY <1>2, <1>4, <1>5, FrameSafe DEF d

(* A window keeps its entries while they age.                              *)
LEMMA ElapseSafe ==
    ASSUME NEW c, Safe(c) PROVE Safe(Elapse(c))
<1> DEFINE cs == c.channel_state_
           d == Elapse(c)
           Ages(window) == [i \in DOMAIN window |-> OneLess(window[i])]
<1>1. c \in ControllerType /\ cs \in ChannelStateType
  BY ControllerFields DEF Safe
<1>2. d \in ControllerType
  BY <1>1, ElapseTyped
<1>3. d.channel_state_ = ChannelElapse(cs) /\ SameQueues(d, c)
  BY <1>1 DEF Elapse, ControllerType, SameQueues
<1> HIDE DEF d
<1>4. /\ ChannelElapse(cs).refresh_q_ = cs.refresh_q_
      /\ ChannelElapse(cs).four_aw_ = [r \in Ranks |-> Ages(cs.four_aw_[r])]
      /\ ChannelElapse(cs).thirty_two_aw_ = [r \in Ranks |-> Ages(cs.thirty_two_aw_[r])]
  BY <1>1 DEF ChannelElapse, ChannelStateType
<1>5. ASSUME NEW window \in Seq(Nat) PROVE Len(Ages(window)) = Len(window)
  <2>1. Ages(window) \in Seq(Int) /\ DOMAIN Ages(window) = 1 .. Len(window)
    BY DEF OneLess
  <2>2. QED
    BY <2>1
<1>6. cs.four_aw_ \in [Ranks -> Seq(Nat)] /\ cs.thirty_two_aw_ \in [Ranks -> Seq(Nat)]
  BY <1>1 DEF ChannelStateType
<1> HIDE DEF Ages
<1>7. WindowsOk(d.channel_state_)
  BY <1>3, <1>4, <1>5, <1>6 DEF Safe, WindowsOk
<1>8. QED
  BY <1>2, <1>3, <1>4, <1>7, FrameSafe DEF d

(* A refresh that is requested goes to the back of refresh_q_.             *)
LEMMA RefreshTickKeepsHead ==
    ASSUME NEW cs \in ChannelStateType, NEW rf \in RefreshType
    PROVE  LET new == RefreshClockTick(cs, rf).cs
           IN /\ new.four_aw_ = cs.four_aw_ /\ new.thirty_two_aw_ = cs.thirty_two_aw_
              /\ new.bank_states_ = cs.bank_states_
              /\ IsRefreshWaiting(cs) =>
                   IsRefreshWaiting(new) /\ PendingRefCommand(new) = PendingRefCommand(cs)
<1> DEFINE new == RefreshClockTick(cs, rf).cs
<1>0. cs.refresh_q_ \in Seq(RefreshCommands)
  BY DEF ChannelStateType
<1>1. new = cs \/ \E ref \in RefreshCommands : new = NeedRefresh(cs, ref)
  <2> DEFINE awake == {r \in Ranks : ~IsRankSelfRefreshing(cs, r)}
  <2>1. \A r \in Ranks : RankRefresh(r) \in RefreshCommands
    BY DEF RefreshCommands
  <2>2. <<rf.next_rank_, rf.next_bg_, rf.next_bank_>> \in Banks
    BY DEF RefreshType, Banks
  <2>3. BankRefresh(rf.next_rank_, rf.next_bg_, rf.next_bank_) \in RefreshCommands
    BY <2>2 DEF RefreshCommands
  <2>4. awake \in SUBSET Nat /\ awake \subseteq Ranks
    BY CountsAssumption DEF Ranks
  <2> HIDE DEF awake
  <2>5. awake # {} => Min(awake) \in Ranks
    BY <2>4, MinIsLeast
  <2> USE DEF awake
  <2>6. InsertRefresh(cs, rf) = cs
          \/ \E ref \in RefreshCommands : InsertRefresh(cs, rf) = NeedRefresh(cs, ref)
    BY <2>1, <2>3, <2>5, RefreshAssumption DEF InsertRefresh, Policy, RefreshType
  <2>7. new = cs \/ new = InsertRefresh(cs, rf)
    BY DEF RefreshClockTick
  <2>8. QED
    BY <2>6, <2>7
<1> HIDE DEF new
<1>2. ASSUME NEW ref \in RefreshCommands, new = NeedRefresh(cs, ref)
      PROVE  /\ new.four_aw_ = cs.four_aw_ /\ new.thirty_two_aw_ = cs.thirty_two_aw_
             /\ new.bank_states_ = cs.bank_states_
             /\ new.refresh_q_ = Append(cs.refresh_q_, ref)
  BY <1>2 DEF NeedRefresh, ChannelStateType
<1>3. ASSUME NEW ref \in RefreshCommands, cs.refresh_q_ # <<>>
      PROVE  /\ Append(cs.refresh_q_, ref) # <<>>
             /\ Head(Append(cs.refresh_q_, ref)) = Head(cs.refresh_q_)
  BY <1>0, <1>3
<1>4. QED
  BY <1>1, <1>2, <1>3 DEF IsRefreshWaiting, PendingRefCommand, new

(* A request arrives at the back of a queue of its own direction.          *)
LEMMA EnqueueDrain ==
    ASSUME NEW c \in ControllerType, DrainOk(c), NEW t \in Transactions
    PROVE  /\ DrainOk(Enqueue(c, t))
           /\ Enqueue(c, t).channel_state_ = c.channel_state_
           /\ Enqueue(c, t).cmd_queue_ = c.cmd_queue_
<1> DEFINE d == Enqueue(c, t)
           which == QueueFor(t.is_write)
<1>1. t.is_write \in BOOLEAN
  BY DEF Transactions
<1>2. c.write_buffer_ \in Seq(Transactions) /\ c.read_queue_ \in Seq(Transactions)
  BY ControllerFields
<1>3. d = [c EXCEPT ![which] = Append(c[which], t)]
  BY DEF Enqueue
<1>4. \/ which = "unified_queue_"
      \/ which = "write_buffer_" /\ t.is_write
      \/ which = "read_queue_" /\ ~t.is_write
  BY <1>1 DEF QueueFor
<1> HIDE DEF d, which
<1>5. d.channel_state_ = c.channel_state_ /\ d.cmd_queue_ = c.cmd_queue_
      /\ d.write_draining_ = c.write_draining_
  BY <1>3, <1>4 DEF ControllerType
<1>6. CASE which = "unified_queue_"
  <2>1. d.write_buffer_ = c.write_buffer_ /\ d.read_queue_ = c.read_queue_
    BY <1>3, <1>6 DEF ControllerType
  <2>2. QED
    BY <1>5, <2>1 DEF DrainOk, d
<1>7. CASE which = "write_buffer_" /\ t.is_write
  <2>1. d.write_buffer_ = Append(c.write_buffer_, t) /\ d.read_queue_ = c.read_queue_
    BY <1>3, <1>7 DEF ControllerType
  <2>2. Len(d.write_buffer_) = Len(c.write_buffer_) + 1 /\ Len(c.write_buffer_) \in Nat
    BY <1>2, <2>1
  <2>3. \A i \in DOMAIN d.write_buffer_ : d.write_buffer_[i].is_write
    BY <1>2, <1>7, <2>1, AppendSource DEF DrainOk
  <2>4. QED
    BY <1>5, <2>1, <2>2, <2>3 DEF DrainOk, d
<1>8. CASE which = "read_queue_" /\ ~t.is_write
  <2>1. d.read_queue_ = Append(c.read_queue_, t) /\ d.write_buffer_ = c.write_buffer_
    BY <1>3, <1>8 DEF ControllerType
  <2>2. \A i \in DOMAIN d.read_queue_ : ~d.read_queue_[i].is_write
    BY <1>2, <1>8, <2>1, AppendSource DEF DrainOk
  <2>3. QED
    BY <1>5, <2>1, <2>2 DEF DrainOk, d
<1>9. QED
  BY <1>4, <1>6, <1>7, <1>8

(* AddTransaction keeps a controller safe.                                 *)
LEMMA AddTransactionSafe ==
    ASSUME NEW c, Safe(c), NEW t \in Transactions
    PROVE  Safe(ControllerAddTransaction(c, t))
<1> DEFINE a == t.addr
           new == ControllerAddTransaction(c, t)
           Same(d) == /\ DrainOk(d) /\ d.channel_state_ = c.channel_state_
                      /\ d.cmd_queue_ = c.cmd_queue_
<1>1. c \in ControllerType /\ a \in Addr /\ Same(c)
  BY DEF Safe, Transactions
<1>2. new \in ControllerType
  BY <1>1, AddTransactionTyped
<1>3. ASSUME NEW d \in ControllerType, Same(d), NEW w, NEW n, NEW k
      PROVE  Same(Complete(d, a, w, n, k))
  <2> DEFINE e == Complete(d, a, w, n, k)
  <2>1. e = [d EXCEPT !.return_queue_ = e.return_queue_]
    BY DEF Complete, ControllerType
  <2> HIDE DEF e
  <2>2. SameQueues(e, d) /\ e.channel_state_ = d.channel_state_
    BY <2>1 DEF ControllerType, SameQueues
  <2>3. QED
    BY <1>3, <2>2, SameQueuesDrain DEF SameQueues, e
<1>4. ASSUME NEW d \in ControllerType, Same(d), NEW w \in BOOLEAN
      PROVE  Same(Enqueue(d, Transaction(a, w)))
  BY <1>1, <1>4, EnqueueDrain DEF Transaction, Transactions
<1> DEFINE rd == [c EXCEPT !.pending_rd_q_[a] = c.pending_rd_q_[a] + 1]
           wr == [c EXCEPT !.pending_wr_q_[a] = c.pending_wr_q_[a] + 1]
<1>5. c.pending_rd_q_[a] + 1 \in Nat /\ c.pending_wr_q_[a] + 1 \in Nat
  BY <1>1, ControllerFields
<1>6. rd \in ControllerType /\ wr \in ControllerType
  BY <1>1, <1>5, PendingTyped
<1>7. SameQueues(rd, c) /\ SameQueues(wr, c)
      /\ rd.channel_state_ = c.channel_state_ /\ wr.channel_state_ = c.channel_state_
  BY <1>1 DEF ControllerType, SameQueues
<1>8. Same(rd) /\ Same(wr)
  BY <1>1, <1>7, SameQueuesDrain DEF SameQueues
<1>9. \A w \in BOOLEAN : Transaction(a, w) \in Transactions
  BY <1>1 DEF Transaction, Transactions
<1>10. /\ Enqueue(rd, Transaction(a, FALSE)) \in ControllerType
       /\ Enqueue(wr, Transaction(a, TRUE)) \in ControllerType
  BY <1>6, <1>9, EnqueueTyped
<1>11. Same(Enqueue(rd, Transaction(a, FALSE))) /\ Same(Enqueue(wr, Transaction(a, TRUE)))
  BY <1>4, <1>6, <1>8
<1>12. Same(AddWrite(c, a))
  <2>1. AddWrite(c, a) = Complete(c, a, TRUE, 1, 1)
          \/ AddWrite(c, a) = Complete(Enqueue(wr, Transaction(a, TRUE)), a, TRUE, 1, 1)
    BY DEF AddWrite
  <2> HIDE DEF Same
  <2>2. QED
    BY <1>1, <1>3, <1>10, <1>11, <2>1
<1>13. Same(AddRead(c, a))
  <2>1. \/ AddRead(c, a) = Complete(c, a, FALSE, 1, 1)
        \/ AddRead(c, a) = Enqueue(rd, Transaction(a, FALSE))
        \/ AddRead(c, a) = rd
    BY DEF AddRead
  <2> HIDE DEF Same, rd, wr
  <2>2. Same(Complete(c, a, FALSE, 1, 1))
    BY <1>1, <1>3
  <2>3. QED
    BY <1>8, <1>11, <2>1, <2>2
<1>14. Same(new)
  BY <1>12, <1>13 DEF ControllerAddTransaction
<1> HIDE DEF new
<1>15. QED
  BY <1>2, <1>14 DEF Safe, new

(* What is returned leaves return_queue_ only.                             *)
LEMMA ReturnDoneSafe ==
    ASSUME NEW c, Safe(c) PROVE Safe(ReturnDoneTrans(c))
<1> DEFINE d == ReturnDoneTrans(c)
<1>1. c \in ControllerType
  BY DEF Safe
<1>2. d \in ControllerType
  BY <1>1, ReturnDoneTyped
<1>3. SameQueues(d, c) /\ d.channel_state_ = c.channel_state_
  BY <1>1 DEF ReturnDoneTrans, ControllerType, SameQueues
<1> HIDE DEF d
<1>4. QED
  BY <1>2, <1>3, FrameSafe DEF Safe, d

(* ScheduleTransaction keeps a controller safe: the counter goes down by   *)
(* one exactly when a write leaves the buffer.                             *)
LEMMA ScheduleSafe ==
    ASSUME NEW c, Safe(c) PROVE Safe(ScheduleTransaction(c))
<1> DEFINE goal == DrainGoal(c)
           which == ScheduledQueue(goal)
           accepted == {i \in DOMAIN c[which] :
             WillAcceptCommand(c.cmd_queue_, AddressMapping[c[which][i].addr])}
           i0 == Min(accepted)
           drains == ~config.unified_queue /\ c[which][i0].is_write
           new == ScheduleTransaction(c)
<1>1. /\ c \in ControllerType /\ WindowsOk(c.channel_state_)
      /\ HeldOk(c.channel_state_, c.cmd_queue_) /\ DrainOk(c)
  BY DEF Safe
<1>2. /\ c.write_buffer_ \in Seq(Transactions) /\ c.read_queue_ \in Seq(Transactions)
      /\ c.cmd_queue_ \in CommandQueueType /\ Len(c.write_buffer_) \in Nat
  BY <1>1, ControllerFields
<1>3. goal \in 0 .. Len(c.write_buffer_)
  BY <1>1, <1>2 DEF DrainGoal, DrainOk
<1>4. \/ which = "unified_queue_" /\ config.unified_queue
      \/ which = "write_buffer_" /\ goal > 0
      \/ which = "read_queue_" /\ goal = 0
  BY <1>3, SwitchesAssumption DEF ScheduledQueue, QueueFor
<1>5. new \in ControllerType
  BY <1>1, ScheduleTyped
<1>6. new = IF accepted = {} THEN [c EXCEPT !.write_draining_ = goal]
            ELSE IF HasOlderReads(c, c[which][i0]) THEN [c EXCEPT !.write_draining_ = 0]
            ELSE [ToCommandQueue(c, which, i0) EXCEPT
                    !.write_draining_ = IF drains THEN goal - 1 ELSE goal]
  BY DEF ScheduleTransaction
<1>7. accepted \in SUBSET Nat /\ accepted \subseteq DOMAIN c[which]
  <2>1. c[which] \in Seq(Transactions)
    BY <1>1, <1>4, ControllerFields
  <2>2. QED
    BY <2>1
<1> HIDE DEF goal, which, accepted, new
<1>8. ASSUME NEW n \in 0 .. Len(c.write_buffer_), new = [c EXCEPT !.write_draining_ = n]
      PROVE  Safe(new)
  <2>1. /\ new.channel_state_ = c.channel_state_ /\ new.cmd_queue_ = c.cmd_queue_
        /\ new.write_buffer_ = c.write_buffer_ /\ new.read_queue_ = c.read_queue_
        /\ new.write_draining_ = n
    BY <1>1, <1>8 DEF ControllerType
  <2>2. DrainOk(new)
    BY <1>1, <2>1 DEF DrainOk
  <2>3. QED
    BY <1>1, <1>5, <2>1, <2>2 DEF Safe
<1>9. CASE accepted = {} \/ HasOlderReads(c, c[which][i0])
  <2>1. 0 \in 0 .. Len(c.write_buffer_)
    BY <1>2
  <2>2. QED
    BY <1>3, <1>6, <1>8, <1>9, <2>1 DEF new
<1>10. CASE accepted # {} /\ ~HasOlderReads(c, c[which][i0])
  <2>1. i0 \in DOMAIN c[which]
    <3>1. i0 \in accepted
      BY <1>7, <1>10, MinIsLeast
    <3>2. QED
      BY <1>7, <3>1
  <2> DEFINE cq == AddCommand(c.cmd_queue_, TransToCommand(c[which][i0]))
             d == [c EXCEPT !.cmd_queue_ = cq]
             n == IF drains THEN goal - 1 ELSE goal
  <2> HIDE DEF i0
  <2>2. cq.is_in_ref_ = c.cmd_queue_.is_in_ref_ /\ cq.ref_q_indices_ = c.cmd_queue_.ref_q_indices_
    BY <1>2 DEF AddCommand, CommandQueueType
  <2> HIDE DEF cq
  <2>3. new = [[d EXCEPT ![which] = RemoveAt(d[which], i0)] EXCEPT !.write_draining_ = n]
    BY <1>6, <1>10 DEF ToCommandQueue, cq
  <2>4. d[which] = c[which]
    BY <1>1, <1>4 DEF ControllerType
  <2> HIDE DEF n
  <2>5. /\ new.channel_state_ = c.channel_state_ /\ new.cmd_queue_ = cq
        /\ new.write_draining_ = n
        /\ which # "write_buffer_" => new.write_buffer_ = c.write_buffer_
        /\ which # "read_queue_" => new.read_queue_ = c.read_queue_
        /\ which = "write_buffer_" => new.write_buffer_ = RemoveAt(c.write_buffer_, i0)
        /\ which = "read_queue_" => new.read_queue_ = RemoveAt(c.read_queue_, i0)
    BY <1>1, <1>4, <2>3, <2>4 DEF ControllerType
  <2>6. HeldOk(new.channel_state_, new.cmd_queue_)
    BY <1>1, <2>2, <2>5 DEF HeldOk
  <2>7. DrainOk(new)
    <3>1. CASE which = "unified_queue_" /\ config.unified_queue
      <4>1. n = goal
        BY <3>1 DEF n
      <4>2. QED
        BY <1>1, <1>3, <2>5, <3>1, <4>1 DEF DrainOk
    <3>2. CASE which = "write_buffer_" /\ goal > 0 /\ ~config.unified_queue
      <4>1. i0 \in DOMAIN c.write_buffer_ /\ c.write_buffer_[i0].is_write
        BY <1>1, <2>1, <3>2 DEF DrainOk
      <4>2. n = goal - 1
        BY <3>2, <4>1 DEF n
      <4>3. Len(RemoveAt(c.write_buffer_, i0)) = Len(c.write_buffer_) - 1
        BY <1>2, <4>1, RemoveAtProperties
      <4>4. \A j \in DOMAIN RemoveAt(c.write_buffer_, i0) :
               RemoveAt(c.write_buffer_, i0)[j].is_write
        BY <1>1, <1>2, <4>1, RemoveAtSource DEF DrainOk
      <4>5. n \in 0 .. Len(c.write_buffer_) - 1
        BY <1>2, <1>3, <3>2, <4>2
      <4>6. QED
        BY <1>1, <2>5, <3>2, <4>3, <4>4, <4>5 DEF DrainOk
    <3>3. CASE which = "read_queue_" /\ goal = 0
      <4>1. i0 \in DOMAIN c.read_queue_ /\ ~c.read_queue_[i0].is_write
        BY <1>1, <2>1, <3>3 DEF DrainOk
      <4>2. n = 0
        BY <3>3, <4>1 DEF n
      <4>3. \A j \in DOMAIN RemoveAt(c.read_queue_, i0) :
               ~RemoveAt(c.read_queue_, i0)[j].is_write
        BY <1>1, <1>2, <4>1, RemoveAtSource DEF DrainOk
      <4>4. QED
        BY <1>1, <1>2, <2>5, <3>3, <4>2, <4>3 DEF DrainOk
    <3>4. config.unified_queue => which = "unified_queue_"
      BY DEF which, ScheduledQueue, QueueFor
    <3>5. QED
      BY <1>4, <3>1, <3>2, <3>3, <3>4
  <2>8. QED
    BY <1>1, <1>5, <2>5, <2>6, <2>7 DEF Safe, new
<1>11. QED
  BY <1>9, <1>10

(* Refresh::ClockTick keeps a controller safe, and its queues and banks as *)
(* they are.                                                               *)
LEMMA RefreshPhaseSafe ==
    ASSUME NEW c, Safe(c)
    PROVE  LET d == RefreshPhase(c)
           IN /\ Safe(d) /\ SameQueues(d, c)
              /\ d.channel_state_.bank_states_ = c.channel_state_.bank_states_
<1> DEFINE cs == c.channel_state_
           tick == RefreshClockTick(cs, c.refresh_)
           begun == [c EXCEPT !.channel_state_ = tick.cs, !.refresh_ = tick.rf,
                              !.cmd_trace_ = <<>>]
<1>1. /\ c \in ControllerType /\ cs \in ChannelStateType /\ c.refresh_ \in RefreshType
      /\ c.cmd_queue_ \in CommandQueueType
  BY ControllerFields DEF Safe
<1>2. tick.cs \in ChannelStateType /\ tick.rf \in RefreshType
  BY <1>1, RefreshTickTyped
<1>3. /\ tick.cs.four_aw_ = cs.four_aw_ /\ tick.cs.thirty_two_aw_ = cs.thirty_two_aw_
      /\ tick.cs.bank_states_ = cs.bank_states_
      /\ IsRefreshWaiting(cs) =>
           IsRefreshWaiting(tick.cs) /\ PendingRefCommand(tick.cs) = PendingRefCommand(cs)
  BY <1>1, RefreshTickKeepsHead
<1> HIDE DEF tick
<1>4. begun \in ControllerType
  <2>1. << >> \in Seq(IssueType)
    OBVIOUS
  <2>2. QED
    BY <1>1, <1>2, <2>1 DEF ControllerType
<1>5. SameQueues(begun, c) /\ begun.channel_state_ = tick.cs
  BY <1>1 DEF ControllerType, SameQueues
<1> HIDE DEF begun
<1>6. Safe(begun)
  <2>1. DrainOk(begun)
    BY <1>5, SameQueuesDrain DEF Safe
  <2>2. WindowsOk(begun.channel_state_)
    BY <1>3, <1>5 DEF Safe, WindowsOk
  <2>3. HeldOk(begun.channel_state_, begun.cmd_queue_)
    BY <1>3, <1>5 DEF Safe, HeldOk, SameQueues
  <2>4. QED
    BY <1>4, <2>1, <2>2, <2>3 DEF Safe
<1>7. RefreshPhase(c) = begun
  BY DEF RefreshPhase, begun, tick
<1>8. QED
  BY <1>3, <1>5, <1>6, <1>7

(* Controller::ClockTick keeps a controller safe.                          *)
LEMMA ControllerTickSafe ==
    ASSUME NEW c, Safe(c) PROVE Safe(ControllerClockTick(c))
<1> DEFINE issued == IssuePhase(RefreshPhase(c))
           slept == SelfRefresh(CountIdle(issued))
<1>1. Safe(issued)
  BY RefreshPhaseSafe, IssuePhaseSafe
<1> HIDE DEF issued
<1>2. Safe(slept)
  BY <1>1, CountIdleSafe, SelfRefreshSafe
<1> HIDE DEF slept
<1>3. Safe(Elapse(ScheduleTransaction(Calculate_stats(slept))))
  BY <1>2, CalculateStatsSafe, ScheduleSafe, ElapseSafe
<1>4. ControllerClockTick(c) = IF issued.exited THEN issued
                                ELSE IF slept.exited THEN slept
                                ELSE Elapse(ScheduleTransaction(Calculate_stats(slept)))
  BY DEF ControllerClockTick, PowerPhase, SchedulePhase, slept, issued
<1>5. QED
  BY <1>1, <1>2, <1>3, <1>4

(* A new controller is safe.                                               *)
LEMMA NewControllerSafe == Safe(NewController)
<1>1. NewController \in ControllerType
  BY NewControllerTyped
<1>2. WindowsOk(NewController.channel_state_)
  BY LimitsAssumption DEF NewController, NewChannelState, WindowsOk
<1>3. HeldOk(NewController.channel_state_, NewController.cmd_queue_)
  BY DEF NewController, NewCommandQueue, HeldOk
<1>4. DrainOk(NewController)
  BY DEF NewController, DrainOk
<1>5. QED
  BY <1>1, <1>2, <1>3, <1>4 DEF Safe

-----------------------------------------------------------------------------
(* The inductive invariant: every controller is safe.                      *)
AllSafe == \A ch \in Channels : Safe(ctrls_[ch])

(* Every step of the system keeps every controller safe, whatever requests *)
(* arrive between the calls of ClockTick.                                  *)
THEOREM ControllersStaySafe == Spec => []AllSafe
<1>1. Init => AllSafe
  BY NewControllerSafe DEF Init, AllSafe
<1>2. TypeOK /\ AllSafe /\ [Next]_vars => AllSafe'
  <2> SUFFICES ASSUME TypeOK, AllSafe, [Next]_vars, NEW ch \in Channels
               PROVE  Safe(ctrls_'[ch])
    BY DEF AllSafe
  <2>0. Safe(ctrls_[ch]) /\ ctrls_ \in [Channels -> ControllerType]
    BY DEF AllSafe, TypeOK
  <2>1. ASSUME NEW t \in Requests, AddTransaction(t) PROVE Safe(ctrls_'[ch])
    <3>1. t \in Transactions
      BY RequestsAssumption
    <3>2. ctrls_'[ch] = IF ch = GetChannel(t.addr)
                        THEN ControllerAddTransaction(ctrls_[ch], t) ELSE ctrls_[ch]
      BY <2>0, <2>1 DEF AddTransaction
    <3>3. QED
      BY <2>0, <3>1, <3>2, AddTransactionSafe
  <2>2. CASE ClockTick
    <3>1. ctrls_'[ch] = ControllerClockTick(ReturnDoneTrans(ctrls_[ch]))
      BY <2>2 DEF ClockTick
    <3>2. QED
      BY <2>0, <3>1, ReturnDoneSafe, ControllerTickSafe
  <2>3. CASE UNCHANGED vars
    BY <2>0, <2>3 DEF vars
  <2>4. QED
    BY <2>1, <2>2, <2>3 DEF Next
<1>3. QED
  BY <1>1, <1>2, TypeCorrect, PTL DEF Spec

(* The drain counter of ScheduleTransaction stays between zero and the     *)
(* length of the write buffer, for every queue size and every arrival of   *)
(* requests during a drain.                                                *)
THEOREM DrainStaysWithinBuffer == Spec => []DrainWithinBuffer
<1>1. AllSafe => DrainWithinBuffer
  BY DEF AllSafe, Safe, DrainOk, DrainWithinBuffer
<1>2. QED
  BY <1>1, ControllersStaySafe, PTL

(* The queues that FinishRefresh holds back are always those of the        *)
(* refresh at the head of refresh_q_, under every refresh policy and queue *)
(* structure: requests that arrive behind it, precharges on its way and a  *)
(* second command in the cycle never leave ref_q_indices_ stale.           *)
THEOREM HeldBackIsNeverStale == Spec => []HeldBackForHead
<1>1. AllSafe => HeldBackForHead
  BY DEF AllSafe, Safe, HeldOk, HeldBackForHead
<1>2. QED
  BY <1>1, ControllersStaySafe, PTL

(* Safe controllers have no more running activations than their windows    *)
(* have entries.                                                           *)
LEMMA SafeInWindow == AllSafe => ActivationsInWindow
<1>1. ASSUME NEW window \in Seq(Nat), NEW n \in Nat, Len(window) <= n
      PROVE  Cardinality({i \in DOMAIN window : window[i] > 0}) <= n
  <2> DEFINE live == {i \in DOMAIN window : window[i] > 0}
  <2>1. Len(window) \in Nat /\ live \in SUBSET (1 .. Len(window))
    OBVIOUS
  <2> HIDE DEF live
  <2>2. IsFiniteSet(1 .. Len(window)) /\ Cardinality(1 .. Len(window)) = Len(window)
    <3> DEFINE l == Len(window)
    <3>1. 1 \in Int /\ l \in Int /\ l \in Nat
      BY <2>1
    <3> HIDE DEF l
    <3>2. /\ IsFiniteSet(1 .. l)
          /\ Cardinality(1 .. l) = IF 1 > l THEN 0 ELSE l - 1 + 1
      BY <3>1, FS_Interval, Zenon
    <3>3. (IF 1 > l THEN 0 ELSE l - 1 + 1) = l
      BY <3>1
    <3>4. QED
      BY <3>2, <3>3 DEF l
  <2>3. Cardinality(live) <= Cardinality(1 .. Len(window)) /\ IsFiniteSet(live)
    BY <2>1, <2>2, FS_Subset
  <2>4. Cardinality(live) \in Nat
    BY <2>3, FS_CardinalityType
  <2>5. QED
    BY <1>1, <2>1, <2>2, <2>3, <2>4 DEF live
<1>2. QED
  <2> SUFFICES ASSUME AllSafe, NEW ch \in Channels, NEW r \in Ranks
               PROVE  LET cs == ctrls_[ch].channel_state_
                          Live(window) == {i \in DOMAIN window : window[i] > 0}
                      IN /\ Cardinality(Live(cs.four_aw_[r])) <= FawDepth
                         /\ Cardinality(Live(cs.thirty_two_aw_[r])) <= Aw32Depth
    BY DEF ActivationsInWindow
  <2> DEFINE cs == ctrls_[ch].channel_state_
  <2>1. cs \in ChannelStateType /\ WindowsOk(cs)
    BY ControllerFields DEF AllSafe, Safe
  <2> HIDE DEF cs
  <2>2. /\ cs.four_aw_[r] \in Seq(Nat) /\ cs.thirty_two_aw_[r] \in Seq(Nat)
        /\ Len(cs.four_aw_[r]) <= FawDepth /\ Len(cs.thirty_two_aw_[r]) <= Aw32Depth
        /\ FawDepth \in Nat /\ Aw32Depth \in Nat
    BY <2>1, LimitsAssumption DEF ChannelStateType, WindowsOk
  <2>3. QED
    BY <1>1, <2>2 DEF cs

(* No more than FawDepth activations of a rank (Aw32Depth for GDDR) are    *)
(* ever younger than their window, for any depths and window lengths and   *)
(* also when two commands are issued per cycle.                            *)
THEOREM WindowsNeverOverrun == Spec => []ActivationsInWindow
BY SafeInWindow, ControllersStaySafe, PTL
=============================================================================
