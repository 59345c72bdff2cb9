----------------------------- MODULE ChannelState -----------------------------
(***************************************************************************)
(* class ChannelState: the banks of a channel, the ranks in self-refresh,  *)
(* the refreshes waiting to be issued and the activation windows.          *)
(***************************************************************************)
EXTENDS BankState, Timing

(***************************************************************************)
(* four_aw_ and thirty_two_aw_ hold, per rank, the cycles left until each  *)
(* recent activation leaves its window.  rank_idle_cycles is only compared *)
(* with sref_threshold and stops counting there.                           *)
(***************************************************************************)
NewChannelState ==
    [rank_idle_cycles |-> [r \in Ranks |-> 0],
     rank_is_sref_    |-> [r \in Ranks |-> FALSE],
     bank_states_     |-> [b \in Banks |-> NewBank],
     refresh_q_       |-> <<>>,
     four_aw_         |-> [r \in Ranks |-> <<>>],
     thirty_two_aw_   |-> [r \in Ranks |-> <<>>]]

IsAllBankIdleInRank(cs, rank) ==
    \A b \in Banks : b[1] = rank => ~IsRowOpen(cs.bank_states_[b])

IsRankSelfRefreshing(cs, rank) == cs.rank_is_sref_[rank]
IsRefreshWaiting(cs)  == cs.refresh_q_ # <<>>
PendingRefCommand(cs) == Head(cs.refresh_q_)

OpenRow(cs, addr)     == cs.bank_states_[BankOf(addr)].open_row_
RowHitCount(cs, addr) == cs.bank_states_[BankOf(addr)].row_hit_count_

-----------------------------------------------------------------------------
(* Refresh requests.                                                       *)

(* A refresh command for a rank, or for one bank of it.                    *)
RankRefresh(rank) ==
    Command("REFRESH", Address(rank, -1, -1, -1, -1), -1, "REFRESH")
BankRefresh(rank, bankgroup, bank) ==
    Command("REFRESH_BANK", Address(rank, bankgroup, bank, -1, -1), -1,
            "REFRESH_BANK")

(* RankNeedRefresh(rank, true) and BankNeedRefresh(.., true)               *)
NeedRefresh(cs, ref) == [cs EXCEPT !.refresh_q_ = Append(@, ref)]

(* Mutant: the request that has been served stays in the queue.            *)
RefreshDone_Keeps(cs, which) == cs

(* RankNeedRefresh(rank, false): drops the first request for the rank.     *)
RankRefreshDone(cs, rank) ==
    [cs EXCEPT !.refresh_q_ = RemoveFirstMatch(@, LAMBDA c : c.addr.rank = rank)]

(* BankNeedRefresh(.., false): drops the first request for the bank.       *)
BankRefreshDone(cs, bank) ==
    [cs EXCEPT !.refresh_q_ = RemoveFirstMatch(@, LAMBDA c : BankOf(c.addr) = bank)]

-----------------------------------------------------------------------------
(* Activation windows.                                                     *)

(* Mutant: the window admits one activation more.                          *)
WindowReady_OneMore(window, depth) ==
    ~ (window # <<>> /\ Head(window) > 0 /\ Len(window) >= depth + 1)

(* IsFAWReady and Is32AWReady                                              *)
WindowReady(window, depth) ==
    ~ (window # <<>> /\ Head(window) > 0 /\ Len(window) >= depth)

ActivationWindowOk(cs, rank) ==
    /\ WindowReady(cs.four_aw_[rank], FawDepth)
    /\ IsGDDR => WindowReady(cs.thirty_two_aw_[rank], Aw32Depth)

(* The window after one more activation, in force for len cycles.          *)
Activated(window, len) ==
    Append(IF window # <<>> /\ Head(window) = 0 THEN Tail(window) ELSE window, len)

UpdateActivationTimes(cs, rank) ==
    [cs EXCEPT !.four_aw_[rank] = Activated(@, config.tFAW),
               !.thirty_two_aw_[rank] =
                   IF IsGDDR THEN Activated(@, config.t32AW) ELSE @]

-----------------------------------------------------------------------------
(* The bank of a rank that a loop over bankgroups and banks visits k-th.   *)
RankBank(rank, k) ==
    <<rank, (k - 1) \div config.banks_per_group, (k - 1) % config.banks_per_group>>

(* Mutant: the banks whose timers are still running are not waited for.    *)
RankGetReadyCommand_AnyBank(cs, cmd) ==
    LET rank == cmd.addr.rank
        ready == [k \in 1 .. banks |->
                    BankGetReadyCommand(cs.bank_states_[RankBank(rank, k)], cmd)]
    IN IF \E k \in 1 .. banks : ready[k].cmd_type = cmd.cmd_type
       THEN Command(cmd.cmd_type, cmd.addr, cmd.hex_addr, cmd.cmd_type)
       ELSE NoCommand

(***************************************************************************)
(* GetReadyCommand for a rank command: the first bank that needs another   *)
(* command first decides; otherwise all banks have to be ready.            *)
(***************************************************************************)
RankDecides(cmd, ready) ==
    LET rank == cmd.addr.rank
        decisive == {k \in 1 .. banks :
                        IsValid(ready[k]) /\ ready[k].cmd_type # cmd.cmd_type}
    IN IF decisive # {}
       THEN LET k == Min(decisive)
                b == RankBank(rank, k)
            IN IF IsExit(ready[k]) THEN AbruptExit
               ELSE [ready[k] EXCEPT !.addr = Address(rank, b[2], b[3], -1, -1)]
       ELSE IF \A k \in 1 .. banks : IsValid(ready[k])
            THEN Command(cmd.cmd_type, cmd.addr, cmd.hex_addr, cmd.cmd_type)
            ELSE NoCommand

RankGetReadyCommand(cs, cmd) ==
    RankDecides(cmd, [k \in 1 .. banks |->
        BankGetReadyCommand(cs.bank_states_[RankBank(cmd.addr.rank, k)], cmd)])

ChannelGetReadyCommand(cs, cmd) ==
    IF IsRankCMD(cmd) THEN RankGetReadyCommand(cs, cmd)
    ELSE LET ready == BankGetReadyCommand(cs.bank_states_[BankOf(cmd.addr)], cmd)
         IN IF ready.cmd_type = "ACTIVATE" /\ ~ActivationWindowOk(cs, cmd.addr.rank)
            THEN NoCommand
            ELSE ready

(* The banks a command changes the state of.                               *)
Targets(cmd) ==
    IF IsRankCMD(cmd) THEN {b \in Banks : b[1] = cmd.addr.rank}
    ELSE {BankOf(cmd.addr)}

(* FALSE where some bank's UpdateState ends the program.                   *)
ChannelAccepts(cs, cmd) ==
    \A b \in Targets(cmd) : BankAccepts(cs.bank_states_[b], cmd.cmd_type)

ChannelUpdateState(cs, cmd) ==
    LET rank == cmd.addr.rank
        s == [cs EXCEPT !.bank_states_ =
                [b \in Banks |-> IF b \in Targets(cmd)
                                 THEN BankUpdateState(@[b], cmd) ELSE @[b]]]
    IN CASE cmd.cmd_type = "REFRESH" -> RankRefreshDone(s, rank)
         [] cmd.cmd_type = "REFRESH_BANK" -> BankRefreshDone(s, BankOf(cmd.addr))
         [] cmd.cmd_type = "SREF_ENTER" -> [s EXCEPT !.rank_is_sref_[rank] = TRUE]
         [] cmd.cmd_type = "SREF_EXIT" -> [s EXCEPT !.rank_is_sref_[rank] = FALSE]
         [] OTHER -> s

(***************************************************************************)
(* The row that bank b takes its new delays from when cmd is issued:       *)
(* UpdateSameBankTiming, UpdateOtherBanksSameBankgroupTiming,              *)
(* UpdateOtherBankgroupsSameRankTiming, UpdateOtherRanksTiming and         *)
(* UpdateSameRankTiming reach disjoint sets of banks.                      *)
(***************************************************************************)
TimingRow(cmd, b) ==
    LET t == cmd.cmd_type IN
    CASE IsRankCMD(cmd) /\ b[1] = cmd.addr.rank -> same_rank[t]
      [] IsRankCMD(cmd) /\ b[1] # cmd.addr.rank -> NoRow
      [] ~IsRankCMD(cmd) /\ b[1] # cmd.addr.rank -> other_ranks[t]
      [] ~IsRankCMD(cmd) /\ b[1] = cmd.addr.rank /\ b[2] # cmd.addr.bankgroup ->
           other_bankgroups_same_rank[t]
      [] ~IsRankCMD(cmd) /\ b[1] = cmd.addr.rank /\ b[2] = cmd.addr.bankgroup
                         /\ b[3] # cmd.addr.bank -> other_banks_same_bankgroup[t]
      [] OTHER -> same_bank[t]

ChannelUpdateTiming(cs, cmd) ==
    LET s == IF cmd.cmd_type = "ACTIVATE"
             THEN UpdateActivationTimes(cs, cmd.addr.rank) ELSE cs
    IN [s EXCEPT !.bank_states_ =
           [b \in Banks |-> BankUpdateTiming(@[b], TimingRow(cmd, b))]]

UpdateTimingAndStates(cs, cmd) ==
    ChannelUpdateTiming(ChannelUpdateState(cs, cmd), cmd)

ChannelElapse(cs) ==
    LET Ages(window) == [i \in DOMAIN window |-> OneLess(window[i])]
    IN [cs EXCEPT
          !.bank_states_ = [b \in Banks |-> BankElapse(@[b])],
          !.four_aw_ = [r \in Ranks |-> Ages(@[r])],
          !.thirty_two_aw_ = [r \in Ranks |-> Ages(@[r])]]
=============================================================================
