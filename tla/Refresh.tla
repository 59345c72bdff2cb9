------------------------------- MODULE Refresh -------------------------------
(***************************************************************************)
(* class Refresh: every refresh_interval_ cycles a refresh is requested    *)
(* for the next rank or bank that is due.                                  *)
(***************************************************************************)
EXTENDS ChannelState

Policy == config.refresh_policy

refresh_interval_ ==
    CASE Policy = "RANK_LEVEL_SIMULTANEOUS" -> config.tREFI
      [] Policy = "BANK_LEVEL_STAGGERED" -> config.tREFIb
      [] Policy = "RANK_LEVEL_STAGGERED" -> config.tREFI \div config.ranks

(* clk_ counts from the last multiple of refresh_interval_: 0 only in the  *)
(* first cycle, refresh_interval_ when a refresh is due.                   *)
NewRefresh == [clk_ |-> 0, next_rank_ |-> 0, next_bg_ |-> 0, next_bank_ |-> 0]

(* Mutant: the index of the next rank does not wrap around.                *)
IterateNext_NoWrap(rf) == [rf EXCEPT !.next_rank_ = @ + 1]

(* Mutant: the same rank is refreshed again and again.                     *)
IterateNext_Stuck(rf) == rf

(***************************************************************************)
(* IterateNext: all ranks in turn or, per bank, all bankgroups, then the   *)
(* banks of a group, then the ranks.  No caller under the third policy.    *)
(***************************************************************************)
IterateNext(rf) ==
    LET Wraps(next, n) == (next + 1) % n = 0
        turn == IF Policy = "BANK_LEVEL_STAGGERED"
                THEN [bg   |-> TRUE,
                      bank |-> Wraps(rf.next_bg_, config.bankgroups),
                      rank |-> /\ Wraps(rf.next_bg_, config.bankgroups)
                               /\ Wraps(rf.next_bank_, config.banks_per_group)]
                ELSE [bg |-> FALSE, bank |-> FALSE, rank |-> TRUE]
        Step(next, due, n) == IF due THEN (next + 1) % n ELSE next
    IN [rf EXCEPT !.next_bg_ = Step(@, turn.bg, config.bankgroups),
                  !.next_bank_ = Step(@, turn.bank, config.banks_per_group),
                  !.next_rank_ = Step(@, turn.rank, config.ranks)]

(***************************************************************************)
(* InsertRefresh: the refresh requested (none for a rank in self-refresh). *)
(* Under RANK_LEVEL_SIMULTANEOUS the loop over the ranks stops at the      *)
(* first one that is not in self-refresh.                                  *)
(***************************************************************************)
InsertRefresh(cs, rf) ==
    LET awake == {r \in Ranks : ~IsRankSelfRefreshing(cs, r)}
    IN CASE Policy = "RANK_LEVEL_SIMULTANEOUS" ->
              IF awake = {} THEN cs ELSE NeedRefresh(cs, RankRefresh(Min(awake)))
         [] Policy = "RANK_LEVEL_STAGGERED" ->
              IF rf.next_rank_ \in awake
              THEN NeedRefresh(cs, RankRefresh(rf.next_rank_)) ELSE cs
         [] Policy = "BANK_LEVEL_STAGGERED" ->
              IF rf.next_rank_ \in awake
              THEN NeedRefresh(cs, BankRefresh(rf.next_rank_, rf.next_bg_, rf.next_bank_))
              ELSE cs

(* Refresh::ClockTick: the new channel state and the new refresh state.    *)
RefreshClockTick(cs, rf) ==
    IF rf.clk_ = refresh_interval_
    THEN [cs |-> InsertRefresh(cs, rf),
          rf |-> [(IF Policy = "RANK_LEVEL_SIMULTANEOUS" THEN rf
                   ELSE IterateNext(rf)) EXCEPT !.clk_ = 1]]
    ELSE [cs |-> cs, rf |-> [rf EXCEPT !.clk_ = @ + 1]]
=============================================================================
