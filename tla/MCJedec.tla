------------------------------- MODULE MCJedec -------------------------------
EXTENDS JedecDRAMSystem

(* Small instances of Config.  Timings are as short as the orderings of    *)
(* the real ones allow.                                                    *)
BaseConfig ==
    [channels |-> 1, epoch_period |-> 2, ranks |-> 1, bankgroups |-> 1, banks_per_group |-> 2,
     protocol |-> "DDR4", queue_structure |-> "PER_BANK",
     row_buf_policy |-> "OPEN_PAGE", refresh_policy |-> "RANK_LEVEL_STAGGERED",
     cmd_queue_size |-> 2, trans_queue_size |-> 2, unified_queue |-> FALSE,
     enable_self_refresh |-> FALSE, sref_threshold |-> 1,
     enable_hbm_dual_cmd |-> FALSE,
     burst_cycle |-> 1, AL |-> 0, CL |-> 1, CWL |-> 1,
     tCCD_L |-> 1, tCCD_S |-> 1, tRTRS |-> 0, tRTP |-> 1,
     tWTR_L |-> 1, tWTR_S |-> 1, tWR |-> 1, tRP |-> 1,
     tRRD_L |-> 1, tRRD_S |-> 1, tRAS |-> 2, tRCD |-> 1, tRFC |-> 2,
     tRFCb |-> 1, tREFI |-> 8, tREFIb |-> 4, tCKESR |-> 2, tXS |-> 2,
     tFAW |-> 3, t32AW |-> 5, tPPD |-> 0, tRCDRD |-> 1, tRCDWR |-> 1]

Loc(channel, rank, bankgroup, bank, row, column) ==
    [channel |-> channel, rank |-> rank, bankgroup |-> bankgroup,
     bank |-> bank, row |-> row, column |-> column]

(* A unified queue and open rows.                                          *)
UnifiedOpenConfig == [BaseConfig EXCEPT !.unified_queue = TRUE, !.tWTR_S = 2]

(* Two ranks, refreshed bank by bank.                                      *)
BankRefreshConfig ==
    [BaseConfig EXCEPT !.refresh_policy = "BANK_LEVEL_STAGGERED",
                       !.ranks = 2, !.banks_per_group = 1, !.tREFI = 4,
                       !.tRFCb = 3]

(* Idle ranks sleep.                                                       *)
SleepConfig == [BaseConfig EXCEPT !.enable_self_refresh = TRUE, !.sref_threshold = 2]

(* HBM2 with two commands per cycle and two ranks.  The read latency is    *)
(* longer than the write latency by more than a burst and the turnaround,  *)
(* as in configs/HBM2_4Gb_x128.ini (with twice its channel_size, which     *)
(* makes two ranks): a read of one rank may go out in the cycle in which a *)
(* write goes to the other, and AccessesSpaced does not hold.              *)
DualConfig ==
    [BaseConfig EXCEPT !.protocol = "HBM2", !.enable_hbm_dual_cmd = TRUE,
                       !.ranks = 2, !.banks_per_group = 1, !.CL = 3,
                       !.tREFI = 24]

(* Two rows of one bank.                                                   *)
TwoAddr == 0 .. 1
TwoMap == [a \in TwoAddr |-> Loc(0, 0, 0, 0, a, 0)]

(* Two ranks of one bank each.                                             *)
RanksMap == [a \in TwoAddr |-> Loc(0, a, 0, 0, 0, 0)]

AllRequests == Transactions

(* Reads only.                                                             *)
Reads == [addr : Addr, is_write : {FALSE}]

(* Reads of both addresses and writes of the first.                        *)
ReadsAndAWrite == {t \in Transactions : t.is_write => t.addr = 0}
=============================================================================
