------------------------------ MODULE MCMonitor ------------------------------
EXTENDS TimingMonitor

(* HBM with two commands per cycle, two ranks of one bank; a read latency  *)
(* longer than the write latency, bursts of two cycles, a turnaround.      *)
MonitorConfig ==
    [channels |-> 1, epoch_period |-> 2, ranks |-> 2, bankgroups |-> 1, banks_per_group |-> 1,
     protocol |-> "HBM2", queue_structure |-> "PER_BANK",
     row_buf_policy |-> "OPEN_PAGE", refresh_policy |-> "RANK_LEVEL_STAGGERED",
     cmd_queue_size |-> 1, trans_queue_size |-> 1, unified_queue |-> TRUE,
     enable_self_refresh |-> FALSE, sref_threshold |-> 1,
     enable_hbm_dual_cmd |-> TRUE,
     burst_cycle |-> 2, AL |-> 0, CL |-> 2, CWL |-> 1,
     tCCD_L |-> 2, tCCD_S |-> 2, tRTRS |-> 0, tRTP |-> 1,
     tWTR_L |-> 1, tWTR_S |-> 1, tWR |-> 1, tRP |-> 1,
     tRRD_L |-> 1, tRRD_S |-> 1, tRAS |-> 4, tRCD |-> 1, tRFC |-> 2,
     tRFCb |-> 1, tREFI |-> 16, tREFIb |-> 8, tCKESR |-> 2, tXS |-> 2,
     tFAW |-> 2, t32AW |-> 5, tPPD |-> 0, tRCDRD |-> 1, tRCDWR |-> 1]

Loc(channel, rank, bankgroup, bank, row, column) ==
    [channel |-> channel, rank |-> rank, bankgroup |-> bankgroup,
     bank |-> bank, row |-> row, column |-> column]

(* A bank of rank 0 with two rows, and the bank of rank 1.                 *)
MonitorAddr == 0 .. 2
MonitorMap ==
    [a \in MonitorAddr |->
        CASE a = 0 -> Loc(0, 0, 0, 0, 0, 0)
          [] a = 1 -> Loc(0, 1, 0, 0, 0, 0)
          [] a = 2 -> Loc(0, 0, 0, 0, 1, 0)]

(* One row of the first bank is written, the other one read.               *)
TwoRows == {t \in Transactions : t.is_write <=> t.addr = 0}

(* Two channels of one bank each, and a read of each.                      *)
TwoChannels == [MonitorConfig EXCEPT !.channels = 2, !.ranks = 1]

ChannelAddr == 0 .. 1
ChannelMap == [a \in ChannelAddr |-> Loc(a, 0, 0, 0, 0, 0)]

Reads == {t \in Transactions : ~t.is_write}
=============================================================================
