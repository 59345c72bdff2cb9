-------------------------------- MODULE MCCPU --------------------------------
EXTENDS CPU

(* GDDR5: both activation windows, longer than it takes to fill them;      *)
(* auto-precharging accesses.  One rank of two bankgroups, one queue for   *)
(* reads and writes with room for one transaction, so that requests are    *)
(* refused, one command queue for the rank.                                *)
CpuConfig ==
    [channels |-> 1, epoch_period |-> 2, ranks |-> 1, bankgroups |-> 2, banks_per_group |-> 1,
     protocol |-> "GDDR5", queue_structure |-> "PER_RANK",
     row_buf_policy |-> "CLOSE_PAGE", refresh_policy |-> "RANK_LEVEL_STAGGERED",
     cmd_queue_size |-> 1, trans_queue_size |-> 1, unified_queue |-> TRUE,
     enable_self_refresh |-> FALSE, sref_threshold |-> 1,
     enable_hbm_dual_cmd |-> FALSE,
     burst_cycle |-> 1, AL |-> 0, CL |-> 1, CWL |-> 1,
     tCCD_L |-> 2, tCCD_S |-> 1, tRTRS |-> 0, tRTP |-> 1,
     tWTR_L |-> 1, tWTR_S |-> 1, tWR |-> 1, tRP |-> 1,
     tRRD_L |-> 2, tRRD_S |-> 1, tRAS |-> 2, tRCD |-> 1, tRFC |-> 2,
     tRFCb |-> 1, tREFI |-> 12, tREFIb |-> 4, tCKESR |-> 2, tXS |-> 2,
     tFAW |-> 6, t32AW |-> 10, tPPD |-> 1, tRCDRD |-> 1, tRCDWR |-> 1]

(* Address a: column 0 of row a \div 2 of bankgroup a % 2.                 *)
CpuAddr == 0 .. 3
CpuMap ==
    [a \in CpuAddr |-> [channel |-> 0, rank |-> 0, bankgroup |-> a % 2, bank |-> 0,
                        row |-> a \div 2, column |-> 0]]

(* RandomCPU draws from the two bankgroups and writes to one of them.      *)
CpuRequests == {t \in [addr : {0, 1}, is_write : BOOLEAN] : t.is_write => t.addr = 0}

CpuBases == {0, 2}

(* All traces of up to two lines, and those of three lines that are due at *)
(* once, of which the third one is refused.                                *)
CpuLines == [addr : {0, 2}, is_write : BOOLEAN, added_cycle : {0, 4}]
DueLines == {line \in CpuLines : line.added_cycle = 0}
CpuTraces == UNION {[1 .. n -> CpuLines] : n \in 0 .. 2} \cup [1 .. 3 -> DueLines]
=============================================================================
