------------------------------ MODULE MCConfig ------------------------------
(***************************************************************************)
(* Instances of Configuration: one file of configs/ per family of          *)
(* protocols, and small memories under every order of the six address      *)
(* fields and under malformed mappings.                                    *)
(***************************************************************************)
EXTENDS Configuration

DDR3_8Gb_x4_1600 ==
    [channel_size |-> 32768, channels |-> 1, bus_width |-> 64,
     address_mapping |-> <<"ro", "ch", "ra", "ba", "bg", "co">>,
     refresh_policy |-> "RANK_LEVEL_STAGGERED", protocol |-> "DDR3",
     bankgroups |-> 1, banks_per_group |-> 8, rows |-> 65536,
     columns |-> 4096, device_width |-> 4, BL |-> 8, AL |-> 0, CL |-> 11,
     CWL |-> 8, tCCD_L |-> 4, tCCD_S |-> 4, tRTRS |-> 1, tRTP |-> 6,
     tWTR_L |-> 6, tWTR_S |-> 6, tWR |-> 12, tRP |-> 11, tRRD_L |-> 6,
     tRRD_S |-> 6, tRAS |-> 28, tRCD |-> 11, tRFC |-> 280, tCKESR |-> 5,
     tXS |-> 288, tFAW |-> 32]

DDR4_8Gb_x8_3200 ==
    [channel_size |-> 16384, channels |-> 1, bus_width |-> 64,
     address_mapping |-> <<"ro", "ch", "ra", "ba", "bg", "co">>,
     refresh_policy |-> "RANK_LEVEL_STAGGERED", protocol |-> "DDR4",
     bankgroups |-> 4, banks_per_group |-> 4, rows |-> 65536,
     columns |-> 1024, device_width |-> 8, BL |-> 8, AL |-> 0, CL |-> 22,
     CWL |-> 16, tCCD_L |-> 8, tCCD_S |-> 4, tRTRS |-> 1, tRTP |-> 12,
     tWTR_L |-> 12, tWTR_S |-> 4, tWR |-> 24, tRP |-> 22, tRRD_L |-> 8,
     tRRD_S |-> 4, tRAS |-> 52, tRCD |-> 22, tRFC |-> 560, tCKESR |-> 9,
     tXS |-> 576, tREFI |-> 12480, tFAW |-> 34]

GDDR5_8Gb_x32 ==
    [channel_size |-> 4096, channels |-> 1, bus_width |-> 128,
     address_mapping |-> <<"ro", "ch", "ra", "ba", "bg", "co">>,
     protocol |-> "GDDR5", bankgroups |-> 4, banks_per_group |-> 4,
     bankgroup_enable |-> FALSE, rows |-> 16384, columns |-> 128,
     device_width |-> 32, BL |-> 8, CL |-> 24, CWL |-> 7, tCCD_L |-> 3,
     tCCD_S |-> 2, tRTRS |-> 1, tWTR_L |-> 10, tWTR_S |-> 10, tWR |-> 24,
     tRP |-> 24, tRRD_L |-> 10, tRRD_S |-> 10, tRAS |-> 56, tRFC |-> 74,
     tCKESR |-> 2, tXS |-> 94, tRFCb |-> 30, tREFI |-> 3800, tREFIb |-> 238,
     tFAW |-> 40, tPPD |-> 5, t32AW |-> 360, tRCDRD |-> 24, tRCDWR |-> 20]

GDDR5X_8Gb_x32 ==
    [channel_size |-> 4096, channels |-> 1, bus_width |-> 128,
     address_mapping |-> <<"ro", "ch", "ra", "ba", "bg", "co">>,
     protocol |-> "GDDR5X", bankgroups |-> 4, banks_per_group |-> 4,
     bankgroup_enable |-> FALSE, rows |-> 16384, columns |-> 64,
     device_width |-> 32, BL |-> 16, CL |-> 24, CWL |-> 7, tCCD_L |-> 3,
     tCCD_S |-> 2, tRTRS |-> 0, tWTR_L |-> 8, tWTR_S |-> 8, tWR |-> 18,
     tRP |-> 18, tRRD_L |-> 9, tRRD_S |-> 9, tRAS |-> 42, tRFC |-> 98,
     tXS |-> 116, tREFI |-> 11699, tFAW |-> 35, tPPD |-> 2, t32AW |-> 280,
     tRCDRD |-> 18, tRCDWR |-> 15]

LPDDR4_8Gb_x16_2400 ==
    [channel_size |-> 8192, channels |-> 1, bus_width |-> 64,
     address_mapping |-> <<"ro", "ch", "ra", "ba", "bg", "co">>,
     refresh_policy |-> "RANK_LEVEL_STAGGERED", protocol |-> "LPDDR4",
     bankgroups |-> 2, banks_per_group |-> 4, rows |-> 65536,
     columns |-> 1024, device_width |-> 16, BL |-> 16, AL |-> 0, CL |-> 17,
     CWL |-> 14, tCCD_L |-> 6, tCCD_S |-> 4, tRTRS |-> 1, tRTP |-> 12,
     tWTR_L |-> 16, tWTR_S |-> 8, tWR |-> 30, tRP |-> 15, tRRD_L |-> 8,
     tRRD_S |-> 8, tRAS |-> 32, tRCD |-> 15, tRFC |-> 392, tCKESR |-> 7,
     tXS |-> 432, tREFI |-> 8660, tFAW |-> 32, tPPD |-> 2]

HBM2_4Gb_x128 ==
    [channel_size |-> 512, channels |-> 8, bus_width |-> 128,
     address_mapping |-> <<"ro", "ra", "bg", "ba", "ch", "co">>,
     protocol |-> "HBM", bankgroups |-> 4, banks_per_group |-> 4,
     rows |-> 16384, columns |-> 64, device_width |-> 128, BL |-> 4,
     CL |-> 14, CWL |-> 4, tCCD_L |-> 2, tCCD_S |-> 1, tWTR_L |-> 8,
     tWTR_S |-> 6, tWR |-> 16, tRP |-> 14, tRRD_L |-> 6, tRRD_S |-> 4,
     tRAS |-> 34, tRFC |-> 260, tXS |-> 268, tREFI |-> 3900, tREFIb |-> 128,
     tFAW |-> 30, tRCDRD |-> 14, tRCDWR |-> 14]

HMC_4GB_4Lx16 ==
    [channel_size |-> 256, channels |-> 16, bus_width |-> 32,
     address_mapping |-> <<"ro", "co", "ra", "bg", "ba", "ch">>,
     protocol |-> "HMC", bankgroups |-> 1, banks_per_group |-> 16,
     rows |-> 65536, columns |-> 64, device_width |-> 32, block_size |-> 64,
     CL |-> 17, CWL |-> 17, tCCD_L |-> 6, tCCD_S |-> 6, tRTRS |-> 0,
     tWTR_L |-> 3, tWTR_S |-> 3, tWR |-> 17, tRP |-> 17, tRRD_L |-> 4,
     tRRD_S |-> 4, tRAS |-> 34, tRCD |-> 17, tRFC |-> 420, tXS |-> 12,
     tREFI |-> 9364, tFAW |-> 27]

ShippedFiles ==
    {DDR3_8Gb_x4_1600, DDR4_8Gb_x8_3200, GDDR5_8Gb_x32, GDDR5X_8Gb_x32,
     LPDDR4_8Gb_x16_2400, HBM2_4Gb_x128, HMC_4GB_4Lx16}

-----------------------------------------------------------------------------
(* all orders of the fields; too short, with a field twice, and with an    *)
(* unknown field                                                           *)
Orders == {p \in [1 .. 6 -> Fields] : \A f \in Fields : \E i \in 1 .. 6 : p[i] = f}

Malformed ==
    {<<"ro", "ch", "ra", "ba", "bg">>, <<"ro", "ch", "ra", "ba", "co", "co">>,
     <<"ro", "ch", "ra", "ba", "xx", "co">>, <<"xx", "ro", "ra", "ba", "bg", "co">>}

With(file, mapping) == Assign(file, [address_mapping |-> mapping])

(* 2 channels of 4 ranks of 4 banks; 3 ranks and 3 channels, neither a     *)
(* power of two; a channel too small for a rank                            *)
Plain == [channel_size |-> 128, channels |-> 2, rows |-> 1024]
Odd   == [channel_size |-> 100, channels |-> 3, rows |-> 1024]
Tiny  == [channel_size |-> 2, rows |-> 1024, columns |-> 128,
          bankgroups |-> 4, protocol |-> "GDDR6", bankgroup_enable |-> FALSE]
Hbm   == [protocol |-> "HBM2", channel_size |-> 64, BL |-> 0, rows |-> 4096,
          columns |-> 64, device_width |-> 64]

(* no whole megabyte in a bank; fewer columns than the burst is long; an   *)
(* unknown protocol; an unknown refresh policy                             *)
Broken ==
    {[rows |-> 512], [columns |-> 4, rows |-> 1048576],
     [protocol |-> "DDR5"], [refresh_policy |-> "NONE"]}

SmallFiles ==
    {With(f, m) : f \in {Plain, Odd, Tiny, Hbm}, m \in Orders \cup Malformed}

ModelInis == ShippedFiles \cup SmallFiles \cup Broken

-----------------------------------------------------------------------------
(* The timing tables the finished configuration leads to.                  *)
T(cfg) == INSTANCE Timing WITH
    config <- cfg, Addr <- {}, AddressMapping <- NoMembers,
    RowHitLimit <- 4, WriteLowMark <- 8, FawDepth <- 4, Aw32Depth <- 32

(* The first cycle a command may be issued in: a request accepted before   *)
(* cycle 0 reaches the command queue in cycle 0.                           *)
Earliest(cfg, type) ==
    CASE type \in {"READ", "READ_PRECHARGE"} -> 1 + T(cfg)!activate_to_read
      [] type \in {"WRITE", "WRITE_PRECHARGE"} -> 1 + T(cfg)!activate_to_write
      [] OTHER -> 1

Tables(cfg) == {T(cfg)!same_bank, T(cfg)!other_banks_same_bankgroup,
                T(cfg)!other_bankgroups_same_rank, T(cfg)!other_ranks}

(***************************************************************************)
(* Some delays between ranks are negative (a write burst may start before  *)
(* the read burst that was commanded earlier).  ChannelState adds them to  *)
(* the unsigned clk; with every shipped file they reach back no further    *)
(* than cycle 0, so that no command is held back for 2^64 cycles.          *)
(***************************************************************************)
NegativeDelaysPast ==
    (pc = "done" /\ ini \in ShippedFiles) =>
        \A table \in Tables(c) : \A type \in DOMAIN table :
            \A held \in DOMAIN table[type] :
                -table[type][held] <= Earliest(c, type)
=============================================================================
