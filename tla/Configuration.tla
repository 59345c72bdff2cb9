---------------------------- MODULE Configuration ----------------------------
(***************************************************************************)
(* class Config: the constructor turns the options of an .ini file into    *)
(* the structure, the address layout and the timing of the memory.  Its    *)
(* five steps run strictly in order, each on what the earlier ones left,   *)
(* and each may end the program: by AbruptExit ("exit"), by an exception   *)
(* nobody catches ("throw"), by an integer division by zero ("crash"), or  *)
(* by going on with an undefined value ("undefined").                      *)
(*                                                                         *)
(* An .ini file is a function from the options it sets to their values;    *)
(* parsing it is INIReader's (external).  The string address_mapping is    *)
(* the sequence of its two-character tokens.  InitPowerParams and          *)
(* InitThermalParams compute floating-point constants nothing modelled     *)
(* here reads, and are left out.                                           *)
(***************************************************************************)
EXTENDS Integers, Sequences, FiniteSets

CONSTANT Inis        \* the files the program may be given

ASSUME InisAssumption ==
    \A i \in Inis : "address_mapping" \in DOMAIN i =>
                        i.address_mapping \in Seq(STRING)

VARIABLES
    ini,             \* reader_: the options of the file
    pc,              \* the step the constructor is at, or how it ended
    c,               \* the members assigned so far
    field_widths,    \* SetAddressMapping's local map: bits of each field
    fields,          \* its local vector: the tokens still to place
    pos,             \* the lowest bit not yet taken
    field_pos        \* its local map: lowest bit of each field placed

configVars == <<ini, pc, c, field_widths, fields, pos, field_pos>>

layout == <<field_widths, fields, pos, field_pos>>

Fields == {"ch", "ra", "bg", "ba", "ro", "co"}

NoMembers == [x \in {} |-> 0]

(* INIReader::Get, GetInteger and GetBoolean: an option the file does not  *)
(* set, or sets to something that is no number, has its default.           *)
Options(file, defaults) ==
    [o \in DOMAIN defaults |-> IF o \in DOMAIN file THEN file[o] ELSE defaults[o]]

(* the members of old and those of new, which win                          *)
Assign(old, new) ==
    [o \in DOMAIN old \cup DOMAIN new |->
       IF o \in DOMAIN new THEN new[o] ELSE old[o]]

(* LogBase2: halvings until 1 is left, so rounded down; 0 for 0.           *)
LogBase2[n \in Nat] == IF n > 1 THEN 1 + LogBase2[n \div 2] ELSE 0

-----------------------------------------------------------------------------
SystemDefaults ==
    [channel_size |-> 1024, channels |-> 1, bus_width |-> 64,
     address_mapping |-> <<"ch", "ro", "ba", "bg", "ra", "co">>,
     queue_structure |-> "PER_BANK", row_buf_policy |-> "OPEN_PAGE",
     cmd_queue_size |-> 16, trans_queue_size |-> 32, unified_queue |-> FALSE,
     write_buf_size |-> 16, refresh_policy |-> "RANK_LEVEL_STAGGERED",
     enable_self_refresh |-> FALSE, sref_threshold |-> 1000,
     aggressive_precharging_enabled |-> FALSE]

RefreshPolicies == {"RANK_LEVEL_SIMULTANEOUS", "RANK_LEVEL_STAGGERED",
                    "BANK_LEVEL_STAGGERED"}

InitSystemParams ==
    /\ pc = "system"
    /\ c' = Options(ini, SystemDefaults)
    /\ pc' = IF c'.refresh_policy \in RefreshPolicies THEN "dram" ELSE "exit"
    /\ UNCHANGED <<ini, layout>>

-----------------------------------------------------------------------------
Protocols == {"DDR3", "DDR4", "GDDR5", "GDDR5X", "GDDR6", "LPDDR", "LPDDR3",
              "LPDDR4", "HBM", "HBM2", "HMC"}

GDDR == {"GDDR5", "GDDR5X", "GDDR6"}
HBM  == {"HBM", "HBM2"}

DRAMDefaults ==
    [protocol |-> "DDR3", bankgroups |-> 2, banks_per_group |-> 2,
     bankgroup_enable |-> TRUE, rows |-> 65536, columns |-> 1024,
     device_width |-> 8, BL |-> 8, num_dies |-> 1, hbm_dual_cmd |-> TRUE,
     num_links |-> 4, link_width |-> 16, link_speed |-> 15000,
     block_size |-> 64, xbar_queue_depth |-> 16]

(* beats of a burst per command clock cycle                                *)
BeatsPerCycle(protocol) ==
    CASE protocol = "GDDR5"  -> 4
      [] protocol = "GDDR5X" -> 8
      [] protocol = "GDDR6"  -> 16
      [] OTHER               -> 2

(* BL = 0 stands for a perfect bandwidth: no burst cycles, usual capacity. *)
BurstLength(protocol, BL) ==
    IF BL # 0 THEN BL ELSE IF protocol \in HBM THEN 4 ELSE 8

(* physical columns per column of the file                                 *)
ColumnFactor(protocol, BL) ==
    IF protocol \in GDDR THEN BL ELSE IF protocol \in HBM THEN 2 ELSE 1

(* the burst length of the file; for HMC it follows from the block size    *)
FileBL(o) ==
    IF o.protocol = "HMC" THEN (o.block_size * 8) \div o.device_width ELSE o.BL

DRAMParams(o) ==
    Assign(o,
      [bankgroups |-> IF o.bankgroup_enable THEN o.bankgroups ELSE 1,
       banks_per_group |-> IF o.bankgroup_enable THEN o.banks_per_group
                           ELSE o.banks_per_group * o.bankgroups,
       banks |-> o.bankgroups * o.banks_per_group,
       BL |-> BurstLength(o.protocol, FileBL(o)),
       burst_cycle |-> FileBL(o) \div BeatsPerCycle(o.protocol),
       columns |-> o.columns * ColumnFactor(o.protocol,
                                            BurstLength(o.protocol, FileBL(o))),
       enable_hbm_dual_cmd |-> o.hbm_dual_cmd /\ o.protocol \in HBM])

InitDRAMParams ==
    /\ pc = "dram"
    /\ IF Options(ini, DRAMDefaults).protocol \in Protocols
       THEN /\ c' = Assign(c, DRAMParams(Options(ini, DRAMDefaults)))
            /\ pc' = "size"
       ELSE pc' = "exit" /\ c' = c
    /\ UNCHANGED <<ini, layout>>

-----------------------------------------------------------------------------
devices_per_rank == c.bus_width \div c.device_width
page_size == (c.columns * c.device_width) \div 8
megs_per_bank == (page_size * (c.rows \div 1024)) \div 1024

(* Mutant: the banks of one group only.                                   *)
megs_per_rank_Bank == megs_per_bank * c.banks_per_group * devices_per_rank

megs_per_rank == megs_per_bank * c.banks * devices_per_rank

(* as many ranks as the size asked for holds, at least one; an empty rank  *)
(* (fewer than 1024 rows, say) makes the division by it fail               *)
CalculateSize ==
    /\ pc = "size"
    /\ \/ /\ megs_per_rank > c.channel_size
          /\ c' = Assign(c, [devices_per_rank |-> devices_per_rank, ranks |-> 1,
                             channel_size |-> megs_per_rank])
          /\ pc' = "fields"
       \/ /\ megs_per_rank \in 1 .. c.channel_size
          /\ c' = Assign(c,
                    [devices_per_rank |-> devices_per_rank,
                     ranks |-> c.channel_size \div megs_per_rank,
                     channel_size |->
                       (c.channel_size \div megs_per_rank) * megs_per_rank])
          /\ pc' = "fields"
       \/ /\ megs_per_rank = 0 /\ c.channel_size >= 0
          /\ pc' = "crash" /\ c' = c
    /\ UNCHANGED <<ini, layout>>

-----------------------------------------------------------------------------
(* SetAddressMapping, up to the loop                                       *)
FieldWidths ==
    [ch |-> LogBase2[c.channels], ra |-> LogBase2[c.ranks],
     bg |-> LogBase2[c.bankgroups], ba |-> LogBase2[c.banks_per_group],
     ro |-> LogBase2[c.rows], co |-> LogBase2[c.columns] - LogBase2[c.BL]]

SplitMapping ==
    /\ pc = "fields"
    /\ field_widths' = FieldWidths
    /\ IF Len(c.address_mapping) = 6
       THEN /\ pc' = "place"
            /\ fields' = c.address_mapping
            /\ c' = Assign(c,
                 [request_size_bytes |-> (c.bus_width \div 8) * c.BL,
                  shift_bits |-> LogBase2[(c.bus_width \div 8) * c.BL]])
       ELSE pc' = "exit" /\ UNCHANGED <<fields, c>>
    /\ UNCHANGED <<ini, pos, field_pos>>

(* Mutant: a field of a single bit takes no room.                         *)
PosAfter_Narrow(token) ==
    IF field_widths[token] > 1 THEN pos + field_widths[token] ELSE pos

(* where the field after token starts                                      *)
PosAfter(token) == pos + field_widths[token]

(* one turn of the loop: the last token gets the lowest free bits; a token *)
(* seen before is placed again                                             *)
PlaceField ==
    /\ pc = "place" /\ fields # <<>>
    /\ LET token == fields[Len(fields)] IN
       /\ fields' = SubSeq(fields, 1, Len(fields) - 1)
       /\ IF token \in DOMAIN field_widths
          THEN /\ field_pos' = Assign(field_pos, [f \in {token} |-> pos])
               /\ pos' = PosAfter(token)
               /\ pc' = pc
          ELSE pc' = "exit" /\ UNCHANGED <<pos, field_pos>>
    /\ UNCHANGED <<ini, c, field_widths>>

(* the six lookups with at(), and the masks: 1 << width with a negative    *)
(* width (fewer columns than the burst is long) is undefined               *)
SetMasks ==
    /\ pc = "place" /\ fields = <<>>
    /\ pc' = CASE DOMAIN field_pos # Fields -> "throw"
               [] \E f \in Fields : field_widths[f] \notin Nat -> "undefined"
               [] OTHER -> "timing"
    /\ c' = IF pc' = "timing" THEN Assign(c, [pos |-> field_pos]) ELSE c
    /\ UNCHANGED <<ini, layout>>

-----------------------------------------------------------------------------
TimingDefaults ==
    [AL |-> 0, CL |-> 12, CWL |-> 12, tCCD_L |-> 6, tCCD_S |-> 4, tRTRS |-> 2,
     tRTP |-> 5, tWTR_L |-> 5, tWTR_S |-> 5, tWR |-> 10, tRP |-> 10,
     tRRD_L |-> 4, tRRD_S |-> 4, tRAS |-> 24, tRCD |-> 10, tRFC |-> 74,
     tCKE |-> 6, tCKESR |-> 12, tXS |-> 432, tXP |-> 8, tRFCb |-> 20,
     tREFI |-> 7800, tREFIb |-> 1950, tFAW |-> 50, tRPRE |-> 1, tWPRE |-> 1,
     tPPD |-> 0, t32AW |-> 330, tRCDRD |-> 24, tRCDWR |-> 20,
     ideal_memory_latency |-> 10]

(* RL, WL, tRC and the two delays are derived in DRAMCommon.               *)
InitTimingParams ==
    /\ pc = "timing"
    /\ c' = Assign(c, Options(ini, TimingDefaults))
    /\ pc' = "other"
    /\ UNCHANGED <<ini, layout>>

(* The names of the output files are left out; whether the directory       *)
(* exists is not known.                                                    *)
InitOtherParams ==
    /\ pc = "other"
    /\ \E output_dir \in {"given", "current"} :
         c' = Assign(Assign(c, [output_dir |-> output_dir]),
                     Options(ini, [epoch_period |-> 100000, output_level |-> 1]))
    /\ pc' = "done"
    /\ UNCHANGED <<ini, layout>>

-----------------------------------------------------------------------------
(* Where the constructor may end.                                          *)
Ended == pc \in {"done", "exit", "throw", "crash", "undefined"}

ConfigInit ==
    /\ ini \in Inis
    /\ pc = "system"
    /\ c = NoMembers
    /\ field_widths = NoMembers /\ fields = <<>> /\ pos = 0 /\ field_pos = NoMembers

ConfigNext ==
    \/ InitSystemParams \/ InitDRAMParams \/ CalculateSize
    \/ SplitMapping \/ PlaceField \/ SetMasks
    \/ InitTimingParams \/ InitOtherParams
    \/ Ended /\ UNCHANGED configVars

ConfigSpec == ConfigInit /\ [][ConfigNext]_configVars

-----------------------------------------------------------------------------
(* Config::AddressMapping, from the block number hex_addr >> shift_bits on *)
Decode(block) ==
    [f \in Fields |-> (block \div 2 ^ c.pos[f]) % 2 ^ field_widths[f]]

(* How many of each thing there are.                                       *)
HowMany(f) ==
    CASE f = "ch" -> c.channels [] f = "ra" -> c.ranks
      [] f = "bg" -> c.bankgroups [] f = "ba" -> c.banks_per_group
      [] f = "ro" -> c.rows [] f = "co" -> c.columns \div c.BL

(***************************************************************************)
(* No two fields of Config::AddressMapping share a bit of the address,     *)
(* whatever order the tokens of the file are in and however wide the       *)
(* fields are, so that no two locations of the memory have the same        *)
(* address.                                                                *)
(***************************************************************************)
FieldsDisjoint ==
    pc = "done" =>
        \A f, g \in Fields : f # g =>
            \/ c.pos[f] + field_widths[f] <= c.pos[g]
            \/ c.pos[g] + field_widths[g] <= c.pos[f]

IsPowerOfTwo(n) == n = 2 ^ LogBase2[n]

(***************************************************************************)
(* Addresses and memory correspond.  No address decodes to a channel,      *)
(* rank, bank, row or column that does not exist, so that the arrays of    *)
(* ChannelState and CommandQueue, indexed by decoded fields without a      *)
(* check, are never left, also when a count is no power of two; and the    *)
(* size CalculateSize works out from the devices agrees with the size      *)
(* SetAddressMapping can address: all bytes of the memory have an address  *)
(* when every count is a power of two, and there is never an address too   *)
(* many.  2^20 bytes are a megabyte.                                       *)
(***************************************************************************)
AddressSpaceExact ==
    pc = "done" =>
        LET bytes == LogBase2[c.channel_size] + 20 + LogBase2[c.channels] IN
        /\ \A f \in Fields : Decode(2 ^ pos - 1)[f] \in 0 .. HowMany(f) - 1
        /\ pos + c.shift_bits <= bytes
        /\ (\A f \in Fields : IsPowerOfTwo(HowMany(f))) => pos + c.shift_bits = bytes
=============================================================================
