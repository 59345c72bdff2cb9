----------------------------- MODULE UnitProofs -----------------------------
(***************************************************************************)
(* Proofs about the units that stand alone.  Configuration: whatever the   *)
(* .ini file says, a configuration that is built gives the six fields of   *)
(* an address disjoint bits.  SimpleStats: the reports are exact for any   *)
(* set of counters and of values and any number of events, epochs and      *)
(* phases, and their bins are the ones their labels name, for any number   *)
(* and width of the bins.  IdealDRAMSystem: for any latency it returns     *)
(* each request once, and none later than the logarithm of the requests.   *)
(***************************************************************************)
EXTENDS Configuration, SimpleStats, IdealDRAMSystem, SequenceLemmas,
        FiniteSetTheorems, TLAPS

-----------------------------------------------------------------------------
(* Configuration.                                                          *)

Unplaced == pc \in {"system", "dram", "size", "fields"}
Built    == pc \in {"timing", "other", "done"}

WidthsNatural == \A f \in Fields : field_widths[f] \in Nat

(* Each field placed lies below pos, and above or below any other one.     *)
PlacedBelow ==
    /\ pos \in Nat
    /\ \A f \in DOMAIN field_pos :
         field_pos[f] \in Nat /\ field_pos[f] + field_widths[f] <= pos

PlacedApart ==
    \A f, g \in DOMAIN field_pos : f # g =>
        \/ field_pos[f] + field_widths[f] <= field_pos[g]
        \/ field_pos[g] + field_widths[g] <= field_pos[f]

ConfigInv ==
    /\ DOMAIN field_pos \subseteq Fields
    /\ Unplaced => pos = 0 /\ field_pos = NoMembers
    /\ pc = "place" =>
         /\ DOMAIN field_widths = Fields
         /\ WidthsNatural => PlacedBelow /\ PlacedApart
    /\ Built =>
         /\ WidthsNatural /\ PlacedApart
         /\ "pos" \in DOMAIN c /\ c.pos = field_pos /\ DOMAIN field_pos = Fields

-----------------------------------------------------------------------------
(* Assign overrides the members it is given and keeps the others.          *)
LEMMA AssignDomain ==
    ASSUME NEW old, NEW new
    PROVE  DOMAIN Assign(old, new) = DOMAIN old \cup DOMAIN new
BY DEF Assign

(* A member that is assigned has the new value.                            *)
LEMMA AssignNew ==
    ASSUME NEW old, NEW new, NEW o \in DOMAIN new
    PROVE  Assign(old, new)[o] = new[o]
BY DEF Assign

(* A member that is not assigned keeps its value.                          *)
LEMMA AssignOld ==
    ASSUME NEW old, NEW new, NEW o \in DOMAIN old, o \notin DOMAIN new
    PROVE  Assign(old, new)[o] = old[o]
BY DEF Assign

(* The later steps of the constructor do not touch the positions.          *)
LEMMA PositionsKept ==
    ASSUME NEW old, NEW new, "pos" \in DOMAIN old, "pos" \notin DOMAIN new
    PROVE  /\ "pos" \in DOMAIN Assign(old, new)
           /\ Assign(old, new).pos = old.pos
BY AssignDomain, AssignOld

(* InitTimingParams does not assign the positions.                         *)
LEMMA TimingHasNoPos == "pos" \notin DOMAIN Options(ini, TimingDefaults)
BY DEF Options, TimingDefaults

(* InitOtherParams does not assign the positions.                          *)
LEMMA OtherHasNoPos ==
    "pos" \notin DOMAIN Options(ini, [epoch_period |-> 100000, output_level |-> 1])
BY DEF Options

(* A turn of the loop puts a field at pos, above those placed before.      *)
LEMMA PlaceFieldStep == ConfigInv /\ PlaceField => ConfigInv'
<1> SUFFICES ASSUME ConfigInv, PlaceField PROVE ConfigInv'
  OBVIOUS
<1> DEFINE token == fields[Len(fields)]
<1>1. CASE token \notin DOMAIN field_widths
  BY <1>1 DEF ConfigInv, PlaceField, Unplaced, Built, WidthsNatural
<1>2. CASE token \in DOMAIN field_widths
  <2>1. /\ pc = "place" /\ pc' = "place" /\ field_widths' = field_widths
        /\ field_pos' = Assign(field_pos, [f \in {token} |-> pos])
        /\ pos' = pos + field_widths[token]
    BY <1>2 DEF PlaceField, PosAfter
  <2>2. token \in Fields /\ DOMAIN field_widths = Fields /\ DOMAIN field_pos \subseteq Fields
    BY <1>2, <2>1 DEF ConfigInv
  <2>3. DOMAIN field_pos' = DOMAIN field_pos \cup {token}
    BY <2>1, AssignDomain
  <2>4. field_pos'[token] = pos
    BY <2>1, AssignNew
  <2>5. \A f \in DOMAIN field_pos : f # token => field_pos'[f] = field_pos[f]
    BY <2>1, AssignOld
  <2>6. ASSUME WidthsNatural PROVE PlacedBelow' /\ PlacedApart'
    <3>1. PlacedBelow /\ PlacedApart
      BY <2>1, <2>6 DEF ConfigInv
    <3>2. field_widths[token] \in Nat /\ \A f \in DOMAIN field_pos : field_widths[f] \in Nat
      BY <2>2, <2>6 DEF WidthsNatural
    <3>3. PlacedBelow'
      BY <2>1, <2>3, <2>4, <2>5, <3>1, <3>2 DEF PlacedBelow
    <3>4. PlacedApart'
      BY <2>1, <2>3, <2>4, <2>5, <3>1, <3>2 DEF PlacedBelow, PlacedApart
    <3> QED BY <3>3, <3>4
  <2>7. WidthsNatural' = WidthsNatural
    BY <2>1 DEF WidthsNatural
  <2>8. DOMAIN field_pos' \subseteq Fields
    BY <2>2, <2>3
  <2> QED BY <2>1, <2>2, <2>6, <2>7, <2>8 DEF ConfigInv, Unplaced, Built
<1> QED BY <1>1, <1>2

(* SetMasks goes on only with six fields of natural width.                 *)
LEMMA SetMasksStep == ConfigInv /\ SetMasks => ConfigInv'
<1> SUFFICES ASSUME ConfigInv, SetMasks PROVE ConfigInv'
  OBVIOUS
<1>1. /\ pc = "place" /\ field_widths' = field_widths
      /\ field_pos' = field_pos /\ DOMAIN field_pos \subseteq Fields
  BY DEF SetMasks, ConfigInv, layout
<1>2. pc' \in {"throw", "undefined", "timing"}
  BY DEF SetMasks
<1>3. CASE pc' # "timing"
  BY <1>1, <1>2, <1>3 DEF ConfigInv, Unplaced, Built
<1>4. CASE pc' = "timing"
  <2>1. DOMAIN field_pos = Fields /\ WidthsNatural
    BY <1>4 DEF SetMasks, WidthsNatural
  <2>2. PlacedApart
    BY <1>1, <2>1 DEF ConfigInv
  <2>3. c' = Assign(c, [pos |-> field_pos])
    BY <1>4 DEF SetMasks
  <2>4. "pos" \in DOMAIN c' /\ c'["pos"] = field_pos
    <3> DEFINE new == [pos |-> field_pos]
    <3>1. "pos" \in DOMAIN new /\ new["pos"] = field_pos
      OBVIOUS
    <3> HIDE DEF new
    <3>2. c' = Assign(c, new)
      BY <2>3 DEF new
    <3>3. "pos" \in DOMAIN Assign(c, new)
      BY <3>1, AssignDomain
    <3>4. Assign(c, new)["pos"] = new["pos"]
      BY <3>1, AssignNew
    <3> QED BY <3>1, <3>2, <3>3, <3>4
  <2>5. WidthsNatural' /\ PlacedApart'
    BY <1>1, <2>1, <2>2 DEF WidthsNatural, PlacedApart
  <2> QED BY <1>1, <1>4, <2>1, <2>4, <2>5 DEF ConfigInv, Unplaced, Built
<1> QED BY <1>3, <1>4

-----------------------------------------------------------------------------
(* The invariant holds before the constructor runs.                        *)
LEMMA InitConfig == ConfigInit => ConfigInv
BY DEF ConfigInit, ConfigInv, Unplaced, Built, NoMembers

(* Every step of the constructor keeps the invariant.                      *)
LEMMA NextConfig == ConfigInv /\ [ConfigNext]_configVars => ConfigInv'
<1> SUFFICES ASSUME ConfigInv, [ConfigNext]_configVars PROVE ConfigInv'
  OBVIOUS
<1>1. CASE InitSystemParams
  BY <1>1 DEF InitSystemParams, ConfigInv, Unplaced, Built, layout
<1>2. CASE InitDRAMParams
  BY <1>2 DEF InitDRAMParams, ConfigInv, Unplaced, Built, layout
<1>3. CASE CalculateSize
  BY <1>3 DEF CalculateSize, ConfigInv, Unplaced, Built, layout
<1>4. CASE SplitMapping
  <2>1. pc = "fields" /\ pos = 0 /\ field_pos = NoMembers
        /\ pos' = 0 /\ field_pos' = NoMembers
    BY <1>4 DEF SplitMapping, ConfigInv, Unplaced
  <2>2. pc' \in {"place", "exit"} /\ DOMAIN field_widths' = Fields
    BY <1>4 DEF SplitMapping, FieldWidths, Fields
  <2>3. DOMAIN field_pos' = {}
    BY <2>1 DEF NoMembers
  <2> QED BY <2>1, <2>2, <2>3 DEF ConfigInv, Unplaced, Built, PlacedBelow, PlacedApart
<1>5. CASE PlaceField
  BY <1>5, PlaceFieldStep
<1>6. CASE SetMasks
  BY <1>6, SetMasksStep
<1>7. CASE InitTimingParams
  <2>1. "pos" \in DOMAIN c' /\ c'["pos"] = c["pos"]
    BY <1>7, PositionsKept, TimingHasNoPos DEF InitTimingParams, ConfigInv, Built
  <2> QED BY <1>7, <2>1 DEF InitTimingParams, ConfigInv, Unplaced, Built, layout,
                            WidthsNatural, PlacedApart
<1>8. CASE InitOtherParams
  <2>1. PICK output_dir \in {"given", "current"} : c' = Assign(Assign(c, [output_dir |-> output_dir]),
                     Options(ini, [epoch_period |-> 100000, output_level |-> 1]))
    BY <1>8 DEF InitOtherParams
  <2>2. "pos" \in DOMAIN c
    BY <1>8 DEF InitOtherParams, ConfigInv, Built
  <2>3. LET d == Assign(c, [output_dir |-> output_dir])
        IN "pos" \in DOMAIN d /\ d.pos = c.pos
    BY <2>2, PositionsKept
  <2>4. "pos" \in DOMAIN c' /\ c'["pos"] = c["pos"]
    BY <2>1, <2>3, PositionsKept, OtherHasNoPos
  <2> QED BY <1>8, <2>4 DEF InitOtherParams, ConfigInv, Unplaced, Built, layout,
                            WidthsNatural, PlacedApart
<1>9. CASE UNCHANGED configVars
  BY <1>9 DEF configVars, ConfigInv, Unplaced, Built, WidthsNatural, PlacedBelow, PlacedApart
<1> QED
  BY <1>1, <1>2, <1>3, <1>4, <1>5, <1>6, <1>7, <1>8, <1>9 DEF ConfigNext

(* No two fields of Config::AddressMapping share a bit, for every file     *)
(* that SetAddressMapping accepts.                                         *)
THEOREM AddressFieldsDisjoint == ConfigSpec => []FieldsDisjoint
<1>1. ConfigInv => FieldsDisjoint
  BY DEF ConfigInv, Built, PlacedApart, FieldsDisjoint
<1> QED BY <1>1, InitConfig, NextConfig, PTL DEF ConfigSpec

-----------------------------------------------------------------------------
(* Statistics.                                                             *)

CountsType == [Counters -> Nat]
HistoType  == [Values -> Nat]

Types ==
    /\ counters_ \in CountsType /\ epoch_counters_ \in CountsType
    /\ histo_counts_ \in HistoType /\ epoch_histo_counts_ \in HistoType
    /\ made \in CountsType /\ added \in HistoType
    /\ epoch_made \in CountsType /\ epoch_added \in HistoType
    /\ printed \in BOOLEAN

(* The epoch_ members hold the events of the running epoch ...             *)
EpochExact == epoch_counters_ = epoch_made /\ epoch_histo_counts_ = epoch_added

(* ... and the overall ones the rest, until the final report adds the      *)
(* running epoch to them.                                                  *)
OverallExact ==
    ~printed => /\ made = Plus(counters_, epoch_counters_)
                /\ added = Plus(histo_counts_, epoch_histo_counts_)

StatsInv == Types /\ EpochExact /\ OverallExact /\ ReportExact

-----------------------------------------------------------------------------
(* One more of s; sums of counts.                                          *)
Bump(f, s) == [f EXCEPT ![s] = @ + 1]

(* A sum of counts is a count.                                             *)
LEMMA PlusType ==
    ASSUME NEW S, NEW f \in [S -> Nat], NEW g \in [S -> Nat]
    PROVE  Plus(f, g) \in [S -> Nat]
BY DEF Plus

(* Nothing is added by a cleared counter.                                  *)
LEMMA PlusZero ==
    ASSUME NEW S, NEW f \in [S -> Nat]
    PROVE  Plus(f, [x \in S |-> 0]) = f
BY DEF Plus

(* One more event in the epoch is one more in the sum.                     *)
LEMMA PlusOneMore ==
    ASSUME NEW S, NEW f \in [S -> Nat], NEW g \in [S -> Nat], NEW s \in S
    PROVE  Plus(f, Bump(g, s)) = Bump(Plus(f, g), s)
<1> DEFINE h == [g EXCEPT ![s] = @ + 1]
           p == Plus(f, g)
<1>1. h \in [S -> Nat] /\ h[s] = g[s] + 1 /\ \A x \in S : x # s => h[x] = g[x]
  OBVIOUS
<1>2. p \in [S -> Nat] /\ \A x \in S : p[x] = f[x] + g[x]
  BY DEF Plus
<1>3. Plus(f, h) = [x \in S |-> f[x] + h[x]]
  BY DEF Plus
<1> HIDE DEF h, p
<1>4. \A x \in S : f[x] + h[x] = [p EXCEPT ![s] = @ + 1][x]
  BY <1>1, <1>2
<1>5. Plus(f, h) = [p EXCEPT ![s] = @ + 1]
  BY <1>2, <1>3, <1>4
<1> QED BY <1>5 DEF h, p, Bump

(* One more of s is still a count.                                         *)
LEMMA OneMoreType ==
    ASSUME NEW S, NEW f \in [S -> Nat], NEW s \in S
    PROVE  [f EXCEPT ![s] = @ + 1] \in [S -> Nat]
OBVIOUS

(* The cleared members are counts.                                         *)
LEMMA ZeroTypes == NoCounts \in CountsType /\ NoValues \in HistoType
BY DEF NoCounts, NoValues, CountsType, HistoType

-----------------------------------------------------------------------------
(* The invariant holds for a new object.                                   *)
LEMMA InitStats == StatsInit => StatsInv
<1> SUFFICES ASSUME StatsInit PROVE StatsInv
  OBVIOUS
<1>1. Types
  BY ZeroTypes DEF StatsInit, Types
<1>2. OverallExact
  BY ZeroTypes, PlusZero DEF StatsInit, OverallExact, NoCounts, NoValues, CountsType, HistoType
<1> QED BY <1>1, <1>2 DEF StatsInit, StatsInv, EpochExact, ReportExact

(* Increment counts an event in the epoch and nowhere else.                *)
LEMMA IncrementStep ==
    ASSUME StatsInv, NEW name \in Counters, Increment(name)
    PROVE  StatsInv'
<1>1. Types'
  BY OneMoreType DEF StatsInv, Types, Increment, CountsType
<1>2. EpochExact'
  BY DEF StatsInv, EpochExact, Increment
<1>3. OverallExact'
  <2>1. Plus(counters_, Bump(epoch_counters_, name)) = Bump(Plus(counters_, epoch_counters_), name)
    <3>1. counters_ \in [Counters -> Nat] /\ epoch_counters_ \in [Counters -> Nat]
      BY DEF StatsInv, Types, CountsType
    <3> QED BY <3>1, PlusOneMore
  <2> QED BY <2>1 DEF StatsInv, OverallExact, Increment, Bump
<1>4. ReportExact'
  BY DEF StatsInv, ReportExact, Increment
<1> QED BY <1>1, <1>2, <1>3, <1>4 DEF StatsInv

(* AddValue counts a value in the epoch and nowhere else.                  *)
LEMMA AddValueStep ==
    ASSUME StatsInv, NEW value \in Values, AddValue(value)
    PROVE  StatsInv'
<1>1. Types'
  BY OneMoreType DEF StatsInv, Types, AddValue, HistoType
<1>2. EpochExact'
  BY DEF StatsInv, EpochExact, AddValue
<1>3. OverallExact'
  <2>1. Plus(histo_counts_, Bump(epoch_histo_counts_, value)) = Bump(Plus(histo_counts_, epoch_histo_counts_), value)
    <3>1. histo_counts_ \in [Values -> Nat] /\ epoch_histo_counts_ \in [Values -> Nat]
      BY DEF StatsInv, Types, HistoType
    <3> QED BY <3>1, PlusOneMore
  <2> QED BY <2>1 DEF StatsInv, OverallExact, AddValue, Bump
<1>4. ReportExact'
  BY DEF StatsInv, ReportExact, AddValue
<1> QED BY <1>1, <1>2, <1>3, <1>4 DEF StatsInv

(* The report of an epoch, and the new epoch it starts.                    *)
LEMMA PrintEpochStatsStep ==
    ASSUME StatsInv, PrintEpochStats
    PROVE  StatsInv'
<1> DEFINE counts == OneMore(epoch_counters_)
<1>1. /\ counters_' = Plus(counters_, counts) /\ doubles_' = counts
      /\ histo_counts_' = Plus(histo_counts_, epoch_histo_counts_)
      /\ calculated_' = GetHistoAvg(epoch_histo_counts_)
      /\ epoch_counters_' = NoCounts /\ epoch_histo_counts_' = NoValues
      /\ UpdatePrints("epoch", counts, epoch_histo_bins_')
  BY DEF PrintEpochStats, UpdateEpochStats, UpdateCounters, UpdateHistoBins, NewEpoch
<1>2. /\ made' = OneMore(made) /\ added' = added /\ printed' = printed
      /\ epoch_made' = NoCounts /\ epoch_added' = NoValues
      /\ reported' = [made |-> OneMore(epoch_made), added |-> epoch_added]
  BY DEF PrintEpochStats
<1>3. counts \in CountsType /\ OneMore(made) \in CountsType
  BY OneMoreType, CountersAssumption DEF StatsInv, Types, CountsType, OneMore
<1>4. /\ counters_' \in CountsType /\ histo_counts_' \in HistoType
      /\ Types /\ EpochExact
  BY <1>1, <1>3, PlusType DEF StatsInv, Types, CountsType, HistoType
<1> HIDE DEF counts
<1>5. Types'
  BY <1>1, <1>2, <1>3, <1>4, ZeroTypes DEF Types
<1>6. EpochExact'
  BY <1>1, <1>2 DEF EpochExact
<1>7. OverallExact'
  <2> SUFFICES ASSUME ~printed
               PROVE  /\ made' = Plus(counters_', epoch_counters_')
                      /\ added' = Plus(histo_counts_', epoch_histo_counts_')
    BY <1>2 DEF OverallExact
  <2>1. /\ made = Plus(counters_, epoch_counters_)
        /\ added = Plus(histo_counts_, epoch_histo_counts_)
    BY DEF StatsInv, OverallExact
  <2>2. OneMore(made) = Plus(counters_, counts)
    <3>1. Plus(counters_, Bump(epoch_counters_, "epoch_num"))
            = Bump(Plus(counters_, epoch_counters_), "epoch_num")
      <4>1. /\ counters_ \in [Counters -> Nat] /\ epoch_counters_ \in [Counters -> Nat]
            /\ "epoch_num" \in Counters
        BY <1>4, CountersAssumption DEF Types, CountsType
      <4> QED BY <4>1, PlusOneMore
    <3> QED BY <2>1, <3>1 DEF OneMore, Bump, counts
  <2>3. /\ Plus(counters_', NoCounts) = counters_'
        /\ Plus(histo_counts_', NoValues) = histo_counts_'
    BY <1>4, PlusZero DEF CountsType, HistoType, NoCounts, NoValues
  <2> QED BY <1>1, <1>2, <2>1, <2>2, <2>3
<1>8. ReportExact'
  <2>1. /\ report'.counters = counts /\ report'.doubles = counts
        /\ report'.average = GetHistoAvg(epoch_histo_counts_)
    BY <1>1 DEF UpdatePrints
  <2>2. /\ reported'.made = counts
        /\ GetHistoAvg(reported'.added) = GetHistoAvg(epoch_histo_counts_)
    BY <1>2, <1>4 DEF EpochExact, counts
  <2> QED BY <2>1, <2>2, Zenon DEF ReportExact
<1> QED BY <1>5, <1>6, <1>7, <1>8 DEF StatsInv

(* The final report, which includes the running epoch.                     *)
LEMMA PrintFinalStatsStep ==
    ASSUME StatsInv, PrintFinalStats
    PROVE  StatsInv'
<1>1. /\ counters_' = Plus(counters_, epoch_counters_) /\ doubles_' = counters_'
      /\ histo_counts_' = Plus(histo_counts_, epoch_histo_counts_)
      /\ calculated_' = GetHistoAvg(histo_counts_')
      /\ UNCHANGED <<epoch_counters_, epoch_histo_counts_>>
      /\ UpdatePrints("final", counters_', histo_bins_')
  BY DEF PrintFinalStats, UpdateFinalStats, UpdateCounters, UpdateHistoBins
<1>2. /\ ~printed /\ printed' = TRUE
      /\ UNCHANGED <<made, added, epoch_made, epoch_added>>
      /\ reported' = [made |-> made, added |-> added]
  BY DEF PrintFinalStats
<1>3. counters_' \in CountsType /\ histo_counts_' \in HistoType
  BY <1>1, PlusType DEF StatsInv, Types, CountsType, HistoType
<1>4. Types'
  BY <1>1, <1>2, <1>3 DEF StatsInv, Types
<1>5. EpochExact' /\ OverallExact'
  BY <1>1, <1>2 DEF StatsInv, EpochExact, OverallExact
<1>6. made = counters_' /\ added = histo_counts_'
  BY <1>1, <1>2 DEF StatsInv, OverallExact
<1>7. ReportExact'
  <2>1. /\ report'.counters = counters_' /\ report'.doubles = counters_'
        /\ report'.average = GetHistoAvg(histo_counts_')
    BY <1>1 DEF UpdatePrints
  <2>2. /\ reported'.made = counters_'
        /\ GetHistoAvg(reported'.added) = GetHistoAvg(histo_counts_')
    BY <1>2, <1>6
  <2> QED BY <2>1, <2>2, Zenon DEF ReportExact
<1> QED BY <1>4, <1>5, <1>7 DEF StatsInv

(* Reset forgets the members and the history together.                     *)
LEMMA ResetStep ==
    ASSUME StatsInv, Reset
    PROVE  StatsInv'
<1>1. Types'
  BY ZeroTypes DEF Reset, Types
<1>2. OverallExact'
  BY ZeroTypes, PlusZero DEF Reset, OverallExact, NoCounts, NoValues, CountsType, HistoType
<1> QED BY <1>1, <1>2 DEF Reset, StatsInv, EpochExact, ReportExact

(* Every call keeps the invariant.                                         *)
LEMMA NextStats == StatsInv /\ [StatsNext]_statsVars => StatsInv'
<1> SUFFICES ASSUME StatsInv, [StatsNext]_statsVars PROVE StatsInv'
  OBVIOUS
<1>1. CASE UNCHANGED statsVars
  BY <1>1 DEF statsVars, members, history, StatsInv, Types, EpochExact, OverallExact, ReportExact
<1> QED
  BY <1>1, IncrementStep, AddValueStep, PrintEpochStatsStep, PrintFinalStatsStep,
     ResetStep DEF StatsNext

(* Every report of SimpleStats states exactly the events of its period, in *)
(* its counters, its energies and its average latency.                     *)
THEOREM ReportsExact == StatsSpec => []ReportExact
<1>1. StatsInv => ReportExact
  BY DEF StatsInv
<1> QED BY <1>1, InitStats, NextStats, PTL DEF StatsSpec

-----------------------------------------------------------------------------
(* Totals.                                                                 *)

(* Total is the total of the whole set.                                    *)
LEMMA TotalIsTotal ==
    ASSUME NEW V, NEW counts \in [V -> Nat], NEW S \in SUBSET V, IsFiniteSet(S)
    PROVE  \E it : Totals(it, counts, S, Cardinality(S)) /\ Total(counts, S) = it[S]
<1> DEFINE Next1(g) == [s \in SUBSET S |-> IF s = {} THEN 0
                                           ELSE counts[Pick(s)] + g[s \ {Pick(s)}]]
           sum == CHOOSE g : g = Next1(g)
<1>1. Cardinality(S) \in Nat
  BY FS_CardinalityType
<1>2. PICK it : Totals(it, counts, S, Cardinality(S))
  BY <1>1, TotalsExist
<1>3. \A s \in SUBSET S : Cardinality(s) \in Nat /\ Cardinality(s) <= Cardinality(S)
  BY FS_Subset, FS_CardinalityType
<1>4. it = Next1(it)
  <2>1. it \in [SUBSET S -> Nat]
    BY <1>2 DEF Totals
  <2>2. \A s \in SUBSET S :
          it[s] = IF s = {} THEN 0 ELSE counts[Pick(s)] + it[s \ {Pick(s)}]
    BY <1>2, <1>3 DEF Totals
  <2>3. QED
    BY <2>1, <2>2
<1>5. sum = Next1(sum)
  BY <1>4
<1>6. Total(counts, S) = sum[S]
  BY DEF Total, MapThenSumSet, MapThenFoldSet, Pick
<1> HIDE DEF sum
<1>7. OneByOne(sum, counts, S)
  BY <1>5 DEF OneByOne
<1> HIDE DEF Next1
<1>8. Totals(it, counts, S, Cardinality(S))
  BY <1>2
<1>9. sum[S] = it[S]
  BY <1>7, <1>8, SumsAgree
<1>10. QED
  BY <1>6, <1>8, <1>9

(* The total of a sum of counts is the sum of their totals.                *)
LEMMA TotalPlus ==
    ASSUME NEW V, NEW f \in [V -> Nat], NEW g \in [V -> Nat], NEW S \in SUBSET V,
           IsFiniteSet(S)
    PROVE  /\ Total(f, S) \in Nat /\ Total(g, S) \in Nat
           /\ Total(Plus(f, g), S) = Total(f, S) + Total(g, S)
<1> DEFINE h == Plus(f, g)
<1>1. h \in [V -> Nat] /\ \A x \in V : h[x] = f[x] + g[x]
  BY DEF Plus
<1> HIDE DEF h
<1>2. PICK F : Totals(F, f, S, Cardinality(S)) /\ Total(f, S) = F[S]
  BY TotalIsTotal
<1>3. PICK G : Totals(G, g, S, Cardinality(S)) /\ Total(g, S) = G[S]
  BY TotalIsTotal
<1>4. PICK H : Totals(H, h, S, Cardinality(S)) /\ Total(h, S) = H[S]
  BY <1>1, TotalIsTotal
<1>5. \A s \in SUBSET S : Cardinality(s) \in Nat /\ Cardinality(s) <= Cardinality(S)
  BY FS_Subset, FS_CardinalityType
<1>6. F \in [SUBSET S -> Nat] /\ G \in [SUBSET S -> Nat]
  BY <1>2, <1>3 DEF Totals
<1> DEFINE Q == {m \in Nat : \A s \in SUBSET S : Cardinality(s) = m => H[s] = F[s] + G[s]}
<1>7. 0 \in Q
  <2> SUFFICES ASSUME NEW s \in SUBSET S, Cardinality(s) = 0 PROVE H[s] = F[s] + G[s]
    OBVIOUS
  <2>1. s = {}
    <3>1. Cardinality(s) <= 0
      OBVIOUS
    <3>2. QED
      BY <3>1, NoneLeft
  <2>2. F[s] = 0 /\ G[s] = 0 /\ H[s] = 0
    BY <1>2, <1>3, <1>4, <1>5, <2>1 DEF Totals
  <2>3. QED
    BY <2>2
<1>8. ASSUME NEW m \in Q PROVE m + 1 \in Q
  <2>1. m \in Nat /\ \A s \in SUBSET S : Cardinality(s) = m => H[s] = F[s] + G[s]
    BY <1>8
  <2>2. SUFFICES ASSUME NEW s \in SUBSET S, Cardinality(s) = m + 1 PROVE H[s] = F[s] + G[s]
    BY <2>1
  <2> DEFINE x == Pick(s)
             r == s \ {Pick(s)}
  <2>3. s # {}
    <3>1. Cardinality(s) # 0 /\ Cardinality({}) = 0
      BY <2>1, <2>2, FS_EmptySet
    <3>2. QED
      BY <3>1
  <2>4. r \in SUBSET S /\ Cardinality(r) = m /\ x \in V
    BY <2>1, <2>2, <2>3, PickLeaves
  <2>5. /\ F[s] = f[x] + F[r] /\ G[s] = g[x] + G[r] /\ H[s] = h[x] + H[r]
    BY <1>2, <1>3, <1>4, <1>5, <2>3 DEF Totals
  <2> HIDE DEF x, r
  <2>6. H[r] = F[r] + G[r] /\ h[x] = f[x] + g[x]
    BY <1>1, <2>1, <2>4
  <2>7. F[r] \in Nat /\ G[r] \in Nat /\ f[x] \in Nat /\ g[x] \in Nat
    BY <1>6, <2>4
  <2>8. QED
    BY <2>5, <2>6, <2>7
<1> HIDE DEF Q
<1>9. Q \in SUBSET Nat /\ Cardinality(S) \in Nat
  BY <1>5 DEF Q
<1>10. Cardinality(S) \in Q
  BY <1>7, <1>8, <1>9, SetInduction
<1>11. H[S] = F[S] + G[S]
  BY <1>10 DEF Q
<1>12. QED
  BY <1>2, <1>3, <1>4, <1>6, <1>11 DEF h

-----------------------------------------------------------------------------
(* Bins.                                                                   *)

(* Division with remainder.                                                *)
LEMMA QuotientRemainder ==
    ASSUME NEW a \in Int, NEW w \in Nat \ {0}
    PROVE  /\ a \div w \in Int /\ a % w \in Int /\ 0 <= a % w /\ a % w < w
           /\ a = w * (a \div w) + (a % w)
OBVIOUS

(* A quotient, by multiplication.                                          *)
LEMMA QuotientIs ==
    ASSUME NEW a \in Int, NEW w \in Nat \ {0}, NEW k \in Int
    PROVE  /\ a \div w \in Int
           /\ (a \div w = k) <=> (k * w <= a /\ a <= (k + 1) * w - 1)
<1> DEFINE q == a \div w
           m == a % w
<1>1. q \in Int /\ m \in Int /\ 0 <= m /\ m < w /\ a = w * q + m
  BY QuotientRemainder
<1> HIDE DEF q, m
<1>2. w * q = q * w /\ q * w \in Int /\ k * w \in Int /\ (k + 1) * w = k * w + w
      /\ (q + 1) * w = q * w + w /\ (k - q) * w = k * w - q * w
  BY <1>1
<1>3. q = k => k * w <= a /\ a <= (k + 1) * w - 1
  BY <1>1, <1>2
<1>4. q < k => (q + 1) * w <= k * w
  BY <1>1
<1>5. k < q => (k + 1) * w <= q * w
  BY <1>1
<1>6. k * w <= a /\ a <= (k + 1) * w - 1 => q = k
  BY <1>1, <1>2, <1>4, <1>5
<1>7. QED
  BY <1>1, <1>3, <1>6 DEF q

(* The bins divide the range.                                              *)
LEMMA WidthDivides ==
    /\ bin_width \in Nat \ {0} /\ num_bins \in Nat \ {0}
    /\ start_val \in Int /\ end_val \in Int
    /\ num_bins * bin_width = end_val - start_val
<1> DEFINE d == end_val - start_val
           w == d \div num_bins
<1>1. d \in Int /\ num_bins \in Nat \ {0} /\ d >= num_bins /\ d % num_bins = 0
  BY HistoAssumption
<1> HIDE DEF d
<1>2. w \in Int /\ d = num_bins * w + (d % num_bins)
  BY <1>1, QuotientRemainder
<1> HIDE DEF w
<1>3. d = num_bins * w
  BY <1>1, <1>2
<1>4. w > 0
  <2>1. SUFFICES ASSUME w <= 0 PROVE FALSE
    BY <1>2
  <2>2. num_bins * w <= 0
    BY <1>1, <1>2, <2>1
  <2>3. QED
    BY <1>1, <1>3, <2>2
<1>5. QED
  BY <1>1, <1>2, <1>3, <1>4, HistoAssumption DEF bin_width, w, d

(* UpdateHistoBins puts a value into the bin whose label names it.         *)
LEMMA LabelledIsIndexed ==
    ASSUME NEW b \in Bins PROVE Labelled(b) = {v \in Values : BinIndex(v) = b}
<1> DEFINE w == bin_width
           n == num_bins
<1>1. /\ w \in Nat \ {0} /\ n \in Nat \ {0} /\ start_val \in Int /\ end_val \in Int
      /\ n * w = end_val - start_val /\ n * w \in Int
  BY WidthDivides
<1>2. b \in Int /\ b >= 0 /\ b <= n + 1
  BY <1>1 DEF Bins
<1>3. ASSUME NEW v \in Values PROVE (v \in Labelled(b)) <=> (BinIndex(v) = b)
  <2> DEFINE a == v - start_val
             q == a \div w
  <2>1. v \in Int /\ a \in Int
    BY <1>1, HistoAssumption
  <2>2. q \in Int /\ \A k \in Int : (q = k) <=> (k * w <= a /\ a <= (k + 1) * w - 1)
    BY <1>1, <2>1, QuotientIs
  <2>3. BinIndex(v) = IF v < start_val THEN 0
                      ELSE IF v > end_val THEN n + 1 ELSE q + 1
    <3> HIDE DEF w, n
    <3> DEFINE p == (v - start_val) \div bin_width
    <3>1. BinIndex(v) = CASE v < start_val -> 0 [] v > end_val -> num_bins + 1
                          [] OTHER -> p + 1
      BY DEF BinIndex
    <3> HIDE DEF p
    <3>2. BinIndex(v) = IF v < start_val THEN 0
                        ELSE IF v > end_val THEN num_bins + 1 ELSE p + 1
      BY <1>1, <2>1, <3>1
    <3>3. QED
      BY <3>2 DEF p, w, n
  <2>4. v \in Labelled(b) <=> IF b = 0 THEN v < start_val
                              ELSE IF b = n + 1 THEN v >= end_val
                              ELSE v \in start_val + (b - 1) * w .. start_val + b * w - 1
    <3> DEFINE I == start_val + (b - 1) * bin_width .. start_val + b * bin_width - 1
    <3>1. v \in Labelled(b) <=> CASE b = 0 -> v < start_val
                                  [] b = num_bins + 1 -> v >= end_val
                                  [] OTHER -> v \in I
      BY DEF Labelled
    <3> HIDE DEF I
    <3>2. b = 0 => b # num_bins + 1
      BY <1>1
    <3>3. QED
      BY <3>1, <3>2 DEF I
  <2> HIDE DEF q, w, n
  <2>5. v >= start_val => q >= 0
    <3> SUFFICES ASSUME v >= start_val, q < 0 PROVE FALSE
      BY <2>2
    <3>1. q * w <= a /\ a <= (q + 1) * w - 1
      BY <2>2
    <3>2. (q + 1) * w <= 0
      BY <1>1, <2>2
    <3>3. (q + 1) * w \in Int
      BY <1>1, <2>2
    <3>4. QED
      BY <1>1, <2>1, <3>1, <3>2, <3>3
  <2>6. v < end_val => q < n
    <3> SUFFICES ASSUME v < end_val, q >= n PROVE FALSE
      BY <1>1, <2>2
    <3>1. q * w <= a /\ q * w \in Int
      BY <1>1, <2>2
    <3>2. n * w <= q * w
      BY <1>1, <2>2
    <3>3. QED
      BY <1>1, <2>1, <3>1, <3>2
  <2>7. v = end_val => q = n
    <3>1. n * w <= n * w /\ n * w <= (n + 1) * w - 1
      BY <1>1
    <3>2. QED
      BY <1>1, <2>1, <2>2, <3>1
  <2>8. CASE b = 0
    BY <1>1, <2>1, <2>2, <2>3, <2>4, <2>5, <2>8
  <2>9. CASE b = n + 1
    <3>1. v >= end_val => v >= start_val
      <4>1. n * w >= 0
        BY <1>1
      <4>2. QED
        BY <1>1, <2>1, <4>1
    <3>2. CASE v > end_val
      BY <1>1, <2>1, <2>3, <2>4, <2>9, <3>1, <3>2
    <3>3. CASE v = end_val
      BY <1>1, <2>1, <2>3, <2>4, <2>7, <2>9, <3>1, <3>3
    <3>4. CASE v < end_val
      BY <1>1, <2>1, <2>2, <2>3, <2>4, <2>6, <2>9, <3>4
    <3>5. QED
      BY <1>1, <2>1, <3>2, <3>3, <3>4
  <2>10. CASE b # 0 /\ b # n + 1
    <3> DEFINE k == b - 1
    <3>1. k \in Int /\ k >= 0 /\ k <= n - 1 /\ k + 1 = b
      BY <1>1, <1>2, <2>10
    <3> HIDE DEF k
    <3>2. (q = k) <=> (k * w <= a /\ a <= (k + 1) * w - 1)
      BY <2>2, <3>1
    <3>3. k * w \in Int /\ (k + 1) * w \in Int /\ k * w >= 0 /\ (k + 1) * w <= n * w
      BY <1>1, <3>1
    <3>4. v \in Labelled(b) <=> v \in start_val + k * w .. start_val + (k + 1) * w - 1
      BY <2>4, <2>10, <3>1 DEF k
    <3>5. v \in Labelled(b) <=> q = k
      BY <1>1, <2>1, <3>2, <3>3, <3>4
    <3>6. q = k => ~(v < start_val) /\ ~(v > end_val)
      BY <1>1, <2>1, <3>2, <3>3
    <3>7. QED
      BY <1>1, <2>1, <2>2, <2>3, <2>10, <3>1, <3>5, <3>6
  <2>11. QED
    BY <2>8, <2>9, <2>10
<1>4. QED
  BY <1>3 DEF Labelled

(* The bins of a sum of counts are the sums of their bins.                 *)
LEMMA BinsPlus ==
    ASSUME NEW f \in HistoType, NEW g \in HistoType
    PROVE  /\ EpochBins(f) \in [Bins -> Nat] /\ EpochBins(g) \in [Bins -> Nat]
           /\ EpochBins(Plus(f, g)) = Plus(EpochBins(f), EpochBins(g))
<1> DEFINE In(b) == {v \in Values : BinIndex(v) = b}
<1>1. ASSUME NEW b \in Bins
      PROVE  /\ Total(f, In(b)) \in Nat /\ Total(g, In(b)) \in Nat
             /\ Total(Plus(f, g), In(b)) = Total(f, In(b)) + Total(g, In(b))
  <2>1. In(b) \in SUBSET Values /\ IsFiniteSet(Values)
    BY HistoAssumption
  <2> HIDE DEF In
  <2>2. IsFiniteSet(In(b))
    BY <2>1, FS_Subset
  <2>3. QED
    BY <2>1, <2>2, TotalPlus DEF HistoType
<1>2. \A h : EpochBins(h) = [b \in Bins |-> Total(h, In(b))]
  BY DEF EpochBins
<1> HIDE DEF In
<1>3. QED
  BY <1>1, <1>2 DEF Plus

(* No values, no bins.                                                     *)
LEMMA NoValuesNoBins == EpochBins(NoValues) = NoBins
<1> DEFINE e == EpochBins(NoValues)
<1>1. Plus(NoValues, NoValues) = NoValues
  BY DEF Plus, NoValues
<1>2. e \in [Bins -> Nat] /\ e = Plus(e, e)
  BY <1>1, ZeroTypes, BinsPlus
<1> HIDE DEF e
<1>3. \A b \in Bins : e[b] = e[b] + e[b] /\ e[b] \in Nat
  BY <1>2 DEF Plus
<1>4. \A b \in Bins : e[b] = 0
  BY <1>3
<1>5. QED
  BY <1>2, <1>4 DEF NoBins, e

(* The vectors of bins have their types; until the first Reset and the     *)
(* final report the overall bins and those of the running epoch are those  *)
(* of all values; and the last report was right when it was made.          *)
BinsExact ==
    /\ histo_bins_ \in [Bins -> Nat] /\ resets \in Nat
    /\ ~printed /\ resets = 0 =>
         Plus(histo_bins_, EpochBins(epoch_histo_counts_)) = EpochBins(added)
    /\ report.kind = "epoch" => report.bins = EpochBins(reported.added)
    /\ report.kind = "final" /\ resets = 0 => report.bins = EpochBins(reported.added)

(* A new object.                                                           *)
LEMMA InitBins == StatsInit => BinsExact
<1> SUFFICES ASSUME StatsInit PROVE BinsExact
  OBVIOUS
<1>1. NoBins \in [Bins -> Nat] /\ Plus(NoBins, NoBins) = NoBins
  BY DEF NoBins, Plus
<1>2. QED
  BY <1>1, NoValuesNoBins DEF StatsInit, BinsExact

(* One more value.                                                         *)
LEMMA AddValueBins ==
    ASSUME StatsInv, BinsExact, NEW value \in Values, AddValue(value)
    PROVE  BinsExact'
<1> DEFINE one == [v \in Values |-> IF v = value THEN 1 ELSE 0]
           e == EpochBins(epoch_histo_counts_)
           a == EpochBins(added)
           o == EpochBins(one)
<1>1. /\ epoch_histo_counts_ \in HistoType /\ added \in HistoType /\ one \in HistoType
      /\ histo_bins_ \in [Bins -> Nat]
  BY DEF StatsInv, Types, HistoType, BinsExact
<1>2. epoch_histo_counts_' = Plus(epoch_histo_counts_, one) /\ added' = Plus(added, one)
  <2>1. ASSUME NEW f \in HistoType PROVE [f EXCEPT ![value] = @ + 1] = Plus(f, one)
    <3> DEFINE h == [f EXCEPT ![value] = @ + 1]
               p == Plus(f, one)
    <3>1. f \in [Values -> Nat]
      BY DEF HistoType
    <3>2. p = [v \in Values |-> f[v] + one[v]]
      BY <3>1 DEF Plus
    <3>3. \A v \in Values : one[v] = IF v = value THEN 1 ELSE 0
      OBVIOUS
    <3> HIDE DEF one, p
    <3>4. \A v \in Values : h[v] = f[v] + one[v]
      BY <3>1, <3>3
    <3>5. h = p
      BY <3>1, <3>2, <3>4
    <3>6. QED
      BY <3>5 DEF p
  <2>2. QED
    BY <1>1, <2>1 DEF AddValue
<1> HIDE DEF one
<1>3. EpochBins(epoch_histo_counts_)' = Plus(e, o) /\ EpochBins(added)' = Plus(a, o)
  <2>1. /\ EpochBins(Plus(epoch_histo_counts_, one)) = Plus(e, o)
        /\ EpochBins(Plus(added, one)) = Plus(a, o)
    BY <1>1, BinsPlus
  <2>2. /\ EpochBins(epoch_histo_counts_)' = EpochBins(epoch_histo_counts_')
        /\ EpochBins(added)' = EpochBins(added')
    BY DEF EpochBins
  <2>3. QED
    BY <1>2, <2>1, <2>2
<1>4. e \in [Bins -> Nat] /\ a \in [Bins -> Nat] /\ o \in [Bins -> Nat]
  BY <1>1, BinsPlus
<1> HIDE DEF e, a, o
<1>5. Plus(histo_bins_, e) = a => Plus(histo_bins_, Plus(e, o)) = Plus(a, o)
  <2> SUFFICES ASSUME Plus(histo_bins_, e) = a
               PROVE  Plus(histo_bins_, Plus(e, o)) = Plus(a, o)
    OBVIOUS
  <2>1. \A b \in Bins : a[b] = histo_bins_[b] + e[b]
    BY <1>1 DEF Plus
  <2>2. \A b \in Bins : histo_bins_[b] + (e[b] + o[b]) = a[b] + o[b]
    BY <1>1, <1>4, <2>1
  <2>3. QED
    BY <1>1, <1>4, <2>2 DEF Plus
<1>6. UNCHANGED <<histo_bins_, report, reported, printed, resets>>
  BY DEF AddValue
<1>7. EpochBins(reported.added)' = EpochBins(reported.added)
  BY <1>6 DEF EpochBins
<1>8. QED
  BY <1>3, <1>5, <1>6, <1>7 DEF BinsExact, e, a

(* The report of an epoch.                                                 *)
LEMMA PrintEpochBins ==
    ASSUME StatsInv, BinsExact, PrintEpochStats PROVE BinsExact'
<1> DEFINE e == EpochBins(epoch_histo_counts_)
<1>1. /\ epoch_histo_bins_' = e /\ histo_bins_' = Plus(histo_bins_, e)
      /\ epoch_histo_counts_' = NoValues
      /\ report'.kind = "epoch" /\ report'.bins = e
  BY DEF PrintEpochStats, UpdateEpochStats, UpdateHistoBins, NewEpoch, UpdatePrints
<1>2. UNCHANGED <<added, printed, resets>> /\ reported'.added = epoch_added
  BY DEF PrintEpochStats
<1>3. /\ epoch_histo_counts_ = epoch_added /\ epoch_histo_counts_ \in HistoType
      /\ histo_bins_ \in [Bins -> Nat]
  BY DEF StatsInv, EpochExact, Types, BinsExact
<1>4. e \in [Bins -> Nat]
  BY <1>3, BinsPlus
<1>5. EpochBins(reported.added)' = e
  <2>1. EpochBins(reported.added)' = EpochBins(reported'.added)
    BY DEF EpochBins
  <2>2. QED
    BY <1>2, <1>3, <2>1
<1>6. EpochBins(epoch_histo_counts_)' = NoBins /\ EpochBins(added)' = EpochBins(added)
  <2>1. /\ EpochBins(epoch_histo_counts_)' = EpochBins(epoch_histo_counts_')
        /\ EpochBins(added)' = EpochBins(added')
    BY DEF EpochBins
  <2>2. QED
    BY <1>1, <1>2, <2>1, NoValuesNoBins
<1> HIDE DEF e
<1>7. histo_bins_' \in [Bins -> Nat] /\ Plus(histo_bins_', NoBins) = histo_bins_'
  <2>1. Plus(histo_bins_, e) \in [Bins -> Nat]
    BY <1>3, <1>4, PlusType
  <2>2. Plus(Plus(histo_bins_, e), NoBins) = Plus(histo_bins_, e)
    BY <2>1, PlusZero DEF NoBins
  <2>3. QED
    BY <1>1, <2>1, <2>2
<1>8. QED
  BY <1>1, <1>2, <1>5, <1>6, <1>7 DEF BinsExact, e

(* The final report.                                                       *)
LEMMA PrintFinalBins ==
    ASSUME StatsInv, BinsExact, PrintFinalStats PROVE BinsExact'
<1> DEFINE e == EpochBins(epoch_histo_counts_)
<1>1. /\ histo_bins_' = Plus(histo_bins_, e)
      /\ report'.kind = "final" /\ report'.bins = histo_bins_'
  BY DEF PrintFinalStats, UpdateFinalStats, UpdateHistoBins, UpdatePrints
<1>2. /\ ~printed /\ printed' = TRUE /\ resets' = resets /\ reported'.added = added
  BY DEF PrintFinalStats
<1>3. e \in [Bins -> Nat] /\ histo_bins_ \in [Bins -> Nat]
  BY BinsPlus DEF StatsInv, Types, BinsExact
<1>4. histo_bins_' \in [Bins -> Nat]
  BY <1>1, <1>3, PlusType
<1>5. EpochBins(reported.added)' = EpochBins(added)
  <2>1. EpochBins(reported.added)' = EpochBins(reported'.added)
    BY DEF EpochBins
  <2>2. QED
    BY <1>2, <2>1
<1>6. resets = 0 => histo_bins_' = EpochBins(added)
  BY <1>1, <1>2 DEF BinsExact
<1>7. QED
  BY <1>1, <1>2, <1>4, <1>5, <1>6 DEF BinsExact

(* Every call keeps the bins right.                                        *)
LEMMA NextBins == StatsInv /\ BinsExact /\ [StatsNext]_statsVars => BinsExact'
<1> SUFFICES ASSUME StatsInv, BinsExact, [StatsNext]_statsVars PROVE BinsExact'
  OBVIOUS
<1>1. ASSUME UNCHANGED <<epoch_histo_counts_, histo_bins_, report, added, reported, printed, resets>>
      PROVE  BinsExact'
  <2>1. /\ EpochBins(reported.added)' = EpochBins(reported.added)
        /\ EpochBins(epoch_histo_counts_)' = EpochBins(epoch_histo_counts_)
        /\ EpochBins(added)' = EpochBins(added)
    BY <1>1 DEF EpochBins
  <2>2. QED
    BY <1>1, <2>1 DEF BinsExact
<1>2. CASE UNCHANGED statsVars
  BY <1>1, <1>2 DEF statsVars, members, history
<1>3. ASSUME NEW name \in Counters, Increment(name) PROVE BinsExact'
  BY <1>1, <1>3 DEF Increment
<1>4. CASE Reset
  <2>1. /\ UNCHANGED <<histo_bins_, report, reported>> /\ resets' = resets + 1
    BY <1>4 DEF Reset
  <2>2. EpochBins(reported.added)' = EpochBins(reported.added)
    BY <2>1 DEF EpochBins
  <2>3. resets' \in Nat /\ resets' # 0
    BY <2>1 DEF BinsExact
  <2>4. QED
    BY <2>1, <2>2, <2>3 DEF BinsExact
<1>5. QED
  BY <1>2, <1>3, <1>4, AddValueBins, PrintEpochBins, PrintFinalBins DEF StatsNext

(***************************************************************************)
(* For every number and width of the bins and every set of values, each    *)
(* value is counted in the bin whose label names it, the bounds of the     *)
(* range included (BinsLabelled).                                          *)
(***************************************************************************)
THEOREM BinsMatchLabels == StatsSpec => []BinsLabelled
<1>1. BinsExact => BinsLabelled
  <2> SUFFICES ASSUME BinsExact, NEW b \in Bins,
                      report.kind = "epoch" \/ (report.kind = "final" /\ resets = 0)
               PROVE  report.bins[b] = Total(reported.added, Labelled(b))
    BY DEF BinsLabelled
  <2>1. report.bins = EpochBins(reported.added)
    BY DEF BinsExact
  <2>2. EpochBins(reported.added)[b]
          = Total(reported.added, {v \in Values : BinIndex(v) = b})
    BY DEF EpochBins
  <2>3. QED
    BY <2>1, <2>2, LabelledIsIndexed
<1>2. QED
  BY <1>1, InitStats, NextStats, InitBins, NextBins, PTL DEF StatsSpec

-----------------------------------------------------------------------------
(* The ideal DRAM system.                                                  *)

(* p are the powers of two up to the k-th.                                 *)
Doubles(p, k) == p = [i \in 0 .. k |-> IF i = 0 THEN 1 ELSE 2 * p[i - 1]]

(* Every such table exists.                                                *)
LEMMA DoublesExist == ASSUME NEW k \in Nat PROVE \E p : Doubles(p, k)
<1> DEFINE S == [i \in 0 .. k |-> Nat]
           F == [z \in Nat \X (1 .. k) |-> 2 * z[1]]
<1>1. 1 \in S[0]
  OBVIOUS
<1>2. \A i \in 1 .. k : i - 1 \in 0 .. k /\ S[i - 1] = Nat /\ S[i] = Nat
  OBVIOUS
<1>3. \A i \in 1 .. k : \A u \in Nat : F[<<u, i>>] = 2 * u
  OBVIOUS
<1> HIDE DEF S, F
<1>4. Passes(k, S, F)
  <2> SUFFICES ASSUME NEW i \in 1 .. k, NEW u \in S[i - 1] PROVE F[<<u, i>>] \in S[i]
    BY DEF Passes
  <2>1. u \in Nat /\ F[<<u, i>>] = 2 * u /\ S[i] = Nat
    BY <1>2, <1>3
  <2>2. QED
    BY <2>1
<1>5. PICK p : Run(p, k, 1, S, F)
  BY <1>1, <1>4, LoopRuns
<1>6. p = [i \in 0 .. k |-> p[i]] /\ p[0] = 1
  BY <1>5 DEF Run
<1>7. ASSUME NEW i \in 0 .. k PROVE p[i] = IF i = 0 THEN 1 ELSE 2 * p[i - 1]
  <2>1. CASE i = 0
    BY <1>6, <2>1
  <2>2. CASE i # 0
    <3>1. i \in 1 .. k /\ i - 1 \in 0 .. k
      BY <2>2
    <3>2. p[i - 1] \in Nat /\ p[i] = F[<<p[i - 1], i>>]
      BY <1>2, <1>5, <3>1 DEF Run
    <3>3. QED
      BY <1>3, <2>2, <3>1, <3>2
  <2>3. QED
    BY <2>1, <2>2
<1>8. QED
  BY <1>6, <1>7 DEF Doubles

(* Two tables of powers agree as far as both go.                           *)
LEMMA DoublesAgree ==
    ASSUME NEW k \in Nat, NEW p, Doubles(p, k), NEW r, Doubles(r, k + 1)
    PROVE  p[k] \in Nat /\ r[k] = p[k]
<1> DEFINE P == {i \in Nat : i <= k => p[i] \in Nat /\ r[i] = p[i]}
<1>1. /\ \A i \in 0 .. k : p[i] = IF i = 0 THEN 1 ELSE 2 * p[i - 1]
      /\ \A i \in 0 .. k + 1 : r[i] = IF i = 0 THEN 1 ELSE 2 * r[i - 1]
  BY DEF Doubles
<1>2. 0 \in P
  BY <1>1
<1>3. \A i \in P : i + 1 \in P
  <2> SUFFICES ASSUME NEW i \in P, i + 1 <= k
               PROVE  p[i + 1] \in Nat /\ r[i + 1] = p[i + 1]
    OBVIOUS
  <2>1. i + 1 \in 0 .. k /\ i + 1 \in 0 .. k + 1 /\ i + 1 # 0 /\ (i + 1) - 1 = i
    OBVIOUS
  <2>2. p[i + 1] = 2 * p[i] /\ r[i + 1] = 2 * r[i]
    BY <1>1, <2>1
  <2>3. p[i] \in Nat /\ r[i] = p[i]
    BY <2>1
  <2>4. QED
    BY <2>2, <2>3
<1>4. P \in SUBSET Nat
  OBVIOUS
<1> HIDE DEF P
<1>5. k \in P
  BY <1>2, <1>3, <1>4, SetInduction
<1>6. QED
  BY <1>5 DEF P

(* Pow2 is the table that CHOOSE takes.                                    *)
LEMMA Pow2Is == ASSUME NEW k \in Nat PROVE \E p : Doubles(p, k) /\ Pow2(k) = p[k]
<1> DEFINE p == CHOOSE p : Doubles(p, k)
<1>1. Doubles(p, k)
  BY DoublesExist
<1>2. Pow2(k) = p[k]
  BY DEF Pow2, Doubles
<1>3. QED
  BY <1>1, <1>2

(* Pow2 doubles at every step.                                            *)
LEMMA Pow2Doubles ==
    ASSUME NEW k \in Nat
    PROVE  Pow2(0) = 1 /\ Pow2(k) \in Nat /\ Pow2(k + 1) = 2 * Pow2(k)
<1>1. Pow2(0) = 1
  <2>1. PICK z : Doubles(z, 0) /\ Pow2(0) = z[0]
    BY Pow2Is
  <2>2. QED
    BY <2>1 DEF Doubles
<1>2. PICK p : Doubles(p, k) /\ Pow2(k) = p[k]
  BY Pow2Is
<1>3. k + 1 \in Nat
  OBVIOUS
<1>4. PICK r : Doubles(r, k + 1) /\ Pow2(k + 1) = r[k + 1]
  BY <1>3, Pow2Is
<1>5. p[k] \in Nat /\ r[k] = p[k]
  BY <1>2, <1>4, DoublesAgree
<1>6. r[k + 1] = 2 * r[k]
  BY <1>4 DEF Doubles
<1>7. QED
  BY <1>1, <1>2, <1>4, <1>5, <1>6

EntryType == [trans : Requests, age : Nat]

(* A cycle passes for an entry that stays.                                 *)
LEMMA OlderType ==
    ASSUME NEW e \in EntryType
    PROVE  /\ e.trans \in Requests /\ e.age \in Nat
           /\ Older(e) \in EntryType
           /\ Older(e).trans = e.trans /\ Older(e).age = e.age + 1
<1>1. e.trans \in Requests /\ e.age \in Nat
  BY DEF EntryType
<1>2. Older(e) = [e EXCEPT !.age = e.age + 1]
  BY DEF Older
<1> DEFINE a == e.age + 1
<1>3. a \in Nat
  BY <1>1
<1> HIDE DEF a
<1>4. Older(e) = [e EXCEPT !.age = a]
  BY <1>2 DEF a
<1>5. Older(e) \in EntryType /\ Older(e).trans = e.trans /\ Older(e).age = a
  BY <1>3, <1>4 DEF EntryType
<1>6. QED
  BY <1>1, <1>5 DEF a

(* S are positions the loop may have erased after n turns: a position is   *)
(* erased if it is due and the one before it stays.                        *)
Erases(q, S, n) ==
    /\ S \in SUBSET (1 .. n)
    /\ \A i \in 1 .. n : i \in S <=> Due(q, i) /\ i - 1 \notin S

(* Served are the positions the whole loop erases.                         *)
LEMMA ServedErases ==
    ASSUME NEW q \in Seq(EntryType)
    PROVE  Erases(q, Served(q), Len(q))
<1> DEFINE n == Len(q)
           S == [i \in 0 .. n |-> {u \in SUBSET (1 .. i) : Erases(q, u, i)}]
           Step(u, i) == IF i - 1 \notin u /\ Due(q, i) THEN u \cup {i} ELSE u
           F == [z \in (SUBSET (1 .. n)) \X (1 .. n) |-> Step(z[1], z[2])]
           Turn(f) == [i \in 0 .. n |-> IF i = 0 THEN {} ELSE Step(f[i - 1], i)]
<1>1. n \in Nat
  OBVIOUS
<1> HIDE DEF n
<1>2. {} \in S[0]
  BY <1>1 DEF Erases
<1>3. \A i \in 1 .. n : \A u \in S[i - 1] : u \in SUBSET (1 .. n) /\ Step(u, i) \in S[i]
  <2> SUFFICES ASSUME NEW i \in 1 .. n, NEW u \in S[i - 1]
               PROVE  u \in SUBSET (1 .. n) /\ Step(u, i) \in S[i]
    OBVIOUS
  <2>1. i - 1 \in 0 .. n /\ i \in 0 .. n
    BY <1>1
  <2>2. u \in SUBSET (1 .. i - 1) /\ Erases(q, u, i - 1)
    BY <2>1
  <2> DEFINE w == Step(u, i)
  <2>3. w \in SUBSET (1 .. i) /\ i \notin u
    BY <2>1, <2>2
  <2>4. \A j \in 1 .. i - 1 : (j \in w <=> j \in u) /\ (j - 1 \in w <=> j - 1 \in u)
    BY <2>1, <2>2
  <2>5. i \in w <=> Due(q, i) /\ i - 1 \notin w
    BY <2>1, <2>2, <2>3
  <2> HIDE DEF w
  <2>6. \A j \in 1 .. i : j \in w <=> Due(q, j) /\ j - 1 \notin w
    <3> SUFFICES ASSUME NEW j \in 1 .. i PROVE j \in w <=> Due(q, j) /\ j - 1 \notin w
      OBVIOUS
    <3>1. CASE j = i
      BY <2>5, <3>1
    <3>2. CASE j # i
      <4>1. j \in 1 .. i - 1
        BY <2>1, <3>2
      <4>2. j \in u <=> Due(q, j) /\ j - 1 \notin u
        BY <2>2, <4>1 DEF Erases
      <4>3. QED
        BY <2>4, <4>1, <4>2
    <3>3. QED
      BY <3>1, <3>2
  <2>7. w \in S[i]
    BY <2>1, <2>3, <2>6 DEF Erases
  <2>8. u \in SUBSET (1 .. n)
    BY <1>1, <2>1, <2>2
  <2>9. QED
    BY <2>7, <2>8 DEF w
<1>4. \A u \in S[n] : Erases(q, u, n)
  BY <1>1
<1> HIDE DEF S, Step
<1>5. \E f : f = Turn(f)
  <2>1. \A i \in 1 .. n : \A u \in S[i - 1] : F[<<u, i>>] = Step(u, i)
    BY <1>3
  <2> HIDE DEF F
  <2>2. Passes(n, S, F)
    <3> SUFFICES ASSUME NEW turn \in 1 .. n, NEW old \in S[turn - 1]
                 PROVE  F[<<old, turn>>] \in S[turn]
      BY DEF Passes
    <3>1. QED
      BY <1>3, <2>1
  <2>3. PICK f : Run(f, n, {}, S, F)
    BY <1>1, <1>2, <2>2, LoopRuns
  <2>4. f = [i \in 0 .. n |-> f[i]] /\ f[0] = {}
    BY <2>3 DEF Run
  <2>5. ASSUME NEW i \in 1 .. n PROVE f[i] = Step(f[i - 1], i)
    <3>1. i - 1 \in 0 .. n
      BY <1>1
    <3>2. f[i - 1] \in S[i - 1] /\ f[i] = F[<<f[i - 1], i>>]
      BY <2>3, <3>1 DEF Run
    <3>3. QED
      BY <2>1, <3>2
  <2>6. ASSUME NEW i \in 0 .. n PROVE f[i] = IF i = 0 THEN {} ELSE Step(f[i - 1], i)
    <3>1. i = 0 \/ (i # 0 /\ i \in 1 .. n)
      BY <1>1
    <3>2. QED
      BY <2>4, <2>5, <3>1
  <2>7. f = Turn(f)
    BY <2>4, <2>6
  <2>8. QED
    BY <2>7
<1> DEFINE last == CHOOSE f : f = Turn(f)
<1>6. last = Turn(last)
  BY <1>5
<1>7. Served(q) = last[n]
  BY DEF Served, Step, n
<1> HIDE DEF last
<1>8. last[0] = {} /\ \A i \in 1 .. n : last[i] = Step(last[i - 1], i)
  <2>1. \A i \in 0 .. n : last[i] = Turn(last)[i]
    BY <1>6
  <2>2. last[0] = {}
    BY <1>1, <2>1
  <2>3. ASSUME NEW i \in 1 .. n PROVE last[i] = Step(last[i - 1], i)
    <3>1. i \in 0 .. n /\ i # 0
      BY <1>1
    <3>2. QED
      BY <2>1, <3>1
  <2>4. QED
    BY <2>2, <2>3
<1>9. Keeps(last, n, S)
  BY <1>3, <1>8 DEF Keeps
<1>10. \A i \in 0 .. n : last[i] \in S[i]
  BY <1>1, <1>2, <1>8, <1>9, LoopKeeps
<1>11. n \in 0 .. n
  BY <1>1
<1>12. QED
  BY <1>4, <1>7, <1>10, <1>11 DEF n

(* The positions of t, and those among the first i that are not in S.      *)
At(w, t)            == {k \in DOMAIN w : w[k].trans = t}
Staying(q, S, i, t) == {j \in 1 .. i : j \notin S /\ q[j].trans = t}

(* w holds as many of t as stay of the first i of q.                       *)
Holds(q, S, w, i) ==
    \A t \in Requests : Cardinality(At(w, t)) = Cardinality(Staying(q, S, i, t))

(* The buffer is in the order of arrival.                                  *)
AgesFall(q) == \A i, j \in 1 .. Len(q) : i <= j => q[j].age <= q[i].age

(* w are the first i of q without those in S: what is overdue is at most   *)
(* half as far from the front as it was.                                   *)
Moved(q, S, w, i) ==
    /\ \A k \in 1 .. Len(w) : \E j \in 1 .. i : /\ w[k].age = q[j].age + 1
                                                /\ Due(q, j) => 2 * k <= j
    /\ AgesFall(w)
    /\ (\A j \in 1 .. i : Due(q, j)) => /\ 2 * Len(w) <= i
                                        /\ i \in S => 2 * Len(w) <= i - 1

(* An element that stays is one more of its request.                       *)
LEMMA HoldsStep ==
    ASSUME NEW q \in Seq(EntryType), NEW S, NEW w \in Seq(EntryType),
           NEW i \in 1 .. Len(q), Holds(q, S, w, i - 1)
    PROVE  /\ i \in S => Holds(q, S, w, i)
           /\ i \notin S => Holds(q, S, Append(w, Older(q[i])), i)
<1>1. i - 1 \in Nat /\ i \in Nat
  OBVIOUS
<1>2. ASSUME i \in S, NEW t PROVE Staying(q, S, i, t) = Staying(q, S, i - 1, t)
  BY <1>1, <1>2 DEF Staying
<1>3. ASSUME i \in S PROVE Holds(q, S, w, i)
  BY <1>2, <1>3 DEF Holds
<1>4. ASSUME i \notin S PROVE Holds(q, S, Append(w, Older(q[i])), i)
  <2> DEFINE e == Older(q[i])
             y == Append(w, e)
  <2>1. q[i] \in EntryType
    OBVIOUS
  <2>2. e \in EntryType /\ e.trans = q[i].trans
    BY <2>1, OlderType
  <2> HIDE DEF e
  <2>3. /\ DOMAIN w = 1 .. Len(w) /\ Len(w) \in Nat
        /\ DOMAIN y = DOMAIN w \cup {Len(w) + 1} /\ Len(w) + 1 \notin DOMAIN w
        /\ y[Len(w) + 1] = e /\ \A k \in DOMAIN w : y[k] = w[k]
    BY <2>2
  <2> HIDE DEF y
  <2> SUFFICES ASSUME NEW t \in Requests
               PROVE  Cardinality(At(y, t)) = Cardinality(Staying(q, S, i, t))
    BY DEF y, e, Holds
  <2>4. IsFiniteSet(At(w, t)) /\ IsFiniteSet(Staying(q, S, i - 1, t))
    <3>1. IsFiniteSet(1 .. Len(w)) /\ IsFiniteSet(1 .. i - 1)
      BY <1>1, <2>3, FS_Interval
    <3>2. At(w, t) \in SUBSET (1 .. Len(w)) /\ Staying(q, S, i - 1, t) \in SUBSET (1 .. i - 1)
      BY <2>3 DEF At, Staying
    <3>3. QED
      BY <3>1, <3>2, FS_Subset
  <2>5. Cardinality(At(w, t)) = Cardinality(Staying(q, S, i - 1, t))
    BY DEF Holds
  <2>6. CASE q[i].trans = t
    <3>1. At(y, t) = At(w, t) \cup {Len(w) + 1} /\ Len(w) + 1 \notin At(w, t)
      BY <2>2, <2>3, <2>6 DEF At
    <3>2. /\ Staying(q, S, i, t) = Staying(q, S, i - 1, t) \cup {i}
          /\ i \notin Staying(q, S, i - 1, t)
      BY <1>1, <1>4, <2>6 DEF Staying
    <3>3. /\ Cardinality(At(y, t)) = Cardinality(At(w, t)) + 1
          /\ Cardinality(Staying(q, S, i, t)) = Cardinality(Staying(q, S, i - 1, t)) + 1
      BY <2>4, <3>1, <3>2, FS_AddElement, Zenon
    <3>4. QED
      BY <2>5, <3>3
  <2>7. CASE q[i].trans # t
    <3>1. At(y, t) = At(w, t)
      BY <2>2, <2>3, <2>7 DEF At
    <3>2. Staying(q, S, i, t) = Staying(q, S, i - 1, t)
      BY <1>1, <2>7 DEF Staying
    <3>3. QED
      BY <2>5, <3>1, <3>2
  <2>8. QED
    BY <2>6, <2>7
<1>5. QED
  BY <1>3, <1>4

(* An overdue request that stays follows one that leaves.                  *)
LEMMA MovedStep ==
    ASSUME NEW q \in Seq(EntryType), NEW S, Erases(q, S, Len(q)), AgesFall(q),
           NEW w \in Seq(EntryType), NEW i \in 1 .. Len(q), Moved(q, S, w, i - 1)
    PROVE  /\ i \in S => Moved(q, S, w, i)
           /\ i \notin S => Moved(q, S, Append(w, Older(q[i])), i)
<1>1. i - 1 \in Nat /\ i \in Nat /\ Len(w) \in Nat /\ latency_ \in Nat
  BY IdealAssumption
<1>2. \A j \in 1 .. i : q[j] \in EntryType /\ q[j].age \in Nat /\ q[i].age <= q[j].age
  <2> SUFFICES ASSUME NEW j \in 1 .. i
               PROVE  q[j] \in EntryType /\ q[j].age \in Nat /\ q[i].age <= q[j].age
    OBVIOUS
  <2>1. j \in 1 .. Len(q) /\ j <= i
    OBVIOUS
  <2>2. q[j] \in EntryType
    BY <2>1
  <2>3. QED
    BY <2>1, <2>2, OlderType DEF AgesFall
<1>3. Due(q, i) => \A j \in 1 .. i : Due(q, j)
  BY <1>1, <1>2 DEF Due
<1>4. i \in S => Due(q, i) /\ i - 1 \notin S
  BY DEF Erases
<1>5. i \notin S /\ Due(q, i) => i - 1 \in S
  BY DEF Erases
<1>6. (\A j \in 1 .. i : Due(q, j)) =>
        2 * Len(w) <= i - 1 /\ (i - 1 \in S => 2 * Len(w) <= (i - 1) - 1)
  BY <1>1 DEF Moved
<1>7. \A k \in 1 .. Len(w) : \E j \in 1 .. i : /\ w[k].age = q[j].age + 1
                                               /\ Due(q, j) => 2 * k <= j
  BY <1>1 DEF Moved
<1>8. AgesFall(w)
  BY DEF Moved
<1>9. ASSUME i \in S PROVE Moved(q, S, w, i)
  BY <1>1, <1>6, <1>7, <1>8 DEF Moved
<1>10. ASSUME i \notin S PROVE Moved(q, S, Append(w, Older(q[i])), i)
  <2> DEFINE e == Older(q[i])
             y == Append(w, e)
             n == Len(w)
  <2>1. e \in EntryType /\ e.age = q[i].age + 1
    BY <1>1, <1>2, OlderType
  <2> HIDE DEF e
  <2>2. /\ n \in Nat /\ Len(y) = n + 1 /\ y[n + 1] = e
        /\ \A k \in 1 .. n : y[k] = w[k] /\ w[k].age \in Nat
        /\ \A k \in 1 .. n + 1 : k \in 1 .. n \/ k = n + 1
    <3>1. \A k \in 1 .. n : w[k] \in EntryType
      OBVIOUS
    <3>2. \A k \in 1 .. n : w[k].age \in Nat
      BY <3>1, OlderType
    <3>3. /\ n \in Nat /\ Len(y) = n + 1 /\ y[n + 1] = e
          /\ \A k \in 1 .. n : y[k] = w[k]
      BY <2>1
    <3>4. QED
      BY <3>2, <3>3
  <2> HIDE DEF y, n
  <2>3. Due(q, i) => 2 * (n + 1) <= i
    BY <1>1, <1>3, <1>5, <1>6, <1>10, <2>2 DEF n
  <2>4. \A k \in 1 .. n + 1 : \E j \in 1 .. i : /\ y[k].age = q[j].age + 1
                                                /\ Due(q, j) => 2 * k <= j
    <3>1. \E j \in 1 .. i : y[n + 1].age = q[j].age + 1 /\ (Due(q, j) => 2 * (n + 1) <= j)
      BY <1>1, <2>1, <2>2, <2>3
    <3>2. \A k \in 1 .. n : \E j \in 1 .. i : y[k].age = q[j].age + 1 /\ (Due(q, j) => 2 * k <= j)
      BY <1>7, <2>2 DEF n
    <3>3. QED
      BY <2>2, <3>1, <3>2
  <2>5. \A k \in 1 .. n : y[n + 1].age <= y[k].age
    <3> SUFFICES ASSUME NEW k \in 1 .. n PROVE e.age <= w[k].age
      BY <2>2
    <3>1. PICK j \in 1 .. i : w[k].age = q[j].age + 1
      BY <1>7 DEF n
    <3>2. q[i].age <= q[j].age /\ q[i].age \in Nat /\ q[j].age \in Nat
      BY <1>1, <1>2
    <3> DEFINE a == q[i].age
               b == q[j].age
    <3>3. e.age = a + 1 /\ w[k].age = b + 1 /\ a <= b /\ a \in Nat /\ b \in Nat
      BY <2>1, <3>1, <3>2
    <3> HIDE DEF a, b
    <3>4. QED
      BY <3>3
  <2>6. \A k, l \in 1 .. n : k <= l => y[l].age <= y[k].age
    BY <1>8, <2>2 DEF AgesFall, n
  <2>7. y[n + 1].age \in Nat
    BY <2>1, <2>2 DEF EntryType
  <2>8. AgesFall(y)
    <3> SUFFICES ASSUME NEW k \in 1 .. n + 1, NEW l \in 1 .. n + 1, k <= l
                 PROVE  y[l].age <= y[k].age
      BY <2>2 DEF AgesFall
    <3>1. CASE l \in 1 .. n
      BY <2>2, <2>6, <3>1
    <3>2. CASE l = n + 1 /\ k \in 1 .. n
      BY <2>5, <3>2
    <3>3. CASE l = n + 1 /\ k = n + 1
      BY <2>7, <3>3
    <3>4. QED
      BY <2>2, <3>1, <3>2, <3>3
  <2>9. (\A j \in 1 .. i : Due(q, j)) => 2 * Len(y) <= i
    BY <1>1, <2>2, <2>3
  <2>10. Moved(q, S, y, i)
    BY <1>10, <2>2, <2>4, <2>8, <2>9 DEF Moved
  <2>11. QED
    BY <2>10 DEF y, e
<1>11. QED
  BY <1>9, <1>10

(* What Rest keeps.                                                        *)
LEMMA RestOk ==
    ASSUME NEW q \in Seq(EntryType), NEW S, Erases(q, S, Len(q))
    PROVE  /\ Rest(q, S) \in Seq(EntryType) /\ Len(Rest(q, S)) <= Len(q)
           /\ Holds(q, S, Rest(q, S), Len(q))
           /\ AgesFall(q) => Moved(q, S, Rest(q, S), Len(q))
<1> DEFINE n == Len(q)
           L == [i \in 0 .. n |-> {w \in Seq(EntryType) :
                                     /\ Len(w) <= i /\ Holds(q, S, w, i)
                                     /\ AgesFall(q) => Moved(q, S, w, i)}]
           Step(w, i) == IF i \in S THEN w ELSE Append(w, Older(q[i]))
           F == [z \in Seq(EntryType) \X (1 .. n) |-> Step(z[1], z[2])]
           Turn(f) == [i \in 0 .. n |-> IF i = 0 THEN <<>> ELSE Step(f[i - 1], i)]
<1>1. n \in Nat
  OBVIOUS
<1> HIDE DEF n
<1>2. <<>> \in L[0]
  <2> DEFINE none == <<>>
  <2>1. none \in Seq(EntryType) /\ Len(none) = 0 /\ DOMAIN none = {}
    OBVIOUS
  <2> HIDE DEF none
  <2>2. \A t : At(none, t) = {} /\ Staying(q, S, 0, t) = {}
    BY <2>1 DEF At, Staying
  <2>3. Holds(q, S, none, 0)
    BY <2>2 DEF Holds
  <2>4. 0 \notin S
    BY DEF Erases
  <2>5. Moved(q, S, none, 0)
    BY <2>1, <2>4 DEF Moved, AgesFall
  <2>6. none \in L[0]
    BY <1>1, <2>1, <2>3, <2>5
  <2>7. QED
    BY <2>6 DEF none
<1>3. \A i \in 1 .. n : \A w \in L[i - 1] : w \in Seq(EntryType) /\ Step(w, i) \in L[i]
  <2> SUFFICES ASSUME NEW i \in 1 .. n, NEW w \in L[i - 1]
               PROVE  w \in Seq(EntryType) /\ Step(w, i) \in L[i]
    OBVIOUS
  <2>1. i - 1 \in 0 .. n /\ i \in 0 .. n /\ i \in 1 .. Len(q)
    BY <1>1 DEF n
  <2>2. /\ w \in Seq(EntryType) /\ Len(w) <= i - 1 /\ Holds(q, S, w, i - 1)
        /\ AgesFall(q) => Moved(q, S, w, i - 1)
    BY <2>1
  <2> DEFINE y == Step(w, i)
             e == Older(q[i])
  <2>3. e \in EntryType
    BY <2>1, OlderType
  <2> HIDE DEF e
  <2>4. y \in Seq(EntryType) /\ Len(y) <= i
    <3>1. Append(w, e) \in Seq(EntryType) /\ Len(Append(w, e)) = Len(w) + 1
      BY <2>2, <2>3
    <3>2. QED
      BY <2>1, <2>2, <3>1 DEF e
  <2>5. Holds(q, S, y, i)
    BY <2>1, <2>2, HoldsStep
  <2>6. AgesFall(q) => Moved(q, S, y, i)
    BY <2>1, <2>2, MovedStep
  <2> HIDE DEF y
  <2>7. y \in L[i]
    BY <2>1, <2>4, <2>5, <2>6
  <2>8. QED
    BY <2>2, <2>7 DEF y
<1>4. \A w \in L[n] : /\ w \in Seq(EntryType) /\ Len(w) <= n /\ Holds(q, S, w, n)
                      /\ AgesFall(q) => Moved(q, S, w, n)
  BY <1>1
<1> HIDE DEF L, Step
<1>5. \E f : f = Turn(f)
  <2>1. \A i \in 1 .. n : \A w \in L[i - 1] : F[<<w, i>>] = Step(w, i)
    BY <1>3
  <2> HIDE DEF F
  <2>2. Passes(n, L, F)
    <3> SUFFICES ASSUME NEW turn \in 1 .. n, NEW old \in L[turn - 1]
                 PROVE  F[<<old, turn>>] \in L[turn]
      BY DEF Passes
    <3>1. QED
      BY <1>3, <2>1
  <2>3. PICK f : Run(f, n, <<>>, L, F)
    BY <1>1, <1>2, <2>2, LoopRuns
  <2>4. f = [i \in 0 .. n |-> f[i]] /\ f[0] = <<>>
    BY <2>3 DEF Run
  <2>5. ASSUME NEW i \in 1 .. n PROVE f[i] = Step(f[i - 1], i)
    <3>1. i - 1 \in 0 .. n
      BY <1>1
    <3>2. f[i - 1] \in L[i - 1] /\ f[i] = F[<<f[i - 1], i>>]
      BY <2>3, <3>1 DEF Run
    <3>3. QED
      BY <2>1, <3>2
  <2>6. ASSUME NEW i \in 0 .. n PROVE f[i] = IF i = 0 THEN <<>> ELSE Step(f[i - 1], i)
    <3>1. i = 0 \/ (i # 0 /\ i \in 1 .. n)
      BY <1>1
    <3>2. QED
      BY <2>4, <2>5, <3>1
  <2>7. f = Turn(f)
    BY <2>4, <2>6
  <2>8. QED
    BY <2>7
<1> DEFINE left == CHOOSE f : f = Turn(f)
<1>6. left = Turn(left)
  BY <1>5
<1>7. Rest(q, S) = left[n]
  BY DEF Rest, Step, n
<1> HIDE DEF left
<1>8. left[0] = <<>> /\ \A i \in 1 .. n : left[i] = Step(left[i - 1], i)
  <2>1. \A i \in 0 .. n : left[i] = Turn(left)[i]
    BY <1>6
  <2>2. left[0] = <<>>
    BY <1>1, <2>1
  <2>3. ASSUME NEW i \in 1 .. n PROVE left[i] = Step(left[i - 1], i)
    <3>1. i \in 0 .. n /\ i # 0
      BY <1>1
    <3>2. QED
      BY <2>1, <3>1
  <2>4. QED
    BY <2>2, <2>3
<1>9. Keeps(left, n, L)
  BY <1>3, <1>8 DEF Keeps
<1>10. \A i \in 0 .. n : left[i] \in L[i]
  BY <1>1, <1>2, <1>8, <1>9, LoopKeeps
<1>11. n \in 0 .. n
  BY <1>1
<1>12. QED
  BY <1>4, <1>7, <1>10, <1>11 DEF n

(* What is overdue by k cycles was 2^k times as far from the front.        *)
Overdue(q) ==
    \A i \in 1 .. Len(q) : Due(q, i) => i * Pow2(q[i].age - latency_) <= MaxQueue

IdealInv ==
    /\ infinite_buffer_q_ \in Seq(EntryType) /\ Len(infinite_buffer_q_) <= MaxQueue
    /\ returned \in [Requests -> Nat]
    /\ AgesFall(infinite_buffer_q_)
    /\ Overdue(infinite_buffer_q_)

(* The invariant holds for a new object.                                   *)
LEMMA InitIdeal == IdealInit => IdealInv
BY IdealAssumption DEF IdealInit, IdealInv, NoneReturned, AgesFall, Overdue

(* A request that is added is not overdue.                                 *)
LEMMA AddIdeal ==
    ASSUME IdealInv, NEW t \in Requests, AddTransaction(t)
    PROVE  IdealInv'
<1> DEFINE q == infinite_buffer_q_
           e == [trans |-> t, age |-> 0]
           w == Append(q, e)
           n == Len(q)
<1>1. q \in Seq(EntryType) /\ AgesFall(q) /\ Overdue(q)
  BY DEF IdealInv
<1>2. infinite_buffer_q_' = w /\ n < MaxQueue /\ returned' = NoneReturned
  BY DEF AddTransaction
<1>3. e \in EntryType /\ e.age = 0
  BY DEF EntryType
<1> HIDE DEF e, q
<1>4. /\ n \in Nat /\ w \in Seq(EntryType) /\ Len(w) = n + 1 /\ w[n + 1] = e
      /\ \A k \in 1 .. n : w[k] = q[k] /\ q[k] \in EntryType
      /\ \A k \in 1 .. n + 1 : k \in 1 .. n \/ k = n + 1
  BY <1>1, <1>3
<1>5. \A k \in 1 .. n : q[k].age \in Nat
  BY <1>4, OlderType
<1> HIDE DEF w, n
<1>6. Len(w) <= MaxQueue
  BY <1>2, <1>4, IdealAssumption
<1>7. AgesFall(w)
  BY <1>1, <1>3, <1>4, <1>5 DEF AgesFall, n
<1>8. Overdue(w)
  <2> SUFFICES ASSUME NEW k \in 1 .. n + 1, Due(w, k)
               PROVE  k * Pow2(w[k].age - latency_) <= MaxQueue
    BY <1>4 DEF Overdue
  <2>1. CASE k \in 1 .. n
    BY <1>1, <1>4, <2>1 DEF Overdue, Due, n
  <2>2. CASE k = n + 1
    <3>1. w[k].age - latency_ = 0
      BY <1>3, <1>4, <2>2, IdealAssumption DEF Due
    <3>2. Pow2(0) = 1
      BY Pow2Doubles
    <3>3. k * Pow2(w[k].age - latency_) = k
      BY <3>1, <3>2
    <3>4. QED
      BY <1>4, <1>6, <2>2, <3>3
  <2>3. QED
    BY <1>4, <2>1, <2>2
<1>9. QED
  BY <1>2, <1>4, <1>6, <1>7, <1>8 DEF IdealInv, NoneReturned

(* A clock cycle: what stays of the buffer, and what is returned.          *)
LEMMA TickIdeal ==
    ASSUME IdealInv, ClockTick
    PROVE  LET S == Served(infinite_buffer_q_)
           IN  /\ S \in SUBSET (1 .. Len(infinite_buffer_q_))
               /\ Holds(infinite_buffer_q_, S, infinite_buffer_q_', Len(infinite_buffer_q_))
               /\ IdealInv'
<1> DEFINE q == infinite_buffer_q_
           S == Served(q)
           w == Rest(q, S)
           n == Len(q)
<1>1. q \in Seq(EntryType) /\ AgesFall(q) /\ Overdue(q) /\ n <= MaxQueue
  BY DEF IdealInv
<1>2. /\ infinite_buffer_q_' = w
      /\ returned' = [t \in Requests |-> Cardinality({i \in S : q[i].trans = t})]
  BY DEF ClockTick, Return
<1>3. Erases(q, S, n)
  BY <1>1, ServedErases
<1> HIDE DEF q, S
<1>4. /\ w \in Seq(EntryType) /\ Len(w) <= n
      /\ Holds(q, S, w, n) /\ Moved(q, S, w, n)
  BY <1>1, <1>3, RestOk
<1>5. n \in Nat /\ Len(w) \in Nat
  BY <1>1, <1>4
<1> HIDE DEF w
<1>6. \A k \in 1 .. n : q[k].age \in Nat
  BY <1>1, OlderType
<1>7. S \in SUBSET (1 .. n)
  BY <1>3 DEF Erases
<1> HIDE DEF n
<1>8. ASSUME NEW t PROVE Cardinality({i \in S : q[i].trans = t}) \in Nat
  <2>1. {i \in S : q[i].trans = t} \in SUBSET (1 .. n)
    BY <1>7
  <2>2. IsFiniteSet(1 .. n)
    BY <1>5, FS_Interval
  <2>3. IsFiniteSet({i \in S : q[i].trans = t})
    BY <2>1, <2>2, FS_Subset
  <2>4. QED
    BY <2>3, FS_CardinalityType
<1>9. returned' \in [Requests -> Nat]
  BY <1>2, <1>8
<1>10. Overdue(w)
  <2> SUFFICES ASSUME NEW k \in 1 .. Len(w), Due(w, k)
               PROVE  k * Pow2(w[k].age - latency_) <= MaxQueue
    BY DEF Overdue
  <2>1. PICK j \in 1 .. n : w[k].age = q[j].age + 1 /\ (Due(q, j) => 2 * k <= j)
    BY <1>4 DEF Moved
  <2>2. q[j].age \in Nat /\ latency_ \in Nat /\ MaxQueue \in Nat
    BY <1>6, IdealAssumption
  <2>3. CASE Due(q, j)
    <3> DEFINE l == q[j].age - latency_
               a == Pow2(l)
    <3>1. l \in Nat /\ w[k].age - latency_ = l + 1
      BY <2>1, <2>2, <2>3 DEF Due
    <3>2. j * a <= MaxQueue
      BY <1>1, <2>3 DEF Overdue, n
    <3> HIDE DEF l
    <3>3. a \in Nat /\ Pow2(l + 1) = 2 * a
      BY <3>1, Pow2Doubles
    <3> HIDE DEF a
    <3>4. k \in Nat /\ j \in Nat /\ 2 * k <= j
      BY <2>1, <2>3
    <3>5. k * (2 * a) = (2 * k) * a /\ (2 * k) * a \in Nat /\ j * a \in Nat
      BY <3>3, <3>4
    <3>6. (2 * k) * a <= j * a
      BY <3>3, <3>4
    <3>7. k * (2 * a) <= MaxQueue
      BY <2>2, <3>2, <3>5, <3>6
    <3>8. QED
      BY <3>1, <3>3, <3>7
  <2>4. CASE ~Due(q, j)
    <3>1. w[k].age - latency_ = 0
      BY <2>1, <2>2, <2>4 DEF Due
    <3>2. Pow2(0) = 1
      BY Pow2Doubles
    <3>3. k * Pow2(w[k].age - latency_) = k
      BY <3>1, <3>2
    <3>4. k <= MaxQueue
      BY <1>1, <1>4, <1>5, <2>2
    <3>5. QED
      BY <3>3, <3>4
  <2>5. QED
    BY <2>3, <2>4
<1>11. Len(w) <= MaxQueue
  BY <1>1, <1>4, <1>5, IdealAssumption
<1>12. AgesFall(w)
  BY <1>4 DEF Moved
<1>13. IdealInv'
  BY <1>2, <1>4, <1>9, <1>10, <1>11, <1>12 DEF IdealInv
<1>14. QED
  BY <1>2, <1>4, <1>7, <1>13 DEF q, S, n

(* The invariant is inductive.                                             *)
LEMMA NextIdeal == IdealInv /\ [IdealNext]_idealVars => IdealInv'
<1> SUFFICES ASSUME IdealInv, [IdealNext]_idealVars PROVE IdealInv'
  OBVIOUS
<1>1. ASSUME NEW t \in Requests, AddTransaction(t) PROVE IdealInv'
  BY <1>1, AddIdeal
<1>2. CASE ClockTick
  BY <1>2, TickIdeal
<1>3. CASE UNCHANGED idealVars
  BY <1>3 DEF idealVars, IdealInv, AgesFall, Overdue, Due
<1>4. QED
  BY <1>1, <1>2, <1>3 DEF IdealNext

(* It holds in every behaviour.                                            *)
LEMMA AlwaysIdeal == IdealSpec => []IdealInv
BY InitIdeal, NextIdeal, PTL DEF IdealSpec

(* Although the loop of ClockTick steps over the element that follows an   *)
(* erased one, no request is overdue by more cycles than the logarithm of  *)
(* the requests in the buffer, for every latency_ and every bound on them. *)
THEOREM LatenessIsBounded == IdealSpec => []LatenessBounded
<1>1. IdealInv => LatenessBounded
  <2> SUFFICES ASSUME IdealInv, NEW i \in DOMAIN infinite_buffer_q_, Late(i) > 0
               PROVE  i * Pow2(Late(i)) <= MaxQueue
    BY DEF LatenessBounded
  <2>1. i \in 1 .. Len(infinite_buffer_q_) /\ infinite_buffer_q_[i] \in EntryType
    BY DEF IdealInv
  <2>2. infinite_buffer_q_[i].age \in Nat
    BY <2>1, OlderType
  <2>3. Due(infinite_buffer_q_, i)
    BY <2>2, IdealAssumption DEF Late, Due
  <2>4. QED
    BY <2>1, <2>3 DEF IdealInv, Overdue, Late
<1>2. QED
  BY <1>1, AlwaysIdeal, PTL

(* What MemoryService sees.                                                *)
AllCounts == [t \in Requests |-> Count(t)]

(* Count counts positions.                                                 *)
LEMMA CountIsNat ==
    ASSUME NEW q \in Seq(EntryType), NEW t
    PROVE  IsFiniteSet(At(q, t)) /\ Cardinality(At(q, t)) \in Nat
<1>1. IsFiniteSet(1 .. Len(q)) /\ At(q, t) \in SUBSET (1 .. Len(q))
  <2>1. Len(q) \in Nat
    OBVIOUS
  <2>2. IsFiniteSet(1 .. Len(q))
    BY <2>1, FS_Interval
  <2>3. DOMAIN q = 1 .. Len(q)
    OBVIOUS
  <2>4. QED
    BY <2>2, <2>3 DEF At
<1>2. IsFiniteSet(At(q, t))
  BY <1>1, FS_Subset
<1>3. QED
  BY <1>2, FS_CardinalityType

(* Of the requests t in the buffer a clock cycle returns some, and keeps   *)
(* the others.                                                             *)
LEMMA TickCounts ==
    ASSUME IdealInv, ClockTick, NEW t \in Requests
    PROVE  /\ returned'[t] \in 0 .. Count(t)
           /\ Count(t)' = Count(t) - returned'[t]
<1> DEFINE q == infinite_buffer_q_
           S == Served(q)
           n == Len(q)
           A == At(q, t)
           B == {i \in S : q[i].trans = t}
           K == Staying(q, S, n, t)
<1>1. q \in Seq(EntryType) /\ n \in Nat
  BY DEF IdealInv
<1>2. S \in SUBSET (1 .. n) /\ Holds(q, S, q', n)
  BY TickIdeal
<1>3. returned'[t] = Cardinality(B)
  BY DEF ClockTick, Return
<1>4. Count(t) = Cardinality(A) /\ Count(t)' = Cardinality(At(q', t))
  BY DEF Count, At
<1>5. Cardinality(At(q', t)) = Cardinality(K)
  BY <1>2 DEF Holds
<1>6. B \in SUBSET A /\ K = A \ B /\ A \cap B = B
  BY <1>1, <1>2 DEF At, Staying
<1> DEFINE a == Cardinality(A)
           b == Cardinality(B)
<1>7. Count(t) = a /\ Count(t)' = Cardinality(A \ B) /\ returned'[t] = b
  BY <1>3, <1>4, <1>5, <1>6
<1> HIDE DEF A, B, K, q, S
<1>8. IsFiniteSet(A) /\ Cardinality(A) \in Nat
  BY <1>1, CountIsNat DEF A
<1>9. IsFiniteSet(B) /\ Cardinality(B) <= Cardinality(A)
  BY <1>6, <1>8, FS_Subset
<1>10. Cardinality(B) \in Nat
  BY <1>9, FS_CardinalityType
<1>11. Cardinality(A \ B) = Cardinality(A) - Cardinality(A \cap B)
  BY <1>8, FS_Difference
<1>12. Cardinality(A \ B) = a - b
  BY <1>6, <1>11
<1>13. a \in Nat /\ b \in Nat /\ b <= a
  BY <1>8, <1>9, <1>10
<1> HIDE DEF a, b
<1>14. b \in 0 .. a
  BY <1>13
<1>15. QED
  BY <1>7, <1>12, <1>14

(* A request that is added is one more of its kind.                        *)
LEMMA AddCounts ==
    ASSUME IdealInv, NEW t \in Requests, AddTransaction(t), NEW r
    PROVE  Count(r)' = IF r = t THEN Count(r) + 1 ELSE Count(r)
<1> DEFINE q == infinite_buffer_q_
           e == [trans |-> t, age |-> 0]
           w == Append(q, e)
           n == Len(q)
<1>1. q \in Seq(EntryType) /\ q' = w
  BY DEF IdealInv, AddTransaction
<1>2. e \in EntryType /\ e.trans = t
  BY DEF EntryType
<1>3. Count(r) = Cardinality(At(q, r)) /\ Count(r)' = Cardinality(At(q', r))
  BY DEF Count, At
<1> HIDE DEF e
<1>4. /\ n \in Nat /\ DOMAIN q = 1 .. n /\ DOMAIN w = DOMAIN q \cup {n + 1}
      /\ n + 1 \notin DOMAIN q /\ w[n + 1] = e /\ \A k \in DOMAIN q : w[k] = q[k]
  BY <1>1, <1>2
<1> HIDE DEF w, n
<1>5. IsFiniteSet(At(q, r))
  BY <1>1, CountIsNat
<1>6. CASE r = t
  <2>1. At(w, r) = At(q, r) \cup {n + 1} /\ n + 1 \notin At(q, r)
    BY <1>2, <1>4, <1>6 DEF At
  <2>2. Cardinality(At(w, r)) = Cardinality(At(q, r)) + 1
    BY <1>5, <2>1, FS_AddElement
  <2>3. QED
    BY <1>1, <1>3, <1>6, <2>2
<1>7. CASE r # t
  <2>1. At(w, r) = At(q, r)
    BY <1>2, <1>4, <1>7 DEF At
  <2>2. QED
    BY <1>1, <1>3, <1>7, <2>1
<1>8. QED
  BY <1>6, <1>7

(* For every latency_ the ideal DRAM system implements MemoryService: each *)
(* accepted request stays outstanding until it is returned, once, by the   *)
(* callback of a clock cycle, although the loop erases elements of the     *)
(* vector it walks over.                                                   *)
THEOREM IdealImplementsService == IdealSpec => ImplementsService
<1>1. IdealInit => Service!Init
  <2> SUFFICES ASSUME IdealInit PROVE Service!Init
    OBVIOUS
  <2>1. \A t \in Requests : Count(t) = 0
    <3>1. \A t : {i \in DOMAIN infinite_buffer_q_ : infinite_buffer_q_[i].trans = t} = {}
      BY DEF IdealInit
    <3>2. QED
      BY <3>1, FS_EmptySet DEF Count
  <2>2. QED
    BY <2>1 DEF IdealInit, NoneReturned, Service!Init, Service!Nothing
<1>2. IdealInv /\ [IdealNext]_idealVars => [Service!Next]_<<AllCounts, returned>>
  <2> SUFFICES ASSUME IdealInv, [IdealNext]_idealVars
               PROVE  Service!Next \/ UNCHANGED <<AllCounts, returned>>
    OBVIOUS
  <2>1. /\ AllCounts = [t \in Requests |-> AllCounts[t]]
        /\ \A t \in Requests : AllCounts[t] = Count(t) /\ AllCounts'[t] = Count(t)'
        /\ AllCounts' = [t \in Requests |-> Count(t)']
    BY DEF AllCounts
  <2>2. \A t : Count(t) \in Nat
    BY CountIsNat DEF IdealInv, Count, At
  <2>3. ASSUME NEW t \in Requests, AddTransaction(t) PROVE Service!Next
    <3> DEFINE new == [AllCounts EXCEPT ![t] = AllCounts[t] + 1]
    <3>1. \A r \in Requests : Count(r)' = IF r = t THEN Count(r) + 1 ELSE Count(r)
      BY <2>3, AddCounts
    <3>2. new = [r \in Requests |-> new[r]]
      BY <2>1
    <3>3. \A r \in Requests : new[r] = Count(r)'
      BY <2>1, <3>1
    <3> HIDE DEF new
    <3>4. AllCounts' = new
      BY <2>1, <3>2, <3>3
    <3>5. returned' = [r \in Requests |-> 0]
      BY <2>3 DEF AddTransaction, NoneReturned
    <3>6. Service!Accept(t)
      BY <3>4, <3>5 DEF Service!Accept, Service!Nothing, AllCounts, new
    <3>7. QED
      BY <3>6 DEF Service!Next
  <2>4. CASE ClockTick
    <3>1. \A t \in Requests : /\ returned'[t] \in 0 .. Count(t)
                              /\ Count(t)' = Count(t) - returned'[t]
      BY <2>4, TickCounts
    <3>2. \A t \in Requests : /\ returned'[t] \in 0 .. AllCounts[t]
                              /\ Count(t)' = AllCounts[t] - returned'[t]
      BY <2>1, <3>1
    <3>3. AllCounts' = [t \in Requests |-> AllCounts[t] - returned'[t]]
      BY <2>1, <3>2
    <3>4. Service!Cycle
      BY <3>2, <3>3 DEF Service!Cycle, AllCounts
    <3>5. QED
      BY <3>4 DEF Service!Next
  <2>5. CASE UNCHANGED idealVars
    BY <2>5 DEF idealVars, AllCounts, Count
  <2>6. QED
    BY <2>3, <2>4, <2>5 DEF IdealNext
<1>3. QED
  BY <1>1, <1>2, AlwaysIdeal, PTL DEF IdealSpec, ImplementsService, Service!Spec, AllCounts
=============================================================================
