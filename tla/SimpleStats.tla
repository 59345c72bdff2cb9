----------------------------- MODULE SimpleStats -----------------------------
(***************************************************************************)
(* class SimpleStats: what a channel counts.  Events go into the epoch_    *)
(* members; PrintEpochStats reports them, adds them to the overall ones    *)
(* and starts a new epoch; PrintFinalStats reports the overall ones; Reset *)
(* starts a new phase of the simulation.                                   *)
(*                                                                         *)
(* A vector counter is one counter per element.  There is one histogram;   *)
(* the code treats its three alike.  An energy is its counter times a      *)
(* constant, so doubles_ holds the counter's value it was computed from;   *)
(* an average is the pair of its numerator and denominator.  Texts, file   *)
(* names and the output level are left out: a report is what j_data_ and   *)
(* print_pairs_ get.                                                       *)
(***************************************************************************)
EXTENDS Integers, FiniteSets, FiniteSetsExt

CONSTANTS
    Counters,           \* names of the counters, "epoch_num" among them
    Values,             \* values that are added to the histogram
    start_val, end_val, num_bins,
    MaxEvents,          \* bound: of a counter, of all values, between Resets
    MaxResets           \* bound: phases of the simulation but the first

ASSUME HistoAssumption ==
    /\ Values \subseteq Int /\ IsFiniteSet(Values) /\ start_val \in Int /\ end_val \in Int
    /\ num_bins \in Nat \ {0}
    /\ start_val + num_bins <= end_val
    /\ (end_val - start_val) % num_bins = 0

ASSUME CountersAssumption == 
    "epoch_num" \in Counters /\ MaxEvents \in Nat /\ MaxResets \in Nat

VARIABLES
    counters_, epoch_counters_,          \* [Counters -> Nat]
    doubles_,                            \* [Counters -> Nat]
    histo_counts_, epoch_histo_counts_,  \* [Values -> Nat]
    histo_bins_, epoch_histo_bins_,      \* [Bins -> Nat]
    calculated_,                         \* average_read_latency
    report                               \* the last report

members == <<counters_, epoch_counters_, doubles_, histo_counts_,
             epoch_histo_counts_, histo_bins_, epoch_histo_bins_, calculated_>>

(* History: the events since the last Reset, those since the last epoch    *)
(* report or Reset, those the last report was about, and whether the final *)
(* report of the phase has been made.                                      *)
VARIABLES made, added, epoch_made, epoch_added, reported, printed, resets

history == <<made, added, epoch_made, epoch_added, reported, printed, resets>>

statsVars == <<members, report, history>>

Bins == 0 .. num_bins + 1

bin_width == (end_val - start_val) \div num_bins

NoCounts == [n \in Counters |-> 0]
NoValues == [v \in Values |-> 0]
NoBins == [b \in Bins |-> 0]

Plus(f, g) == [x \in DOMAIN f |-> f[x] + g[x]]

(* All that counts has in S.                                               *)
Total(counts, S) == MapThenSumSet(LAMBDA v : counts[v], S)

(* GetHistoAvg                                                             *)
GetHistoAvg(counts) ==
    <<MapThenSumSet(LAMBDA v : v * counts[v], Values), Total(counts, Values)>>

-----------------------------------------------------------------------------
(* Mutant: the bin below the range is forgotten.                           *)
BinIndex_NoUnderflow(value) ==
    CASE value < start_val -> 0
      [] value > end_val   -> num_bins + 1
      [] OTHER             -> (value - start_val) \div bin_width

(* The bin UpdateHistoBins puts a value in.                                *)
BinIndex(value) ==
    CASE value < start_val -> 0
      [] value > end_val   -> num_bins + 1
      [] OTHER             -> (value - start_val) \div bin_width + 1

(* The values the header of a bin names, as InitHistoStat labels it.       *)
Labelled(b) ==
    {v \in Values :
       CASE b = 0 -> v < start_val
         [] b = num_bins + 1 -> v >= end_val
         [] OTHER -> v \in start_val + (b - 1) * bin_width
                           .. start_val + b * bin_width - 1}

EpochBins(counts) ==
    [b \in Bins |-> Total(counts, {v \in Values : BinIndex(v) = b})]

UpdateHistoBins ==
    /\ epoch_histo_bins_' = EpochBins(epoch_histo_counts_)
    /\ histo_counts_' = Plus(histo_counts_, epoch_histo_counts_)
    /\ histo_bins_' = Plus(histo_bins_, epoch_histo_bins_')

UpdateCounters(counts) == counters_' = Plus(counters_, counts)

-----------------------------------------------------------------------------
StatsInit ==
    /\ counters_ = NoCounts /\ epoch_counters_ = NoCounts /\ doubles_ = NoCounts
    /\ histo_counts_ = NoValues /\ epoch_histo_counts_ = NoValues
    /\ histo_bins_ = NoBins /\ epoch_histo_bins_ = NoBins
    /\ calculated_ = <<0, 0>>
    /\ report = [kind |-> "none"]
    /\ made = NoCounts /\ added = NoValues
    /\ epoch_made = NoCounts /\ epoch_added = NoValues
    /\ reported = [made |-> NoCounts, added |-> NoValues]
    /\ printed = FALSE /\ resets = 0

(* Increment, IncrementVec                                                 *)
Increment(name) ==
    /\ made[name] < MaxEvents
    /\ epoch_counters_' = [epoch_counters_ EXCEPT ![name] = @ + 1]
    /\ made' = [made EXCEPT ![name] = @ + 1]
    /\ epoch_made' = [epoch_made EXCEPT ![name] = @ + 1]
    /\ UNCHANGED <<counters_, doubles_, histo_counts_, epoch_histo_counts_,
                   histo_bins_, epoch_histo_bins_, calculated_, report,
                   added, epoch_added, reported, printed, resets>>

AddValue(value) ==
    /\ Total(added, Values) < MaxEvents
    /\ epoch_histo_counts_' = [epoch_histo_counts_ EXCEPT ![value] = @ + 1]
    /\ added' = [added EXCEPT ![value] = @ + 1]
    /\ epoch_added' = [epoch_added EXCEPT ![value] = @ + 1]
    /\ UNCHANGED <<counters_, epoch_counters_, doubles_, histo_counts_,
                   histo_bins_, epoch_histo_bins_, calculated_, report,
                   made, epoch_made, reported, printed, resets>>

(* Mutant: the counters of the epoch go on.                                *)
NewEpoch_Keeps == epoch_counters_' = epoch_counters_ /\ epoch_histo_counts_' = NoValues

(* the end of UpdateEpochStats                                             *)
NewEpoch == epoch_counters_' = NoCounts /\ epoch_histo_counts_' = NoValues

(* UpdatePrints, once the other members have their new values.  The number *)
(* of the epoch is the overall one in both kinds of report.                *)
UpdatePrints(kind, counts, bins) ==
    report' = [kind |-> kind, counters |-> counts, bins |-> bins,
               epoch_num |-> counters_'["epoch_num"],
               doubles |-> doubles_', average |-> calculated_']

UpdateEpochStats(counts) ==
    /\ UpdateCounters(counts)
    /\ doubles_' = counts
    /\ UpdateHistoBins
    /\ calculated_' = GetHistoAvg(epoch_histo_counts_)
    /\ UpdatePrints("epoch", counts, epoch_histo_bins_')
    /\ NewEpoch

OneMore(counts) == [counts EXCEPT !["epoch_num"] = @ + 1]

(* Controller::PrintEpochStats: epoch_num is counted, then the epoch       *)
(* reported.                                                               *)
PrintEpochStats ==
    /\ made["epoch_num"] < MaxEvents
    /\ UpdateEpochStats(OneMore(epoch_counters_))
    /\ made' = OneMore(made)
    /\ epoch_made' = NoCounts /\ epoch_added' = NoValues
    /\ reported' = [made |-> OneMore(epoch_made), added |-> epoch_added]
    /\ UNCHANGED <<added, printed, resets>>

(* The epoch goes on: nothing of it is cleared, and a second call would    *)
(* count it twice.                                                         *)
UpdateFinalStats ==
    /\ UpdateCounters(epoch_counters_)
    /\ doubles_' = counters_'
    /\ UpdateHistoBins
    /\ calculated_' = GetHistoAvg(histo_counts_')
    /\ UpdatePrints("final", counters_', histo_bins_')
    /\ UNCHANGED <<epoch_counters_, epoch_histo_counts_>>

(* The drivers call it once, at the end of a phase.                        *)
PrintFinalStats ==
    /\ ~printed
    /\ UpdateFinalStats
    /\ printed' = TRUE
    /\ reported' = [made |-> made, added |-> added]
    /\ UNCHANGED <<made, added, epoch_made, epoch_added, resets>>

(* All counts start again; the two vectors of bins are left as they are.   *)
Reset ==
    /\ resets < MaxResets
    /\ counters_' = NoCounts /\ epoch_counters_' = NoCounts /\ doubles_' = NoCounts
    /\ histo_counts_' = NoValues /\ epoch_histo_counts_' = NoValues
    /\ calculated_' = <<0, 0>>
    /\ made' = NoCounts /\ added' = NoValues
    /\ epoch_made' = NoCounts /\ epoch_added' = NoValues
    /\ printed' = FALSE /\ resets' = resets + 1
    /\ UNCHANGED <<histo_bins_, epoch_histo_bins_, report, reported>>

StatsNext ==
    \/ \E name \in Counters \ {"epoch_num"} : Increment(name)
    \/ \E value \in Values : AddValue(value)
    \/ PrintEpochStats \/ PrintFinalStats \/ Reset

StatsSpec == StatsInit /\ [][StatsNext]_statsVars

-----------------------------------------------------------------------------
(***************************************************************************)
(* A report says what happened in the period it is about, neither more nor *)
(* less: an epoch report the events since the last one, the final report   *)
(* all events since the last Reset, those of an epoch that has not ended   *)
(* included.  The energies and the average follow from the same events,    *)
(* although doubles_ and calculated_ serve both kinds of report in turn.   *)
(***************************************************************************)
ReportExact ==
    report.kind # "none" =>
        /\ report.counters = reported.made
        /\ report.doubles = reported.made
        /\ report.average = GetHistoAvg(reported.added)

(***************************************************************************)
(* Every value is counted in the bin whose label it belongs to, also the   *)
(* ones at the bounds of the range and outside it: in all epoch reports,   *)
(* and in a final report as long as Reset has not been called.             *)
(***************************************************************************)
BinsLabelled ==
    (report.kind = "epoch" \/ (report.kind = "final" /\ resets = 0)) =>
        \A b \in Bins : report.bins[b] = Total(reported.added, Labelled(b))
=============================================================================
