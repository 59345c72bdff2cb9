# A TLA+ verification of the DRAM simulator

The repository is DRAMsim3, a cycle-accurate DRAM simulator used as a memory
back end (here in a version adapted for ZSim: unified and separate transaction
queues, a write-drain mode, per-bank `in_serve` accounting). A CPU model calls
`WillAcceptTransaction`, `AddTransaction` and `ClockTick`; the simulator answers
through callbacks. The whole program is sequential. What makes it hard is that
a request lives in up to four data structures at once, that every cycle several
components race for the one command slot, that refreshes and self-refresh cut
across all of it, and that an error is an `exit(1)` many cycles later.

This directory models the controller stack, the HMC crossbar, the CPU front ends,
the constructor of `Config`, the statistics and the thermal model, checks them
with TLC on small instances, and proves with TLAPS, for every configuration: type
correctness and eight safety properties of the controller stack, type correctness
and the pairing of requests with responses in the HMC crossbar, that each of the
three memory systems implements the abstract memory service, how late the ideal one
may be, that the front ends add what they should, the separation of the address
fields, and the exactness of the statistical reports and their histograms.

## 1. Inventory

| Component | State | Operations | Talks to |
|---|---|---|---|
| `common` | addresses, commands, transactions | predicates (`IsReadWrite`, `IsRankCMD`, ...) | everybody |
| `Config` | some 90 parameters, address layout, derived latencies | the constructor in five steps, `AddressMapping` | read by everybody |
| `Timing` | five tables: command -> list of (command, delay) | built once | `ChannelState` |
| `BankState` | state, open row, row hits, one timer per command, `in_serve` | `GetReadyCommand`, `UpdateState`, `UpdateTiming` | `ChannelState` |
| `ChannelState` | banks, `refresh_q_`, self-refresh flags, activation windows | `GetReadyCommand`, `UpdateTimingAndStates`, `...NeedRefresh` | `CommandQueue`, `Refresh`, `Controller` |
| `CommandQueue` | a queue per bank or rank, round-robin index, queues held back for a refresh | `AddCommand`, `GetCommandToIssue`, `FinishRefresh` | `Controller` |
| `Refresh` | a cycle counter, whose turn it is | `ClockTick` | appends to `refresh_q_` |
| `Controller` | transaction queues, `pending_rd_q_`, `pending_wr_q_`, `return_queue_`, `write_draining_` | `AddTransaction`, `ReturnDoneTrans`, `ClockTick` | one per channel or vault |
| `JedecDRAMSystem` | the controllers, the clock | `AddTransaction`, `ClockTick` | the CPU, by callback |
| `HMCMemorySystem` | link and quadrant queues, ages, busy counters, a response look-up table, two clocks | `InsertHMCReq`, `ClockTick`, `VaultCallback` | vault controllers, by callback |
| `IdealDRAMSystem` | a vector of waiting requests | `AddTransaction`, `ClockTick` | nobody constructs it |
| `MemorySystem` | the DRAM system | forwards | the CPU |
| CPUs (`random`, `stream`, `trace`) | the request to be sent next, position in the trace or the arrays | `ClockTick` | `MemorySystem` |
| `SimpleStats` | epoch and overall counters, histograms and their bins | `Increment`, `AddValue`, epoch and final report, `Reset` | everybody |
| `BaseDRAMSystem` statistics | locality and parallelism of a phase | grown by commands and ticks, printed by `stats_mo` | `Controller`, the host simulator |
| `ThermalCalculator` | power maps, refresh progress per bank | `UpdateCMDPower`, reports | `Controller`, behind a switch |
| `ThermalReplay` | timed commands of a trace, open banks | `ParseLine`, `Run`, `ProcessCMD` | `ThermalCalculator` |

What can go wrong (the list with line numbers is `hazards` in `PROJECT.json`):

* **Ordering.** A write may not overtake a read of its address that was accepted
  earlier. Separate queues rely on one look-up in `ScheduleTransaction`, a
  unified queue on `HasRWDependency`.
* **Atomicity.** Merged reads share one queue entry, writes to one address share
  one, a read may be answered from the write buffer; every method updates some
  of the structures, and a mismatch ends in `exit(1)` or in a lost request.
* **Refresh against traffic.** A refresh closes its banks one by one while the
  queues would like to open them; the set of queues held back is computed once.
* **Limits.** The drain counter, the activation windows, a full write buffer,
  a refresh queue fed faster than it is served.
* **Liveness.** Drains, refreshes and reads wait for each other.
* **Delays in pieces.** A constraint of the device (row cycle, write recovery, one
  burst at a time on the data bus) is spread over entries of five tables, applied
  to banks, groups and ranks by different loops, some entries being negative.
* **Layouts.** Address fields and banks on a chip are placed by arithmetic on
  counts that need not be powers of two, in orders a file chooses.
* **Retry.** A front end that is refused must offer the same request again, once,
  whatever else it did in that tick; the end of a trace file is noticed by the
  stream library, not by the CPU.
* **HMC.** Two clock domains in a ratio that is no integer, responses matched by
  address alone, arbitration by ages kept apart from the queues they describe.

## 2. Modules

The parts of the controller stack are passive objects: a method runs to completion
in the caller's cycle. They are therefore *operator* modules: an object is a record
whose fields carry the member names of the C++ class, a method is an operator
from the object to its new value. Modules with variables are those through which
a part of the program is driven.

| Module | Models |
|---|---|
| `DRAMCommon` | `common.h/.cc`, the parameters and derived latencies of `Config`, the assumptions on them |
| `Timing` | `timing.cc`: all derived delays and the five tables |
| `BankState` | `bankstate.cc` |
| `ChannelState` | `channel_state.cc` |
| `CommandQueue` | `command_queue.cc` |
| `Refresh` | `refresh.cc` |
| `Controller` | `controller.cc` |
| `JedecDRAMSystem` | `JedecDRAMSystem` of `dram_system.cc`; variables, actions, properties |
| `PhaseStats` | `UpdateCommandStats`, `Calculate_stats`, the counting loop of `ClockTick` and `stats_mo` |
| `TimingMonitor` | no code: a device's view of command bus and data bus |
| `CPU` | `cpu.cc`, the main loop of `main.cc`, `memory_system.cc` |
| `MemoryService` | abstract: an accepted request is outstanding until a cycle returns it, once |
| `HMC` | `hmc.cc`, over vaults reduced to what they promise |
| `IdealDRAMSystem` | `IdealDRAMSystem` of `dram_system.cc` |
| `Configuration` | the constructor of `Config` and `AddressMapping` |
| `SimpleStats` | `simple_stats.cc` |
| `Thermal` | `thermal.cc` and `InitThermalParams`: where energy goes |
| `ThermalReplay` | `thermal_replay.cc` |
| `MCJedec`, `MCMonitor`, `MCCPU`, `MCHMC`, `MCConfig`, `MCUnits`, `MCThermal`, `MCReplay` | the instances for TLC |
| `SequenceLemmas` | least elements, induction in set form, removal from sequences, loops, sums over a set |
| `JedecSafetyProofs` | type correctness; drain counter, hold-back, activation windows |
| `JedecQueueProofs` | queues against pending requests, order of accesses, refreshes, no error exit |
| `JedecServiceProofs` | `JedecDRAMSystem` implements `MemoryService` |
| `JedecMonitorProofs` | what goes over the buses: row hits, recovery of the banks, exclusiveness of the data bus |
| `CpuProofs` | the front ends, and the memory under them |
| `HmcProofs` | the HMC memory system: types, ages, responses, `MemoryService` |
| `UnitProofs` | address fields; reports and histograms; lateness and `MemoryService` of `IdealDRAMSystem` |

`EXTENDS` follows the code: `DRAMCommon <- BankState, Timing <- ChannelState <-
CommandQueue, Refresh <- Controller <- JedecDRAMSystem <- PhaseStats <-
TimingMonitor`, and `JedecDRAMSystem <- CPU`, `Thermal <- ThermalReplay`.
`PhaseStats` and `TimingMonitor` add variables to every step of
`JedecDRAMSystem` and restrict none of them but for the length of a phase; `CPU`
replaces its free driver by a front end. `MemoryService` is instantiated by its
three implementations, `JedecDRAMSystem`, `HMC` and `IdealDRAMSystem`.

**Time.** The code keeps absolute cycle numbers and only ever asks whether the
clock has reached one. The model keeps the cycles left. `Elapse` of each class
lets a cycle pass. Counters that are only compared with a limit (row hits, idle
cycles, ages of the crossbar) stop counting there. `clk_` itself is kept modulo
`epoch_period`, whose multiples are its only use.

**Actions of `JedecDRAMSystem`.** `AddTransaction(t)` is the whole call,
including the merging of reads and writes and the bypass from the write buffer.
`ClockTick` is the whole call: completed requests are returned, then each
controller runs `ControllerClockTick`: refresh request, first command (towards a
refresh or from the queues), second command for dual-issue HBM, idle counters
and self-refresh, `Calculate_stats`, `ScheduleTransaction`. An `exit(1)` or
`AbruptExit` sets `exited`, after which nothing is enabled.

**Data left out.** Multimaps that are only counted and scanned
(`pending_rd_q_`, `pending_wr_q_`, `return_queue_`) are counts per address and
remaining wait. A command carries, in its field `by`, the command it serves; the
code leaves the same information in two members of the bank
(`activate_by_who`, `precharge_by_refresh`) for `IssueCommand` to read. Literals
of the code (4 row hits, a low mark of 8 writes, windows of 4 and 32) are
constants, so that instances small enough for TLC reach the limits. Statistics,
energy, logging and formatting are left out.

**HMC.** A vault is a `Controller`; in `HMC` it is reduced to what
`JedecDRAMSystem` has been shown to promise, plus what the crossbar sees of its
timing: a write is returned in the second DRAM cycle after it was added, a read
then or up to `MaxVaultWait` cycles later, in any order, and its queues may be
full for up to `MaxVaultWait` cycles in a row. `ClockTick` is one DRAM cycle with
the logic cycles that fall into it; `lead` is by how many picoseconds the logic
clock is ahead. Each loop of the code is a recursive function over its turns:
`BuildAgeQueue` inserts one source per turn (`PutByAge`), `CrossAll` lets the sources
of the age queue cross one after the other, `FromVaults` and `FromVault` make the
callbacks, `Remaining` is what a vault has left, `LogicTicks` the loop of `ClockTick`.

**Front ends.** A step of `CPU` is one `CPU::ClockTick`: the memory runs for a
cycle, returns what is done, and is offered requests. `RandomCPU` draws any
request, `StreamCPU` any bases of its arrays. A trace is a sequence of lines
together with whether the last one ends with a newline, which decides when the
stream sets `eof`; `trans_`, which the constructor leaves uninitialised, has any
value. `log` remembers what was added.

**Buses.** `TimingMonitor` measures, per bank, the cycles since its last activation,
read and write (up to the longest distance that matters) and which coming cycles
of the data bus are taken. It reads nothing but the commands issued, so what it
checks is the sum of tables, timers and states rather than any of them.

**Phases.** The members of `BaseDRAMSystem` never shrink and `stats_mo` prints
differences, so `PhaseStats` keeps the differences.

**Config.** An `.ini` file is a function from options to values; the constructor
is a program counter over its five steps, with the loop of `SetAddressMapping`
unrolled into steps. It ends in `done` or in one of the four ways the program can
end: `AbruptExit`, an exception of `at()`, a division by zero, a shift by a
negative width.

**SimpleStats.** One histogram stands for the three, a vector counter for its
elements; an energy is kept as the counter value it was computed from, an average
as numerator and denominator. The history variables `made` and `added` count what
was reported to the object since its last `Reset`.

**IdealDRAMSystem.** A request carries its age. `ClockTick` erases elements of the
vector it walks over and steps past the neighbour of each: `Served` are the
positions erased, `Rest` what is left.

**Thermal.** Of the power maps only *where* a command adds energy is kept
(`heated`), with the arithmetic of `MapToVault`, `MapToBank`, `MapToZ`, `MapToXY`
and the bit permutation of `GetPhyAddress`. Reports are control flow only.
`ThermalReplay` parses the lines of a trace, which the model chooses one by one,
and runs through them `repeat_` times.

## 3. Model checking

The runs of the controller stack use one channel and short timings whose
relations are those of real devices (`tRAS >= tRCD + tRTP`, `tFAW` longer than it
takes to fill the window where windows are the subject, and so on).

| Run | Instance | Shows |
|---|---|---|
| `SplitQueues` | separate queues of 2, open page, queue per bank, 2 banks; 2 rows of one bank | no request lost, no error exit, drain counter within the buffer, no write passes a read, drains end |
| `UnifiedOpen` | unified queue, 2 identical requests outstanding | an address is queued once, the system implements `MemoryService`, every request returns |
| `BankRefresh` | 2 ranks, refreshed bank by bank | the hold-back is never stale, refreshes are not disturbed and keep up, both ranks are refreshed for ever |
| `Monitor` | HBM2, 2 commands per cycle, 2 ranks of one bank, one row of the first bank written and another read, a read of the other rank; bursts of 2 cycles, read latency longer than write latency | the second command is never lost; bursts never overlap; banks have recovered when they are activated or refreshed; row hits are real; a bank counts as serving only while it has a read to deliver |
| `FrontEnds` | the 3 CPUs over GDDR5 with a unified queue of 1, close page, a queue per rank, 2 bankgroups, windows of 2 and 3; all traces of up to 2 lines and those of 3 lines due at once, with and without a newline | lines in order and once, stream elements whole, every front end goes on, activation windows |
| `HmcXbar` | 2 links, 2 quadrants, 2 vaults, queues of depth 1, 3 outstanding | ages describe the queues, every answer finds its table entry, `MemoryService` again, every request returns |
| `Units` | `Config`: 7 shipped files, all orders of the address tokens, counts that are no powers of two, malformed files; `SimpleStats`: 2 counters, 4 values, 2 bins; `IdealDRAMSystem`: up to 8 requests; thermal model: planar chips with one and two groups, an HBM stack, an HMC cube, both orders of banks and layers, a permuted location mapping, replay of all traces of up to 3 lines, 3 times | address fields and sizes agree, negative delays cannot wrap around, reports are exact, `MemoryService` a third time with bounded lateness; each bank of a chip has its own cells, a command heats its own bank only, refreshes visit all rows in turn, rounds of a replay are alike |
| `DrainWedge`, `HmcPairing`, `IdleSleep`, `DualLoss`, `ActiveCycles` | as `SplitQueues`, `HmcXbar`, `SplitQueues` with self-refresh, HBM2 with 2 commands per cycle and a short turnaround between ranks, and 2 channels of one bank | violated, see below |

`Units` puts classes that never interleave into one state space: the variables
`unit` and `driver` say whose behaviour it is.

Bounds and why they suffice.

* `MaxSame` bounds identical outstanding requests: 1 is enough for the interplay
  of queues, 2 for merging, where a third read changes nothing but a count. Two
  to four addresses give every relation two requests can have in the run
  concerned: same address, same row or bank, other row, other bank, other
  bankgroup or other rank. Queues of two entries are full, half full and empty; a
  write buffer of 2 with a low mark of 1 starts drains both ways. Refresh
  intervals (8 and 4 cycles; 16 and 12 in `Monitor` and `FrontEnds`) are longer
  than an access, so a refresh falls into every phase of an access.
* `PhaseCycles = 2`: at most 2 cycles between two `stats_mo`. What a cycle adds
  depends on the controllers and not on the phase; phases begin and end in every
  state.
* In the HMC instance the logic runs at 2.5 times the DRAM clock, so that both
  kinds of cycle (2 or 3 logic cycles) alternate.
* `MaxEvents = 2` bounds each counter and the values added between resets,
  `MaxResets = 1` the phases after the first: enough for an event before, between
  and after two reports, and for what a phase leaves to the next. `MaxQueue = 8`
  lets a request be passed over three times.
* `MaxCount = 4` lets a sweep of 2 or 4 refreshes start again; `IntRange = 20` is the
  range of the loop variable that overflows in the planar report. `MaxLines = 3`,
  `MaxClk = 2`: open, access and close with and without time between them.
* `LastCycle` is the latest cycle a trace asks for; from there on the clock of
  `TraceBasedCPU` is no longer distinguished.

**Fairness.** `FairSpec` and `CpuSpec` assume that `ClockTick` is called for ever: the
main loop of `main.cc` does nothing else, once per cycle. It is written
`WF_clk_(Advance)`: `Advance` is the part of `ClockTick` that moves `clk_`, has
the same enabling condition, and no other action changes `clk_`, so the two
formulas say the same and TLC evaluates `ENABLED` of the short one. No fairness
is assumed of the driver's requests.

**Deadlock** is checked wherever the clock drives the model: as long as the
program has not exited, a tick is possible, and an exit would be a deadlock. So
`BankRefresh` and `FrontEnds` show that no error exit is reached, too. It
is not checked in `Units`, where objects may stop being called at a bound and the
planar report never finishes, nor in `IdleSleep`, where waking a rank may end the
program.

### Disagreements between code and comments

Five runs state what the source says of itself and are violated.

| Run | What the source says | What the code does |
|---|---|---|
| `DrainWedge` | `controller.cc:291`: a write that has to wait for a read leads back to reads | the drain ends for the rest of the cycle and the full buffer restarts it in the next: the read is never scheduled |
| `HmcPairing` | `hmc.cc:629`: a response is sent when its data have been received | responses are looked up by address alone; a write can send the response of an older read |
| `IdleSleep` | `controller.cc:141`: idle ranks are moved into self-refresh | `rank_q_empty` is cleared with a rank's first command and never set again (`command_queue.cc:137`): a rank that was used stays awake |
| `DualLoss` | `command_queue.cc:50`: an access is erased from its queue because it can be executed | with two commands per cycle the second access is erased, too, and `controller.cc:111` issues it only if the first command is no access: a read of one rank that is ready in the cycle of a write to another is lost |
| `ActiveCycles` | `dram_system.cc:262`: a cycle in which some controller is active is an active cycle, and `active_cycles` grows only once | the flag `changed` is declared inside the loop over the controllers, so it grows once per active channel, and `stats_mo` prints the parallelism of an active channel |

The others were found while modelling (the model behaves as described) and have
no run of their own. The second column says how the passing properties and
instances take account of them.

| Where, and what the code does | Consequence here |
|---|---|
| `controller.cc:147`, `// wake up!`: a bank in self-refresh has no answer to `SREF_EXIT` (`bankstate.cc:80-92`), and the loop asks for it in a cycle in which no command was issued. So the first command for a sleeping rank ends the program if it comes before `tCKESR` has passed since the rank fell asleep (unless another rank keeps the command bus busy until then); later it is answered with `SREF_EXIT` by the queues, and the rank wakes up | self-refresh is off in the passing runs |
| `refresh.cc:31`, "Simultaneous all rank refresh": the loop breaks after the first awake rank | no passing run uses `RANK_LEVEL_SIMULTANEOUS` |
| `timing.cc:226-232`: a refreshed bank waits `tRFCb`; the entry is in a table that is not read for `REFRESH_BANK` (`channel_state.cc:199-205`) | `BankRecovered` does not speak of time after a bank refresh |
| `timing.cc:234-244`: `tREFI` is kept between two bank refreshes of a rank, requested every `tREFIb`; where `tREFI` is longer, refreshes pile up | `BankRefresh` sets the two equal |
| `timing.cc:50-51`, "need to precharge before ref, so it's tRC": the delay is entered for other banks only; after an access with auto-precharge a refresh may begin sooner than `tRC` after the activation | `BankRecovered` is checked with open pages |
| `hmc.cc:590-601`, "the oldest age link/quad should be processed first": ages are compared with indices | no property on the order; `RequestsReturn` holds nevertheless |
| `controller.cc:379-384`: a `PRECHARGE` for an access, a write as well, marks its bank as serving; `Calculate_stats` finds the row closed and unmarks it in the same cycle, so the time until the `ACTIVATE` is never counted | `ServingHasReads` is about the state after the tick |
| `simple_stats.cc:26`: `num_write_buf_hits`; nothing increments it (`controller.cc:255-261`) | the counter is not modelled |
| `cpu.cc:77-87`: after a trailing newline one more read of the last address is added | `TraceInOrder` allows one request more |
| `cpu.cc:77-87`: a last line without a newline that is refused once is never offered again | `FrontEndProgress` excepts it |
| `dram_system.h:87`, "a fixed latency": the loop of `ClockTick` skips the request behind an erased one (`dram_system.cc:343`) | `LatenessBounded`: late by a logarithm of the buffer's length at most |
| `simple_stats.h:39`: `Reset` after one phase of simulation; `histo_bins_` keeps the values of all phases (`simple_stats.cc:164`) | `BinsLabelled` leaves out final reports after a `Reset` |
| `thermal.cc:468-470`: the sweep starts again only if the rows are met exactly, but `num_row_refresh` is rounded up (`configuration.cc:298`) | geometries with rows it divides |
| `thermal.cc:389,479`: `REFRESH_BANK` passes the bank within its group where the bank within the rank is expected | bank by bank with one group only |
| `thermal.cc:541,601`: a loop tests `k` and increments `i`; a report of planar memory never ends | the model has the loop; nothing is claimed of its end |
| `thermal.cc:279-282`: banks of a group form a square of two columns, but the constructor may give the chip one column, or a die fewer places than banks | geometries where both agree |
| `thermal_replay.cc:113`: rows and columns are read as decimal numbers; traces hold hexadecimal ones (`common.cc:22`) | `NumberBase` is 16, as in the traces the program writes; replayed rows and columns are 0 |
| `thermal_replay.cc:155`: refreshes are traced with channel -1, an index of the replay's statistics | the lines of the instance carry a channel |
| `thermal_replay.cc:62`: all commands heat channel 0 | no property on the channel of a replayed command |

## 4. Proofs

The proofs about the controller stack hold for every value of the constants that
satisfies the named assumptions of `DRAMCommon` and `JedecDRAMSystem`: counts are positive, delays
are natural numbers, a read takes at least one cycle, the refresh intervals are
not zero, the switches have the values `Config` gives them, addresses are
natural numbers and are mapped to channels, ranks, bankgroups and banks that
exist. These include two commands per cycle, self-refresh, all three refresh
policies, both queue structures and any number of channels, ranks and banks.

* `TypeCorrect` (`Spec => []TypeOK`). `TypeOK` is inductive as it stands, because
  it says of commands what the rest needs: a command on its way to a bank names
  a bank, one that opens a row names a row, an access names an address. One lemma
  per operator. The least obvious ones: `QueueIndexInRange` and `RankBankIsBank`
  (two-digit arithmetic), `ChannelAnswerTyped` (the answer to a rank command is
  given the address of the deciding bank), `SettleTyped` (the test in
  `IssueCommand` keeps `pending_wr_q_` from becoming negative), `RowsOfTables`
  (some delays are differences and may be negative; the timers stay natural).

* `ControllersStaySafe`, and from it `DrainStaysWithinBuffer`,
  `HeldBackIsNeverStale` and `WindowsNeverOverrun`. The inductive invariant `Safe`
  speaks of one controller and strengthens the three properties:
  - `DrainOk` adds that the write buffer holds only writes and the read queue
    only reads. Without it the counter could go down while a read is scheduled,
    or stay while the buffer shrinks.
  - `HeldOk` is the property itself; to carry it through a cycle, the lemmas on
    commands show that a refresh is answered only to a refresh
    (`ChannelAnswerKind`), so nothing the queues or the self-refresh loop issue
    removes an entry of `refresh_q_`, and `FinishRefreshHeld` that the release
    happens with the answer that is the refresh. In between, `HeldAfter` is the
    state of affairs: released, not yet issued.
  - `WindowsOk` bounds the *length* of the windows, not the number of live
    entries: the code drops one expired entry per activation, so the bound on live
    entries alone is not inductive. `Admitted` carries the test of
    `GetReadyCommand` to `IssueCommand`; with two commands per cycle the second is
    asked for only after the windows have been updated by the first.

  `Safe` is preserved by each phase of `Controller::ClockTick` in turn, by
  `AddTransaction` and by `ReturnDoneTrans`.

* `ControllersStaySound`, and from it `QueuedAtMostOnce`, `NoRequestIsLost`,
  `WritesNeverPassReads`, `RefreshIsNeverDisturbed` and `AwakeSystemNeverExits`. The
  inductive invariant `Sound` adds to `Safe`:
  - `Linked`: what is queued is pending and not in both kinds of queue (`Backed`),
    no queue holds an entry twice (`NoRepeats`), and a command is in the queue of
    its bank or rank (`HomeOk`). The converse, that what is pending is queued, is
    `Covered`. The two are kept apart because they have different hypotheses.
  - `Ordered`: with a unified queue a read is ahead of the write of its address in
    either kind of queue and becomes a command first; with separate queues a
    write becomes a command only when no read of its address is pending. This is
    what turns `HasRWDependency`, or the look-up in `ScheduleTransaction`, into
    `NoWritePassesRead` many cycles later.
  - `Awake`: without self-refresh no bank sleeps, so every bank has an answer to
    every command it can be asked for. `AwakeSystemNeverExits` needs this for the
    exits of `BankState` and `Linked` for the exit of `IssueCommand`, and is
    stated for configurations without self-refresh: with it waking a rank too soon
    ends the program.

  `Covered`, and the order of writes and reads, assume `Spaced`: where two commands
  are issued per cycle, two accesses are at least a cycle apart
  (`AccessesSpaced`, a statement on the timing tables alone). Without two commands
  per cycle nothing is assumed. The assumption was found by the proof: the second
  access of a cycle is erased before it is decided to issue it, and run `DualLoss`
  shows the loss that follows for timings of a shipped device.

* `SystemImplementsService` (`Spec => ImplementsService`), unconditionally. The
  refinement mapping is the number of requests owed, the pending reads plus what
  is in the return queue (`Owed`). It stays the same through every phase of
  `ClockTick` (a `READ` moves all reads of its address from one to the other, a
  cycle moves each entry of the return queue to the next shorter wait), grows by
  one in `AddTransaction`, whether the request is queued, merged or answered from
  the write buffer, and `ReturnDoneTrans` takes away what `DoneTrans` reports. The sum over remaining
  waits is a recursive function on numbers, and its facts are proved by
  induction in set form (`SetInduction`: a set that holds 0 and with n also n + 1),
  which needs no operator as a parameter.

* `RowHitsAreReal`, `DataBusIsExclusive` and `BanksRecover` speak of what goes over the
  buses. `TickRuns` reduces `Controller::ClockTick` to what the banks see of it: no
  command, one, or two of which just one is an access (`Ran`), each accepted by its
  banks and on time for them (`AnswerOnTime`), and then one cycle less to wait
  (`Aged`). Nothing of the queues is left in that, so each of the three invariants has
  to be carried through one command, through a second one judged on what the first left,
  and through a cycle.
  - `RowHitsAreReal` (`PSpec => RowHitsReal`): `row_hit_count_` says how many accesses a
    row has had since it was opened, and `touched` is the history of the command bus. The
    invariant (`AllHits`) is that the count of an open bank is positive exactly when the
    bank was accessed since its last `ACTIVATE`. Where two commands are issued per
    cycle, this needs that a bank which was just activated, read or written cannot
    be opened or read again in the same cycle, that is `RowsSpaced`: the delays from
    `ACTIVATE` to an access, and from an access with precharge to the next
    `ACTIVATE`, are positive. The two HBM files of the repository satisfy it; where one
    command is issued per cycle nothing is assumed.
  - `DataBusIsExclusive` (`MSpec => []DataBusExclusive`): that no cycle is used twice says
    nothing about the accesses still to come, so the invariant (`BusesFree`) is that every
    access of every bank is due so late that its data follow all data on their
    way. An access is due when its own timer runs out if the bank is open, and
    otherwise not before the timer of `ACTIVATE` and the delay from `ACTIVATE` to the
    access. A command sets these timers by five different tables, by the place of the
    banks; `LatenciesTyped` and what follows compares each entry with the distance
    of the bursts. One pair is held apart by no entry: a `READ_PRECHARGE` puts no access
    of its own bank off but by the next `ACTIVATE`. So with `CLOSE_PAGE`
    the row must not be reopened and written before the data of the read have left the
    bus, which is the hypothesis `ReopensLate`. All 48 `.ini` files of the repository
    satisfy it.
  - `BanksRecover` (`MSpec => BankRecovered`), for `OPEN_PAGE`. The invariant
    (`BanksRested`) is that the timers of a bank cover what is left: while its row is open,
    that of `PRECHARGE` what is left of tRTP, tWR and tRAS; once it is closed, those
    of `ACTIVATE`, of both refreshes and of `SREF_ENTER` what is left of these and tRP.
    The tables do not say this of any two commands; the `PRECHARGE` in between passes
    on what it has waited for. With `CLOSE_PAGE` it is not true: the entries of
    `READ_PRECHARGE` and `WRITE_PRECHARGE` for a refresh count from the access, and a
    bank read as soon as its row is open may be refreshed before tRC has passed since
    the `ACTIVATE`.

* `FrontEndsStayOk`, and from it `TracesKeepTheirOrder` and `StreamElementsAreWhole`.
  `CpuOk` strengthens `TraceInOrder` by the relation of the lines read to the lines
  added (`ReadIsAdded`), which holds until the end of the file has been met, and
  `StreamWhole` by a numbering of the requests added by the arrays they are for
  (`Numbered`): counts alone say nothing when two arrays want the same request.
  Both depend on the memory only through `OfferAnswer`: an offer is taken as it
  is or refused. Conversely, `FrontEndsKeepMemorySound` carries `Sound` to the
  composition, with `FrontEndsStayInWindow` and `FrontEndsNeverExit`.

* `AddressFieldsDisjoint` (`ConfigSpec => []FieldsDisjoint`), for every set of `.ini`
  files whose `address_mapping` is a sequence of words. `FieldsDisjoint` speaks of
  the finished object, so the invariant follows the constructor: before the loop
  nothing is placed and the next free bit is 0 (`Unplaced`); in the loop every
  field placed so far ends below the next free bit (`PlacedBelow`) and placed
  fields do not overlap (`PlacedApart`), which a repeated token does not break as
  it only moves a field up; a negative width makes the shift in `SetMasks`
  undefined, so until then both parts are conditional on `WidthsNatural`. Afterwards, no
  later step assigns the positions (`PositionsKept`), the timing options being
  other members.

* `ReportsExact` (`StatsSpec => []ReportExact`), for any set of counters and values.
  The invariant says that epoch members equal what happened in the epoch
  (`EpochExact`), that overall members plus the epoch equal what happened since
  `Reset` until the final report adds the running epoch a second time
  (`OverallExact`), and that the last report was exact when it was made.

* `BinsMatchLabels` (`StatsSpec => []BinsLabelled`), for any number and width of bins
  that divide the range. `LabelledIsIndexed` is the arithmetic: the quotient that
  `UpdateHistoBins` computes and the interval that `InitHistoStat` prints agree, also
  at both bounds. The rest is that bins of sums are sums of bins (`BinsPlus`), for
  which the library's sum over a set is shown to exist and to be additive
  (`TotalPlus`), by induction over the number of elements; then the overall bins
  and those of the running epoch are those of all values until the first `Reset`
  (`BinsExact`).

* `HmcTypeCorrect`, `HmcAgesMatch`, `HmcResponses` and `HmcImplementsService`, for any
  number of links, vaults and queue entries, any ratio of the two clocks and any
  vaults that keep the promises of section 2. All four follow from one inductive
  invariant, `HmcInv`. It adds to the types and bounds
  - that ages are positive exactly where queues hold packets (`AgesMatch`), which
    is `AgesMatchQueues` and what lets `BuildAgeQueue` return only sources with a
    packet in front;
  - that a packet is in a queue of its own quadrant or vault, and a response under
    its own address (`QuadRouted`, `VaultRouted`, `TableRouted`): otherwise a callback
    of one vault could empty the table entry another vault is going to ask for;
  - that for every address there are as many responses in the table as requests in
    the link queues, the quadrant queues and the vaults (`Paired`). This is
    `EveryRequestHasResponse`; the directions need not agree, since `VaultCallback`
    looks up the address alone, which is the subject of run `HmcPairing`;
  - the phase of the logic clock (`lead`), from which the number of logic cycles in a
    DRAM cycle follows.

  Packets are counted by their positions in the queues, so a packet that moves is
  one position less in one family of queues and one more in another (`PopOne`,
  `PushOne`). Loops are treated by `LoopRuns` (a loop whose turns keep a property
  runs) and `LoopKeeps` (it has the property at the end), by induction over turns.

* `LatenessIsBounded` (`IdealSpec => []LatenessBounded`) and `IdealImplementsService`, for
  any latency and number of requests. The invariant says that the buffer is in the
  order of arrival (`AgesFall`), so what is due is a prefix, and that i * 2^k is
  bounded for a request at position i that is k cycles late (`Overdue`). A cycle
  erases every other element of the prefix (`ServedErases`), so a request that is due
  and stays moves to half its position or less (`Moved`), and the product does not grow.

Only model-checked: liveness (fairness and `ENABLED` are beyond the provers);
`RefreshesKeepUp`, which depends on relations between the timings and is not true of all
configurations; `ServingHasReads`; `AddressSpaceExact` (the recursive `LogBase2`, whose value for every
input is an induction over data) and `NegativeDelaysPast`; the thermal model
(`HeatInItsBank`, `BanksApart`, `RowsSwept`, `RoundsAlike`).

## 5. Not modelled

* The numerical part of the thermal model: amounts of energy, the matrices and
  solvers of `thermal_solver.c` and `sp_ienv.c`, temperatures; and in `Config` the
  energies of `InitPowerParams`. All of it is floating-point data that no control
  flow depends on.
* A bank of more than four times as many grids in x as in y, alone in its group,
  is tiled by `InitThermalParams`, which then leaves other members unassigned;
  `GeometryAssumption` excludes it.
* Printing: text, JSON and CSV files, output levels. `ThermalReplay` and the build
  with `THERMAL` call members of `SimpleStats` that do not exist at this commit
  (`RankBackgroundEnergy`, `PrintEpochStats` and `PrintFinalStats` with arguments),
  so these classes are modelled as they are written, without those calls.
* The options `tRTP_L` and `tRTP_S`, which some files set and nothing reads.
* The state `PD` of banks, which no command enters.
* Request types of HMC other than the two `AddTransaction` makes.
* More than one channel in TLC's instances of the controller stack, but for
  `ActiveCycles`: channels share the clock and the counters of a phase. The proofs
  cover any number.
* Parsing of numbers by `INIReader` (external), and the vendored libraries.

## 6. Plan

Done: the controller stack with its statistics and a monitor on its buses,
`MemoryService` with three implementations, the HMC crossbar, the front ends, the
constructor of `Config`, `SimpleStats`, `Thermal` and `ThermalReplay`; type correctness
and eight safety theorems of the controller stack, one of its statistics, two of its
buses, four theorems of the HMC memory system, three refinements of `MemoryService`, the
front ends, the address fields and the reports. Next, in this order:

1. `BanksApart` of `Thermal` for any number of banks (arithmetic in two bases).
2. `ServingHasReads` for every configuration: the mark `in_serve` has to be followed
   through each command of a cycle, together with what the bank still owes.
