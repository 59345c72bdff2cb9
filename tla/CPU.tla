--------------------------------- MODULE CPU ---------------------------------
(***************************************************************************)
(* The three front ends of the simulator (cpu.cc) and the main loop that   *)
(* drives one of them, composed with the JEDEC memory system through       *)
(* MemorySystem, which forwards every call.  One step is one CPU clock     *)
(* tick: the memory system runs for a cycle, then the CPU offers it        *)
(* requests, which it takes or refuses.                                    *)
(***************************************************************************)
EXTENDS JedecDRAMSystem

CONSTANTS
    Classes,     \* which of the CPU classes main() may construct
    Traces,      \* the trace files, as sequences of lines
    Endings,     \* whether the last line of the file ends with a newline
    Bases,       \* the addresses StreamCPU may draw for its arrays
    ArraySize,   \* array_size_ of StreamCPU
    Stride       \* stride_ of StreamCPU

Arrays == {"a", "b", "c"}

Line == [addr : Addr, is_write : BOOLEAN, added_cycle : Nat]

ASSUME CpuAssumption ==
    /\ Classes \subseteq {"random", "stream", "trace"}
    /\ Endings \subseteq BOOLEAN
    /\ ArraySize \in Nat \ {0} /\ Stride \in Nat \ {0}
    /\ \A base \in Bases, k \in 0 .. ArraySize : k < ArraySize => base + k \in Addr
    /\ Traces \subseteq Seq(Line)

VARIABLES
    cpu,   \* the CPU object
    log    \* requests added: by a trace all of them, by StreamCPU those of
           \* the current element, by RandomCPU those of the last tick

cvars == <<vars, cpu, log>>

-----------------------------------------------------------------------------
(* MemorySystem::ClockTick, WillAcceptTransaction and AddTransaction.      *)

TickedMemory ==
    [ch \in Channels |-> ControllerClockTick(ReturnDoneTrans(ctrls_[ch]))]

(* The controllers cs are asked for room and, if they have it, given t.    *)
Offer(cs, t) ==
    LET ch == GetChannel(t.addr)
    IN IF /\ \A c \in Channels : ~cs[c].exited
          /\ WillAcceptTransaction(cs[ch], t.is_write)
       THEN [cs |-> [cs EXCEPT ![ch] = ControllerAddTransaction(@, t)],
             added |-> <<t>>]
       ELSE [cs |-> cs, added |-> <<>>]

Callbacks ==
    returned' = [t \in Transactions |-> DoneTrans(ctrls_[GetChannel(t.addr)], t)]

-----------------------------------------------------------------------------
(* RandomCPU                                                               *)

NewRandomCPU == [class |-> "random", get_next_ |-> TRUE, last |-> Transaction(Min(Addr), FALSE)]

RandomOffered(req, offer) ==
    /\ ctrls_' = offer.cs
    /\ cpu' = [cpu EXCEPT !.last = req, !.get_next_ = offer.added # <<>>]
    /\ log' = offer.added

(* A refused request is offered again; a new one is drawn only when the    *)
(* last one has been taken.                                                *)
RandomClockTick ==
    /\ cpu.class = "random"
    /\ Advance /\ Callbacks
    /\ \E req \in Requests :
         /\ ~cpu.get_next_ => req = cpu.last
         /\ RandomOffered(req, Offer(TickedMemory, req))

-----------------------------------------------------------------------------
(* StreamCPU.  first stands for clk_ = 0; base[w] for addr_a_, addr_b_ and  *)
(* addr_c_, inserted[w] for the three flags.                               *)

NewStreamCPU ==
    [class |-> "stream", first |-> TRUE, base |-> [w \in Arrays |-> Min(Bases)],
     offset_ |-> 0, inserted |-> [w \in Arrays |-> FALSE]]

Want(base, offset, w) == Transaction(base[w] + offset, w = "c")

(* One of the three if statements: s.cs are the controllers, s.inserted    *)
(* the flags, s.added the requests added before in this tick.              *)
TryOffer(s, w, offer) ==
    [cs |-> offer.cs, added |-> s.added \o offer.added,
     inserted |-> [s.inserted EXCEPT ![w] = offer.added # <<>>]]

Insert(s, base, offset, w) ==
    IF s.inserted[w] THEN s ELSE TryOffer(s, w, Offer(s.cs, Want(base, offset, w)))

InsertAll(cs, base, offset) ==
    Insert(Insert(Insert([cs |-> cs, added |-> <<>>, inserted |-> cpu.inserted],
                         base, offset, "a"), base, offset, "b"), base, offset, "c")

(* Mutant: the flag of the second array is not reset.                      *)
NextElement_KeepsB(base, offset, s) ==
    LET done == \A w \in Arrays : s.inserted[w]
    IN [cpu EXCEPT !.first = FALSE, !.base = base,
                   !.offset_ = IF done THEN offset + Stride ELSE offset,
                   !.inserted = [w \in Arrays |-> (~done \/ w = "b") /\ s.inserted[w]]]

(* The end of the tick: on to the next element when all three are in.      *)
NextElement(base, offset, s) ==
    LET done == \A w \in Arrays : s.inserted[w]
    IN [cpu EXCEPT !.first = FALSE, !.base = base,
                   !.offset_ = IF done THEN offset + Stride ELSE offset,
                   !.inserted = [w \in Arrays |-> ~done /\ s.inserted[w]]]

StreamInserted(base, offset, s) ==
    /\ ctrls_' = s.cs
    /\ cpu' = NextElement(base, offset, s)
    /\ log' = (IF \A w \in Arrays : ~cpu.inserted[w] THEN <<>> ELSE log) \o s.added

StreamClockTick ==
    /\ cpu.class = "stream"
    /\ Advance /\ Callbacks
    /\ IF cpu.offset_ >= ArraySize \/ cpu.first
       THEN \E base \in [Arrays -> Bases] :
              StreamInserted(base, 0, InsertAll(TickedMemory, base, 0))
       ELSE StreamInserted(cpu.base, cpu.offset_,
                           InsertAll(TickedMemory, cpu.base, cpu.offset_))

-----------------------------------------------------------------------------
(* TraceBasedCPU.  read counts the lines read and eof is the flag of the   *)
(* stream.  trans_ is not initialised by its constructor.  clk_ is only    *)
(* compared with added_cycle and stops counting at LastCycle.              *)

LastCycle ==
    LET lines == UNION {{trace[i] : i \in DOMAIN trace} : trace \in Traces}
    IN Max({line.added_cycle : line \in lines} \cup {0})

NewTraceBasedCPU(trace, newline, trans_) ==
    [class |-> "trace", trace |-> trace, newline |-> newline, read |-> 0,
     eof |-> FALSE, trans_ |-> trans_, get_next_ |-> TRUE, clk_ |-> 0]

(***************************************************************************)
(* trace_file_ >> trans_.  Reading the last number of a file that does not *)
(* end with a newline sets eof.  With nothing left the extraction fails:   *)
(* addr and added_cycle keep their values, mem_op is empty, so is_write    *)
(* becomes false, and eof is set.                                          *)
(***************************************************************************)
ReadLine(c) ==
    IF c.read < Len(c.trace)
    THEN [c EXCEPT !.read = @ + 1, !.trans_ = c.trace[c.read + 1],
                   !.eof = (c.read + 1 = Len(c.trace) /\ ~c.newline)]
    ELSE [c EXCEPT !.trans_.is_write = FALSE, !.eof = TRUE]

(* Mutant: a line is read in every tick.                                   *)
Fetched_Always(c) == IF c.eof THEN c ELSE ReadLine([c EXCEPT !.get_next_ = FALSE])

(* The object after the reading part of a tick.                            *)
Fetched(c) ==
    IF c.eof \/ ~c.get_next_ THEN c ELSE ReadLine([c EXCEPT !.get_next_ = FALSE])

TraceTicked(c, offer) ==
    /\ ctrls_' = offer.cs
    /\ cpu' = [c EXCEPT !.clk_ = IF @ < LastCycle THEN @ + 1 ELSE @,
                        !.get_next_ = IF c.trans_.added_cycle <= c.clk_
                                      THEN offer.added # <<>> ELSE @]
    /\ log' = log \o offer.added

(* The rest of a tick that found the file not at its end.                  *)
TraceOffered(c, cs) ==
    TraceTicked(c, IF c.trans_.added_cycle <= c.clk_
                   THEN Offer(cs, Transaction(c.trans_.addr, c.trans_.is_write))
                   ELSE [cs |-> cs, added |-> <<>>])

TraceClockTick ==
    /\ cpu.class = "trace"
    /\ Advance /\ Callbacks
    /\ IF cpu.eof
       THEN /\ ctrls_' = TickedMemory
            /\ cpu' = [cpu EXCEPT !.clk_ = IF @ < LastCycle THEN @ + 1 ELSE @]
            /\ UNCHANGED log
       ELSE TraceOffered(Fetched(cpu), TickedMemory)

-----------------------------------------------------------------------------
(* main(): one CPU is constructed and ticks for ever.                      *)

CpuInit ==
    /\ Init
    /\ log = <<>>
    /\ \/ "random" \in Classes /\ cpu = NewRandomCPU
       \/ "stream" \in Classes /\ cpu = NewStreamCPU
       \/ /\ "trace" \in Classes
          /\ \E trace \in Traces, newline \in Endings,
                trans_ \in [addr : Addr, is_write : BOOLEAN, added_cycle : 0 .. LastCycle] :
               cpu = NewTraceBasedCPU(trace, newline, trans_)

CpuNext == RandomClockTick \/ StreamClockTick \/ TraceClockTick

CpuSpec == CpuInit /\ [][CpuNext]_cvars /\ WF_clk_(Advance)

-----------------------------------------------------------------------------
Wanted(i) == Transaction(cpu.trace[i].addr, cpu.trace[i].is_write)

(* The memory system gets the lines of the trace in their order, none      *)
(* twice and none passed over, however long each of them is refused, with  *)
(* at most one request more at the end of a file.                          *)
TraceInOrder ==
    cpu.class = "trace" =>
        /\ Len(log) <= Len(cpu.trace) + 1
        /\ \A i \in 1 .. Len(log) : i <= Len(cpu.trace) => log[i] = Wanted(i)

(* StreamCPU adds for every element one read of each source array and one  *)
(* write of the third, no more and no less, in however many ticks and in   *)
(* whatever order the memory system takes them.                            *)
StreamWhole ==
    cpu.class = "stream" =>
        LET done == Len(log) = 3
            in == {w \in Arrays : done \/ cpu.inserted[w]}
            offset == IF done THEN cpu.offset_ - Stride ELSE cpu.offset_
        IN \A t \in Transactions :
             Cardinality({i \in DOMAIN log : log[i] = t})
               = Cardinality({w \in in : Want(cpu.base, offset, w) = t})

(***************************************************************************)
(* A front end that the memory system has refused is served in the end:    *)
(* RandomCPU goes on to a new request and StreamCPU to a new element again *)
(* and again, and all lines of a trace are added in the end but for the    *)
(* last one of a file without a newline.                                   *)
(***************************************************************************)
FrontEndProgress ==
    /\ []<>(cpu.class = "random" => cpu.get_next_)
    /\ []<>(cpu.class = "stream" => Len(log) = 3)
    /\ <>(cpu.class = "trace" =>
              Len(log) >= Len(cpu.trace) - (IF cpu.newline THEN 0 ELSE 1))
=============================================================================
