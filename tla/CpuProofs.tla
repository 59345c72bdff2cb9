------------------------------ MODULE CpuProofs ------------------------------
(***************************************************************************)
(* The front ends, for every memory configuration, every trace and every   *)
(* size of the arrays.  What they add depends on the memory through one    *)
(* fact: an offer is taken as it is or refused.  And what the memory does  *)
(* depends on them through one fact: what they offer is a request that it  *)
(* can address.                                                            *)
(***************************************************************************)
EXTENDS CPU, JedecQueueProofs

(* The members of the three objects.                                       *)
RandomObject ==
    cpu = [class |-> "random", get_next_ |-> cpu.get_next_, last |-> cpu.last]

StreamObject ==
    /\ cpu = [class |-> "stream", first |-> cpu.first, base |-> cpu.base,
              offset_ |-> cpu.offset_, inserted |-> cpu.inserted]
    /\ cpu.first \in BOOLEAN /\ cpu.offset_ \in Nat
    /\ cpu.inserted \in [Arrays -> BOOLEAN]

TraceCPU ==
    [class : {"trace"}, trace : Seq(Line), newline : BOOLEAN, read : Nat,
     eof : BOOLEAN, trans_ : Line, get_next_ : BOOLEAN, clk_ : Nat]

(***************************************************************************)
(* TraceBasedCPU: before the end of the file has been met, the lines read  *)
(* are the lines added, but for the one that is being offered.             *)
(***************************************************************************)
ReadIsAdded(c, l) ==
    IF c.get_next_ THEN Len(l) = c.read
    ELSE Len(l) = c.read - 1 /\ c.read > 0 /\ c.trans_ = c.trace[c.read]

AddedInOrder(c, l) ==
    /\ l \in Seq(Transactions) /\ Len(l) <= Len(c.trace) + 1
    /\ \A i \in 1 .. Len(l) :
         i <= Len(c.trace) => l[i] = Transaction(c.trace[i].addr, c.trace[i].is_write)

TraceOk ==
    /\ cpu \in TraceCPU /\ cpu.read <= Len(cpu.trace)
    /\ AddedInOrder(cpu, log)
    /\ ~cpu.eof => ReadIsAdded(cpu, log)

(***************************************************************************)
(* StreamCPU: the requests added for an element are numbered by the arrays *)
(* they are for.  A completed element is remembered until the next tick.   *)
(***************************************************************************)
Count(in) == (IF in["a"] THEN 1 ELSE 0) + (IF in["b"] THEN 1 ELSE 0)
             + (IF in["c"] THEN 1 ELSE 0)

Numbered(l, in, base, offset) ==
    /\ l \in Seq(Transactions) /\ Len(l) = Count(in)
    /\ \E array \in [1 .. Len(l) -> Arrays] :
         /\ \A i, j \in 1 .. Len(l) : array[i] = array[j] => i = j
         /\ \A w \in Arrays : in[w] <=> \E i \in 1 .. Len(l) : array[i] = w
         /\ \A i \in 1 .. Len(l) : l[i] = Want(base, offset, array[i])

NoneIn == [w \in Arrays |-> FALSE]
AllIn  == [w \in Arrays |-> TRUE]

StreamOk ==
    /\ StreamObject
    /\ ~cpu.first => cpu.base \in [Arrays -> Bases]
    /\ cpu.first \/ cpu.offset_ >= ArraySize => cpu.inserted = NoneIn
    /\ cpu.inserted # AllIn
    /\ \/ Numbered(log, cpu.inserted, cpu.base, cpu.offset_)
       \/ /\ cpu.inserted = NoneIn /\ cpu.offset_ >= Stride
          /\ Numbered(log, AllIn, cpu.base, cpu.offset_ - Stride)

CpuOk ==
    CASE cpu.class = "random" -> RandomObject
      [] cpu.class = "stream" -> StreamOk
      [] cpu.class = "trace" -> TraceOk
      [] OTHER -> FALSE

-----------------------------------------------------------------------------
(* An offer is taken or refused.                                           *)
LEMMA OfferAnswer ==
    ASSUME NEW cs, NEW t PROVE Offer(cs, t).added \in {<<>>, <<t>>}
BY DEF Offer

(* A log grows by what has been added.                                     *)
LEMMA LogGrows ==
    ASSUME NEW S, NEW l \in Seq(S), NEW e \in S
    PROVE  /\ l \o <<>> = l
           /\ l \o <<e>> \in Seq(S) /\ Len(l \o <<e>>) = Len(l) + 1
           /\ \A i \in 1 .. Len(l) : (l \o <<e>>)[i] = l[i]
           /\ (l \o <<e>>)[Len(l) + 1] = e
<1>1. l \o <<>> = l
  BY ConcatEmptySeq
<1>2. <<e>> \in Seq(S) /\ Len(<<e>>) = 1 /\ <<e>>[1] = e /\ Len(l) \in Nat
  OBVIOUS
<1>3. l \o <<e>> \in Seq(S) /\ Len(l \o <<e>>) = Len(l) + 1
  BY <1>2, ConcatProperties
<1>4. \A i \in 1 .. Len(l) + 1 :
        (l \o <<e>>)[i] = IF i <= Len(l) THEN l[i] ELSE <<e>>[i - Len(l)]
  BY <1>2, ConcatProperties
<1>5. QED
  BY <1>1, <1>2, <1>3, <1>4

-----------------------------------------------------------------------------
(* What c, a TraceBasedCPU that has just read, is about to offer: the line *)
(* after those that have been added, or one request after the last.        *)
Offerable(c, l) ==
    /\ Len(l) <= Len(c.trace)
    /\ Len(l) < Len(c.trace) => c.trans_ = c.trace[Len(l) + 1]

(* Reading a line.                                                         *)
LEMMA FetchedOk ==
    ASSUME NEW c \in TraceCPU, c.read <= Len(c.trace), NEW l, AddedInOrder(c, l),
           ~c.eof, ReadIsAdded(c, l)
    PROVE  LET f == Fetched(c)
           IN /\ f \in TraceCPU /\ f.trace = c.trace /\ f.read <= Len(f.trace)
              /\ ~f.get_next_ /\ Offerable(f, l)
              /\ ~f.eof => ReadIsAdded(f, l)
<1> DEFINE f == Fetched(c)
           n == Len(c.trace)
<1>1. n \in Nat /\ c.read \in Nat /\ c.trace \in Seq(Line) /\ Len(l) \in Nat
  BY DEF TraceCPU, AddedInOrder
<1>2. CASE ~c.get_next_
  <2>1. f = c
    BY <1>2 DEF Fetched
  <2>2. Offerable(c, l)
    BY <1>1, <1>2 DEF ReadIsAdded, Offerable
  <2>3. QED
    BY <1>2, <2>1, <2>2
<1>3. CASE c.get_next_ /\ c.read < n
  <2> DEFINE k == c.read + 1
  <2>1. f = [[c EXCEPT !.get_next_ = FALSE] EXCEPT
               !.read = k, !.trans_ = c.trace[k], !.eof = (k = n /\ ~c.newline)]
    BY <1>3 DEF Fetched, ReadLine, TraceCPU
  <2>2. k \in Nat /\ k <= n /\ k > 0 /\ c.trace[k] \in Line /\ k - 1 = c.read
    BY <1>1, <1>3
  <2> HIDE DEF f, k
  <2>3. /\ f \in TraceCPU /\ f.trace = c.trace /\ f.read = k /\ ~f.get_next_
        /\ f.trans_ = c.trace[k]
    BY <2>1, <2>2 DEF TraceCPU
  <2>4. Len(l) = c.read /\ Len(l) + 1 = k
    BY <1>3 DEF ReadIsAdded, k
  <2>5. Offerable(f, l) /\ ReadIsAdded(f, l)
    BY <1>1, <2>2, <2>3, <2>4 DEF Offerable, ReadIsAdded
  <2>6. QED
    BY <2>2, <2>3, <2>5 DEF f
<1>4. CASE c.get_next_ /\ ~(c.read < n)
  <2>1. f = [[c EXCEPT !.get_next_ = FALSE] EXCEPT
               !.trans_ = [c.trans_ EXCEPT !.is_write = FALSE], !.eof = TRUE]
    BY <1>4 DEF Fetched, ReadLine, TraceCPU
  <2>2. [c.trans_ EXCEPT !.is_write = FALSE] \in Line
    BY DEF TraceCPU, Line
  <2> HIDE DEF f
  <2>3. f \in TraceCPU /\ f.trace = c.trace /\ f.read = c.read /\ ~f.get_next_ /\ f.eof
    BY <2>1, <2>2 DEF TraceCPU
  <2>4. Len(l) = n
    BY <1>1, <1>4 DEF ReadIsAdded
  <2>5. Offerable(f, l)
    BY <1>1, <2>3, <2>4 DEF Offerable
  <2>6. QED
    BY <2>3, <2>5 DEF f
<1>5. QED
  BY <1>2, <1>3, <1>4 DEF TraceCPU

(* The rest of a tick: what was read is offered if it is due.              *)
LEMMA TraceTickedOk ==
    ASSUME NEW f \in TraceCPU, f.read <= Len(f.trace), AddedInOrder(f, log), ~f.get_next_,
           Offerable(f, log), ~f.eof => ReadIsAdded(f, log), NEW offer,
           offer.added \in {<<>>, <<Transaction(f.trans_.addr, f.trans_.is_write)>>},
           offer.added # <<>> => f.trans_.added_cycle <= f.clk_,
           TraceTicked(f, offer)
    PROVE  TraceOk'
<1> DEFINE t == Transaction(f.trans_.addr, f.trans_.is_write)
           clk == IF f.clk_ < LastCycle THEN f.clk_ + 1 ELSE f.clk_
           more == IF f.trans_.added_cycle <= f.clk_ THEN offer.added # <<>> ELSE f.get_next_
<1>1. f.clk_ \in Nat /\ f.trans_ \in Line /\ f.trace \in Seq(Line) /\ Len(f.trace) \in Nat
  BY DEF TraceCPU
<1>2. clk \in Nat /\ more \in BOOLEAN /\ (more <=> offer.added # <<>>)
  <2>1. clk \in Nat
    BY <1>1
  <2>2. f.get_next_ = FALSE
    BY DEF TraceCPU
  <2>3. more \in BOOLEAN /\ (more <=> offer.added # <<>>)
    BY <2>2
  <2>4. QED
    BY <2>1, <2>3
<1>3. t \in Transactions
  BY <1>1 DEF Line, Transaction, Transactions
<1>4. cpu' = [f EXCEPT !.clk_ = clk, !.get_next_ = more] /\ log' = log \o offer.added
  BY DEF TraceTicked
<1> HIDE DEF clk, more, t
<1>5. /\ cpu' \in TraceCPU /\ cpu'.trace = f.trace /\ cpu'.read = f.read /\ cpu'.eof = f.eof
      /\ cpu'.trans_ = f.trans_ /\ cpu'.get_next_ = more
  BY <1>2, <1>4 DEF TraceCPU
<1>6. log \in Seq(Transactions) /\ Len(log) \in Nat
  BY DEF AddedInOrder
<1>7. CASE offer.added = <<>>
  <2>1. log' = log
    BY <1>3, <1>4, <1>6, <1>7, LogGrows
  <2>2. AddedInOrder(cpu, log)'
    BY <1>5, <2>1 DEF AddedInOrder
  <2>3. ~cpu'.eof => ReadIsAdded(cpu, log)'
    BY <1>2, <1>5, <1>7, <2>1 DEF ReadIsAdded
  <2>4. QED
    BY <1>5, <2>2, <2>3 DEF TraceOk
<1>8. CASE offer.added = <<t>>
  <2>1. log' = log \o <<t>>
    BY <1>4, <1>8
  <2>2. /\ log' \in Seq(Transactions) /\ Len(log') = Len(log) + 1
        /\ \A i \in 1 .. Len(log) : log'[i] = log[i]
        /\ log'[Len(log) + 1] = t
    BY <1>3, <1>6, <2>1, LogGrows
  <2>3. Len(log) < Len(f.trace) =>
          t = Transaction(f.trace[Len(log) + 1].addr, f.trace[Len(log) + 1].is_write)
    BY DEF Offerable, t
  <2>4. ASSUME NEW i \in 1 .. Len(log'), i <= Len(f.trace)
        PROVE  log'[i] = Transaction(f.trace[i].addr, f.trace[i].is_write)
    <3>1. CASE i = Len(log) + 1
      BY <1>1, <1>6, <2>2, <2>3, <2>4, <3>1
    <3>2. CASE i # Len(log) + 1
      <4>1. i \in 1 .. Len(log)
        BY <1>6, <2>2, <3>2
      <4>2. QED
        BY <2>2, <2>4, <4>1 DEF AddedInOrder
    <3>3. QED
      BY <3>1, <3>2
  <2>5. Len(log') <= Len(f.trace) + 1
    BY <1>1, <1>6, <2>2 DEF Offerable
  <2>6. AddedInOrder(cpu, log)'
    BY <1>5, <2>2, <2>4, <2>5 DEF AddedInOrder
  <2>7. more
    BY <1>2, <1>8
  <2>8. ~cpu'.eof => ReadIsAdded(cpu, log)'
    <3>1. ~f.eof => Len(log) = f.read - 1 /\ f.read \in Nat
      BY DEF ReadIsAdded, TraceCPU
    <3>2. QED
      BY <1>5, <2>2, <2>7, <3>1 DEF ReadIsAdded
  <2>9. QED
    BY <1>5, <2>6, <2>8 DEF TraceOk
<1>9. QED
  BY <1>7, <1>8 DEF t

(* A tick of TraceBasedCPU.                                                *)
LEMMA TraceTickOk ==
    ASSUME TraceOk, TraceClockTick PROVE TraceOk'
<1>1. CASE cpu.eof
  <2> DEFINE clk == IF cpu.clk_ < LastCycle THEN cpu.clk_ + 1 ELSE cpu.clk_
  <2>1. cpu' = [cpu EXCEPT !.clk_ = clk] /\ log' = log
    BY <1>1 DEF TraceClockTick
  <2>2. clk \in Nat /\ cpu \in TraceCPU
    BY DEF TraceOk, TraceCPU
  <2> HIDE DEF clk
  <2>3. /\ cpu' \in TraceCPU /\ cpu'.trace = cpu.trace /\ cpu'.read = cpu.read
        /\ cpu'.eof = cpu.eof
    BY <2>1, <2>2 DEF TraceCPU
  <2>4. AddedInOrder(cpu, log)'
    BY <2>1, <2>3 DEF TraceOk, AddedInOrder
  <2>5. QED
    BY <1>1, <2>3, <2>4 DEF TraceOk
<1>2. CASE ~cpu.eof
  <2> DEFINE f == Fetched(cpu)
             t == Transaction(f.trans_.addr, f.trans_.is_write)
             due == f.trans_.added_cycle <= f.clk_
             offer == IF due THEN Offer(TickedMemory, t)
                      ELSE [cs |-> TickedMemory, added |-> <<>>]
  <2>1. TraceTicked(f, offer)
    BY <1>2 DEF TraceClockTick, TraceOffered
  <2>2. /\ f \in TraceCPU /\ f.trace = cpu.trace /\ f.read <= Len(f.trace)
        /\ ~f.get_next_ /\ Offerable(f, log)
        /\ ~f.eof => ReadIsAdded(f, log)
    BY <1>2, FetchedOk DEF TraceOk
  <2> HIDE DEF f
  <2>3. AddedInOrder(f, log)
    BY <2>2 DEF TraceOk, AddedInOrder
  <2>4. offer.added \in {<<>>, <<t>>} /\ (offer.added # <<>> => due)
    BY OfferAnswer
  <2> HIDE DEF offer
  <2>5. QED
    BY <2>1, <2>2, <2>3, <2>4, TraceTickedOk
<1>3. QED
  BY <1>1, <1>2

-----------------------------------------------------------------------------
(* StreamCPU.                                                              *)

(* The array of a request that has been added gets the next number.        *)
LEMMA NumberedOneMore ==
    ASSUME NEW in \in [Arrays -> BOOLEAN], NEW base, NEW offset, NEW l,
           Numbered(l, in, base, offset), NEW w \in Arrays, ~in[w],
           Want(base, offset, w) \in Transactions
    PROVE  Numbered(l \o <<Want(base, offset, w)>>, [in EXCEPT ![w] = TRUE], base, offset)
<1> DEFINE t == Want(base, offset, w)
           m == l \o <<t>>
           new == [in EXCEPT ![w] = TRUE]
           n == Len(l)
<1>1. l \in Seq(Transactions) /\ n \in Nat /\ n = Count(in)
  BY DEF Numbered
<1>2. /\ m \in Seq(Transactions) /\ Len(m) = n + 1
      /\ \A i \in 1 .. n : m[i] = l[i]
      /\ m[n + 1] = t
  BY <1>1, LogGrows
<1>3. PICK array \in [1 .. n -> Arrays] :
        /\ \A i, j \in 1 .. n : array[i] = array[j] => i = j
        /\ \A v \in Arrays : in[v] <=> \E i \in 1 .. n : array[i] = v
        /\ \A i \in 1 .. n : l[i] = Want(base, offset, array[i])
  BY DEF Numbered
<1>4. Count(new) = n + 1
  <2>1. /\ new["a"] <=> (in["a"] \/ w = "a")
        /\ new["b"] <=> (in["b"] \/ w = "b")
        /\ new["c"] <=> (in["c"] \/ w = "c")
    BY DEF Arrays
  <2>2. w = "a" \/ w = "b" \/ w = "c"
    BY DEF Arrays
  <2> HIDE DEF new
  <2>3. QED
    BY <1>1, <2>1, <2>2 DEF Count
<1>5. \A v \in Arrays : new[v] <=> (in[v] \/ v = w)
  OBVIOUS
<1> DEFINE arr == [i \in 1 .. n + 1 |-> IF i = n + 1 THEN w ELSE array[i]]
<1>6. /\ arr \in [1 .. n + 1 -> Arrays] /\ arr[n + 1] = w
      /\ \A i \in 1 .. n : arr[i] = array[i] /\ i \in 1 .. n + 1
      /\ \A i \in 1 .. n + 1 : i = n + 1 \/ i \in 1 .. n
      /\ n + 1 \in 1 .. n + 1
  BY <1>1
<1> HIDE DEF arr, new, m, n, t
<1>7. \A i \in 1 .. n : array[i] # w
  BY <1>3
<1>8. \A i, j \in 1 .. n + 1 : arr[i] = arr[j] => i = j
  BY <1>3, <1>6, <1>7
<1>9. \A v \in Arrays : new[v] <=> \E i \in 1 .. n + 1 : arr[i] = v
  BY <1>3, <1>5, <1>6
<1>10. \A i \in 1 .. n + 1 : m[i] = Want(base, offset, arr[i])
  BY <1>2, <1>3, <1>6 DEF t
<1>11. Len(m) = n + 1
  BY <1>2
<1>12. \E a \in [1 .. Len(m) -> Arrays] :
         /\ \A i, j \in 1 .. Len(m) : a[i] = a[j] => i = j
         /\ \A v \in Arrays : new[v] <=> \E i \in 1 .. Len(m) : a[i] = v
         /\ \A i \in 1 .. Len(m) : m[i] = Want(base, offset, a[i])
  <2>1. arr \in [1 .. Len(m) -> Arrays]
    BY <1>6, <1>11
  <2> WITNESS arr \in [1 .. Len(m) -> Arrays]
  <2>2. \A i, j \in 1 .. Len(m) : arr[i] = arr[j] => i = j
    BY <1>8, <1>11
  <2>3. \A v \in Arrays : new[v] <=> \E i \in 1 .. Len(m) : arr[i] = v
    BY <1>9, <1>11
  <2>4. \A i \in 1 .. Len(m) : m[i] = Want(base, offset, arr[i])
    BY <1>10, <1>11
  <2>5. QED
    BY <2>2, <2>3, <2>4
<1>13. m \in Seq(Transactions) /\ Len(m) = Count(new)
  BY <1>2, <1>4
<1>14. Numbered(m, new, base, offset)
  BY <1>12, <1>13, Zenon DEF Numbered
<1>15. QED
  BY <1>14 DEF m, new, t

(* The state of StreamCPU between its three if statements, the log having  *)
(* been l at the beginning of the tick.                                    *)
Inserting(s, l, base, offset) ==
    /\ s.inserted \in [Arrays -> BOOLEAN] /\ s.added \in Seq(Transactions)
    /\ Numbered(l \o s.added, s.inserted, base, offset)

(* One of the three if statements.                                         *)
LEMMA InsertOk ==
    ASSUME NEW l \in Seq(Transactions), NEW s, NEW base, NEW offset,
           Inserting(s, l, base, offset), NEW w \in Arrays,
           Want(base, offset, w) \in Transactions
    PROVE  Inserting(Insert(s, base, offset, w), l, base, offset)
<1> DEFINE t == Want(base, offset, w)
           offer == Offer(s.cs, t)
           n == TryOffer(s, w, offer)
<1>1. CASE s.inserted[w]
  BY <1>1 DEF Insert
<1>2. CASE ~s.inserted[w]
  <2>1. Insert(s, base, offset, w) = n
    BY <1>2 DEF Insert
  <2>2. /\ n.added = s.added \o offer.added
        /\ n.inserted = [s.inserted EXCEPT ![w] = offer.added # <<>>]
    BY DEF TryOffer
  <2>3. offer.added \in {<<>>, <<t>>}
    BY OfferAnswer
  <2>4. /\ s.inserted \in [Arrays -> BOOLEAN] /\ s.added \in Seq(Transactions)
        /\ Numbered(l \o s.added, s.inserted, base, offset)
    BY DEF Inserting
  <2> HIDE DEF n, offer
  <2>5. CASE offer.added = <<>>
    <3>1. n.added = s.added
      BY <2>2, <2>4, <2>5, ConcatEmptySeq
    <3>2. n.inserted = s.inserted
      <4>1. n.inserted = [s.inserted EXCEPT ![w] = FALSE] /\ s.inserted[w] = FALSE
        BY <1>2, <2>2, <2>4, <2>5
      <4>2. QED
        BY <2>4, <4>1
    <3>3. QED
      BY <2>1, <2>4, <3>1, <3>2 DEF Inserting
  <2>6. CASE offer.added = <<t>>
    <3>1. <<t>> \in Seq(Transactions) /\ <<t>> # <<>>
      OBVIOUS
    <3>2. n.added \in Seq(Transactions) /\ l \o n.added = (l \o s.added) \o <<t>>
      <4> HIDE DEF t
      <4>1. n.added = s.added \o <<t>>
        BY <2>2, <2>6
      <4>2. s.added \o <<t>> \in Seq(Transactions)
        BY <2>4, <3>1, ConcatProperties
      <4>3. l \o (s.added \o <<t>>) = (l \o s.added) \o <<t>>
        <5> DEFINE u == <<t>>
                   v == s.added
        <5>1. u \in Seq(Transactions) /\ v \in Seq(Transactions)
          BY <2>4, <3>1
        <5> HIDE DEF u, v
        <5>2. l \o (v \o u) = (l \o v) \o u
          BY <5>1, ConcatAssociative
        <5>3. QED
          BY <5>2 DEF u, v
      <4>4. QED
        BY <4>1, <4>2, <4>3, Zenon
    <3>3. n.inserted = [s.inserted EXCEPT ![w] = TRUE]
      BY <2>2, <2>6, <3>1
    <3>4. Numbered((l \o s.added) \o <<t>>, [s.inserted EXCEPT ![w] = TRUE], base, offset)
      BY <1>2, <2>4, NumberedOneMore
    <3>5. [s.inserted EXCEPT ![w] = TRUE] \in [Arrays -> BOOLEAN]
      BY <2>4
    <3>6. QED
      BY <2>1, <3>2, <3>3, <3>4, <3>5 DEF Inserting
  <2>7. QED
    BY <2>3, <2>5, <2>6
<1>3. QED
  BY <1>1, <1>2

(* Nothing has been added for a new element.                               *)
LEMMA NothingNumbered ==
    ASSUME NEW base, NEW offset PROVE Numbered(<<>>, NoneIn, base, offset)
<1>1. << >> \in Seq(Transactions) /\ Len(<< >>) = 0 /\ 1 .. 0 = {}
  OBVIOUS
<1>2. Count(NoneIn) = 0 /\ \A w \in Arrays : ~NoneIn[w]
  BY DEF Count, NoneIn, Arrays
<1> DEFINE array == [i \in 1 .. 0 |-> "a"]
<1>3. array \in [1 .. 0 -> Arrays]
  BY DEF Arrays
<1> HIDE DEF array
<1>4. QED
  BY <1>1, <1>2, <1>3 DEF Numbered

(* An element is inside the arrays.                                        *)
LEMMA WantTyped ==
    ASSUME NEW base \in [Arrays -> Bases], NEW offset \in Nat, offset < ArraySize,
           NEW w \in Arrays
    PROVE  Want(base, offset, w) \in Transactions
<1>1. base[w] \in Bases /\ offset \in 0 .. ArraySize
  BY CpuAssumption
<1>2. base[w] + offset \in Addr
  BY <1>1, CpuAssumption
<1>3. QED
  BY <1>2 DEF Want, Transaction, Transactions

(* The three if statements and the end of a tick, for element offset.      *)
LEMMA StreamInsertedOk ==
    ASSUME StreamOk, NEW base \in [Arrays -> Bases], NEW offset \in Nat, offset < ArraySize,
           cpu.inserted = NoneIn \/ Numbered(log, cpu.inserted, base, offset),
           StreamInserted(base, offset, InsertAll(TickedMemory, base, offset))
    PROVE  StreamOk'
<1> DEFINE l == IF \A w \in Arrays : ~cpu.inserted[w] THEN <<>> ELSE log
           s0 == [cs |-> TickedMemory, added |-> <<>>, inserted |-> cpu.inserted]
           sa == Insert(s0, base, offset, "a")
           sb == Insert(sa, base, offset, "b")
           s == Insert(sb, base, offset, "c")
           done == \A w \in Arrays : s.inserted[w]
<1>1. StreamObject /\ "a" \in Arrays /\ "b" \in Arrays /\ "c" \in Arrays
  BY DEF StreamOk, Arrays
<1>2. /\ cpu' = NextElement(base, offset, s) /\ log' = l \o s.added
  BY DEF StreamInserted, InsertAll
<1>3. l \in Seq(Transactions) /\ Numbered(l, cpu.inserted, base, offset)
  <2>1. CASE \A w \in Arrays : ~cpu.inserted[w]
    <3>1. cpu.inserted = NoneIn
      BY <1>1, <2>1 DEF StreamObject, NoneIn
    <3>2. l = <<>>
      BY <2>1
    <3>3. Numbered(<<>>, NoneIn, base, offset) /\ <<>> \in Seq(Transactions)
      BY NothingNumbered DEF Numbered
    <3> HIDE DEF l
    <3>4. QED
      BY <3>1, <3>2, <3>3, Zenon
  <2>2. CASE ~\A w \in Arrays : ~cpu.inserted[w]
    <3>1. cpu.inserted # NoneIn
      BY <2>2 DEF NoneIn
    <3>2. l = log /\ Numbered(log, cpu.inserted, base, offset)
      BY <2>2, <3>1
    <3>3. QED
      BY <3>2 DEF Numbered
  <2>3. QED
    BY <2>1, <2>2
<1>4. \A w \in Arrays : Want(base, offset, w) \in Transactions
  BY WantTyped
<1>5. Inserting(s0, l, base, offset)
  <2>1. l \o s0.added = l
    BY <1>3, ConcatEmptySeq
  <2>2. QED
    BY <1>1, <1>3, <2>1 DEF Inserting, StreamObject
<1> HIDE DEF l, s0
<1>6. Inserting(sa, l, base, offset)
  BY <1>1, <1>3, <1>4, <1>5, InsertOk
<1> HIDE DEF sa
<1>7. Inserting(sb, l, base, offset)
  BY <1>1, <1>3, <1>4, <1>6, InsertOk
<1> HIDE DEF sb
<1>8. Inserting(s, l, base, offset)
  BY <1>1, <1>3, <1>4, <1>7, InsertOk
<1> HIDE DEF s
<1>9. s.inserted \in [Arrays -> BOOLEAN] /\ Numbered(log', s.inserted, base, offset)
  BY <1>2, <1>8 DEF Inserting
<1> DEFINE o == IF done THEN offset + Stride ELSE offset
           in == [w \in Arrays |-> ~done /\ s.inserted[w]]
<1>10. cpu' = [cpu EXCEPT !.first = FALSE, !.base = base, !.offset_ = o, !.inserted = in]
  BY <1>2 DEF NextElement
<1>11. o \in Nat /\ in \in [Arrays -> BOOLEAN] /\ Stride \in Nat
  BY CpuAssumption
<1>12. done => s.inserted = AllIn /\ in = NoneIn /\ o = offset + Stride
  BY <1>9 DEF AllIn, NoneIn
<1>13. ~done => s.inserted # AllIn /\ in = s.inserted /\ o = offset
  BY <1>9 DEF AllIn
<1>14. NoneIn # AllIn
  BY DEF NoneIn, AllIn, Arrays
<1> HIDE DEF o, in, done
<1>15. cpu' = [class |-> "stream", first |-> FALSE, base |-> base, offset_ |-> o,
               inserted |-> in]
  <2> DEFINE f == cpu.first
             b == cpu.base
             p == cpu.offset_
             q == cpu.inserted
  <2>1. cpu = [class |-> "stream", first |-> f, base |-> b, offset_ |-> p, inserted |-> q]
    BY <1>1 DEF StreamObject
  <2> HIDE DEF f, b, p, q
  <2>2. QED
    BY <1>10, <2>1
<1>16. /\ cpu'.first = FALSE /\ cpu'.base = base /\ cpu'.offset_ = o /\ cpu'.inserted = in
       /\ StreamObject'
  BY <1>11, <1>15 DEF StreamObject
<1>17. CASE done
  <2>1. o >= Stride /\ o - Stride = offset
    BY <1>11, <1>12, <1>17
  <2>2. QED
    BY <1>9, <1>12, <1>14, <1>16, <1>17, <2>1 DEF StreamOk
<1>18. CASE ~done
  <2>1. ~(o >= ArraySize)
    BY <1>13, <1>18, CpuAssumption
  <2>2. QED
    BY <1>9, <1>13, <1>16, <1>18, <2>1 DEF StreamOk
<1>19. QED
  BY <1>17, <1>18

(* A tick of StreamCPU.                                                    *)
LEMMA StreamTickOk ==
    ASSUME StreamOk, StreamClockTick PROVE StreamOk'
<1>1. CASE cpu.offset_ >= ArraySize \/ cpu.first
  <2>1. PICK base \in [Arrays -> Bases] :
          StreamInserted(base, 0, InsertAll(TickedMemory, base, 0))
    BY <1>1 DEF StreamClockTick
  <2>2. cpu.inserted = NoneIn /\ 0 < ArraySize
    BY <1>1, CpuAssumption DEF StreamOk
  <2>3. QED
    BY <2>1, <2>2, StreamInsertedOk
<1>2. CASE ~(cpu.offset_ >= ArraySize \/ cpu.first)
  <2>1. StreamInserted(cpu.base, cpu.offset_,
                       InsertAll(TickedMemory, cpu.base, cpu.offset_))
    BY <1>2 DEF StreamClockTick
  <2>2. cpu.offset_ \in Nat /\ cpu.offset_ < ArraySize /\ cpu.base \in [Arrays -> Bases]
    BY <1>2, CpuAssumption DEF StreamOk, StreamObject
  <2>3. cpu.inserted = NoneIn \/ Numbered(log, cpu.inserted, cpu.base, cpu.offset_)
    BY DEF StreamOk
  <2>4. QED
    BY <2>1, <2>2, <2>3, StreamInsertedOk
<1>3. QED
  BY <1>1, <1>2

-----------------------------------------------------------------------------
(* All front ends.                                                         *)

(* A tick of RandomCPU.                                                    *)
LEMMA RandomTickOk ==
    ASSUME RandomObject, RandomClockTick PROVE RandomObject' /\ cpu'.class = "random"
<1>1. PICK req, next : cpu' = [cpu EXCEPT !.last = req, !.get_next_ = next]
  BY DEF RandomClockTick, RandomOffered
<1> DEFINE g == cpu.get_next_
           r == cpu.last
<1>2. cpu = [class |-> "random", get_next_ |-> g, last |-> r]
  BY DEF RandomObject
<1> HIDE DEF g, r
<1>3. cpu' = [class |-> "random", get_next_ |-> next, last |-> req]
  BY <1>1, <1>2
<1>4. QED
  BY <1>3 DEF RandomObject

(* The constructors.                                                       *)
LEMMA CpuInitOk ==
    ASSUME CpuInit PROVE CpuOk
<1>1. log = <<>>
  BY DEF CpuInit
<1>2. CASE cpu = NewRandomCPU
  BY <1>2 DEF CpuOk, RandomObject, NewRandomCPU
<1>3. CASE cpu = NewStreamCPU
  <2> DEFINE b == [w \in Arrays |-> Min(Bases)]
             o == 0
  <2>1. cpu = [class |-> "stream", first |-> TRUE, base |-> b, offset_ |-> o,
               inserted |-> NoneIn]
    BY <1>3 DEF NewStreamCPU, NoneIn
  <2>2. o \in Nat /\ NoneIn \in [Arrays -> BOOLEAN] /\ NoneIn # AllIn
    BY DEF NoneIn, AllIn, Arrays
  <2> HIDE DEF b, o
  <2>3. /\ cpu.class = "stream" /\ cpu.first = TRUE /\ cpu.inserted = NoneIn
        /\ StreamObject
    BY <2>1, <2>2 DEF StreamObject
  <2>4. Numbered(log, cpu.inserted, cpu.base, cpu.offset_)
    BY <1>1, <2>3, NothingNumbered
  <2>5. StreamOk
    BY <2>2, <2>3, <2>4 DEF StreamOk
  <2>6. QED
    BY <2>3, <2>5 DEF CpuOk
<1>4. CASE \E trace \in Traces, newline \in Endings,
              trans_ \in [addr : Addr, is_write : BOOLEAN, added_cycle : 0 .. LastCycle] :
             cpu = NewTraceBasedCPU(trace, newline, trans_)
  <2>1. PICK trace \in Traces, newline \in Endings,
             trans_ \in [addr : Addr, is_write : BOOLEAN, added_cycle : 0 .. LastCycle] :
          cpu = NewTraceBasedCPU(trace, newline, trans_)
    BY <1>4
  <2>2. trace \in Seq(Line) /\ newline \in BOOLEAN /\ Len(trace) \in Nat
    BY CpuAssumption
  <2>3. trans_ \in Line
    BY DEF Line
  <2>4. /\ cpu \in TraceCPU /\ cpu.class = "trace" /\ cpu.trace = trace /\ cpu.read = 0
        /\ cpu.get_next_ = TRUE
    BY <2>1, <2>2, <2>3 DEF TraceCPU, NewTraceBasedCPU
  <2>5. <<>> \in Seq(Transactions) /\ Len(<<>>) = 0
    OBVIOUS
  <2>6. AddedInOrder(cpu, log) /\ ReadIsAdded(cpu, log)
    BY <1>1, <2>2, <2>4, <2>5 DEF AddedInOrder, ReadIsAdded
  <2>7. TraceOk
    BY <2>2, <2>4, <2>6 DEF TraceOk
  <2>8. QED
    BY <2>4, <2>7 DEF CpuOk
<1>5. QED
  BY <1>2, <1>3, <1>4 DEF CpuInit

(* The tick of any of them.                                                *)
LEMMA CpuNextOk ==
    ASSUME CpuOk, [CpuNext]_cvars PROVE CpuOk'
<1>1. CASE RandomClockTick
  <2>1. RandomObject
    BY <1>1 DEF CpuOk, RandomClockTick
  <2>2. QED
    BY <1>1, <2>1, RandomTickOk DEF CpuOk
<1>2. CASE StreamClockTick
  <2>1. StreamOk
    BY <1>2 DEF CpuOk, StreamClockTick
  <2>2. StreamOk'
    BY <1>2, <2>1, StreamTickOk
  <2>3. cpu'.class = "stream"
    BY <2>2 DEF StreamOk, StreamObject
  <2>4. QED
    BY <2>2, <2>3 DEF CpuOk
<1>3. CASE TraceClockTick
  <2>1. TraceOk
    BY <1>3 DEF CpuOk, TraceClockTick
  <2>2. TraceOk'
    BY <1>3, <2>1, TraceTickOk
  <2>3. cpu'.class = "trace"
    BY <2>2 DEF TraceOk, TraceCPU
  <2>4. QED
    BY <2>2, <2>3 DEF CpuOk
<1>4. CASE UNCHANGED cvars
  <2>1. cpu' = cpu /\ log' = log
    BY <1>4 DEF cvars
  <2>2. QED
    BY <2>1 DEF CpuOk, RandomObject, StreamOk, StreamObject, TraceOk, Numbered,
                AddedInOrder, ReadIsAdded
<1>5. QED
  BY <1>1, <1>2, <1>3, <1>4 DEF CpuNext

(* What the front ends have added, in every state.                         *)
THEOREM FrontEndsStayOk == CpuSpec => []CpuOk
<1>1. CpuInit => CpuOk
  BY CpuInitOk
<1>2. CpuOk /\ [CpuNext]_cvars => CpuOk'
  BY CpuNextOk
<1>3. QED
  BY <1>1, <1>2, PTL DEF CpuSpec

(***************************************************************************)
(* The memory system gets the lines of any trace in their order, none      *)
(* twice and none passed over, whatever it refuses (TraceInOrder).         *)
(***************************************************************************)
THEOREM TracesKeepTheirOrder == CpuSpec => []TraceInOrder
<1>1. CpuOk => TraceInOrder
  BY DEF CpuOk, TraceOk, AddedInOrder, TraceInOrder, Wanted
<1>2. QED
  BY <1>1, FrontEndsStayOk, PTL

(* The places of request t in l, and the arrays it has been added for.     *)
PlacesOf(l, t) == {i \in DOMAIN l : l[i] = t}
ArraysOf(in, base, offset, t) ==
    {w \in {w \in Arrays : in[w]} : Want(base, offset, w) = t}

(* A request has been added once for every array that it is for.           *)
LEMMA NumberedCounts ==
    ASSUME NEW in \in [Arrays -> BOOLEAN], NEW base, NEW offset, NEW l,
           Numbered(l, in, base, offset), NEW t
    PROVE  Cardinality(PlacesOf(l, t)) = Cardinality(ArraysOf(in, base, offset, t))
<1> DEFINE S == PlacesOf(l, t)
           T == ArraysOf(in, base, offset, t)
<1> USE DEF PlacesOf, ArraysOf
<1>1. Len(l) \in Nat /\ DOMAIN l = 1 .. Len(l)
  BY DEF Numbered
<1>2. PICK array \in [1 .. Len(l) -> Arrays] :
        /\ \A i, j \in 1 .. Len(l) : array[i] = array[j] => i = j
        /\ \A w \in Arrays : in[w] <=> \E i \in 1 .. Len(l) : array[i] = w
        /\ \A i \in 1 .. Len(l) : l[i] = Want(base, offset, array[i])
  BY DEF Numbered
<1>3. S \subseteq 1 .. Len(l) /\ IsFiniteSet(1 .. Len(l))
  BY <1>1, FS_Interval
<1>4. IsFiniteSet(S)
  BY <1>3, FS_Subset
<1> DEFINE f == [i \in S |-> array[i]]
<1>5. \A i \in S : array[i] \in T
  BY <1>1, <1>2
<1>6. \A w \in T : \E i \in S : array[i] = w
  BY <1>1, <1>2
<1>7. \A i, j \in S : array[i] = array[j] => i = j
  BY <1>2, <1>3
<1> HIDE DEF S, T
<1>8. f \in [S -> T] /\ \A i \in S : f[i] = array[i]
  BY <1>5
<1> HIDE DEF f
<1>9. f \in Bijection(S, T)
  <2>1. \A i, j \in S : f[i] = f[j] => i = j
    BY <1>7, <1>8
  <2>2. \A w \in T : \E i \in S : f[i] = w
    BY <1>6, <1>8
  <2>3. QED
    BY <1>8, <2>1, <2>2 DEF Bijection, Injection, IsInjective, Surjection
<1>10. ExistsBijection(S, T)
  BY <1>9 DEF ExistsBijection
<1>11. Cardinality(S) = Cardinality(T)
  BY <1>4, <1>10, FS_Bijection
<1>12. QED
  BY <1>11 DEF S, T

(***************************************************************************)
(* StreamCPU adds for every element one read of each source array and one  *)
(* write of the third, whatever the memory refuses and when (StreamWhole). *)
(***************************************************************************)
THEOREM StreamElementsAreWhole == CpuSpec => []StreamWhole
<1>1. ASSUME StreamOk PROVE StreamWhole
  <2> DEFINE done == Len(log) = 3
             in == {w \in Arrays : done \/ cpu.inserted[w]}
             offset == IF done THEN cpu.offset_ - Stride ELSE cpu.offset_
  <2>1. SUFFICES ASSUME NEW t \in Transactions
                 PROVE  Cardinality({i \in DOMAIN log : log[i] = t})
                          = Cardinality({w \in in : Want(cpu.base, offset, w) = t})
    BY DEF StreamWhole
  <2>2. cpu.inserted \in [Arrays -> BOOLEAN] /\ AllIn \in [Arrays -> BOOLEAN]
    BY <1>1 DEF StreamOk, StreamObject, AllIn
  <2>3. CASE Numbered(log, cpu.inserted, cpu.base, cpu.offset_)
    <3>1. \E w \in Arrays : ~cpu.inserted[w]
      BY <1>1, <2>2 DEF StreamOk, AllIn
    <3>2. ~cpu.inserted["a"] \/ ~cpu.inserted["b"] \/ ~cpu.inserted["c"]
      BY <3>1 DEF Arrays
    <3>3. Len(log) = Count(cpu.inserted) /\ Count(cpu.inserted) # 3
      BY <2>3, <3>2 DEF Numbered, Count
    <3>4. in = {w \in Arrays : cpu.inserted[w]} /\ offset = cpu.offset_
      BY <3>3
    <3> HIDE DEF in, offset
    <3>5. Cardinality(PlacesOf(log, t))
            = Cardinality(ArraysOf(cpu.inserted, cpu.base, cpu.offset_, t))
      BY <2>2, <2>3, NumberedCounts
    <3>6. QED
      BY <3>4, <3>5 DEF PlacesOf, ArraysOf
  <2>4. CASE Numbered(log, AllIn, cpu.base, cpu.offset_ - Stride)
    <3>1. Len(log) = 3
      BY <2>4 DEF Numbered, Count, AllIn, Arrays
    <3>2. in = {w \in Arrays : AllIn[w]} /\ offset = cpu.offset_ - Stride
      BY <3>1 DEF AllIn
    <3> DEFINE o == cpu.offset_ - Stride
    <3> HIDE DEF in, offset, o
    <3>3. Numbered(log, AllIn, cpu.base, o) /\ offset = o
      BY <2>4, <3>2 DEF o
    <3>4. Cardinality(PlacesOf(log, t)) = Cardinality(ArraysOf(AllIn, cpu.base, o, t))
      BY <2>2, <3>3, NumberedCounts
    <3>5. QED
      BY <3>2, <3>3, <3>4 DEF PlacesOf, ArraysOf
  <2>5. QED
    BY <1>1, <2>3, <2>4 DEF StreamOk
<1>2. CpuOk => StreamWhole
  <2>1. CpuOk /\ cpu.class = "stream" => StreamOk
    BY DEF CpuOk
  <2>2. cpu.class # "stream" => StreamWhole
    BY DEF StreamWhole
  <2>3. QED
    BY <1>1, <2>1, <2>2
<1>3. QED
  BY <1>2, FrontEndsStayOk, PTL

-----------------------------------------------------------------------------
(* The memory under the front ends: the controllers stay sound.            *)

(* The controllers of all channels.                                        *)
SoundMemory(cs) ==
    cs \in [Channels -> ControllerType] /\ \A ch \in Channels : Sound(cs[ch])

(* A cycle of the memory.                                                  *)
LEMMA TickedMemorySound ==
    ASSUME SoundMemory(ctrls_) PROVE SoundMemory(TickedMemory)
<1>1. ASSUME NEW ch \in Channels
      PROVE  Sound(TickedMemory[ch]) /\ TickedMemory[ch] \in ControllerType
  <2>1. Sound(ReturnDoneTrans(ctrls_[ch]))
    BY ReturnDoneSound DEF SoundMemory
  <2>2. Sound(ControllerClockTick(ReturnDoneTrans(ctrls_[ch])))
    BY <2>1, ControllerTickSound
  <2>3. QED
    BY <2>2 DEF TickedMemory, Sound, Safe
<1>2. TickedMemory = [ch \in Channels |-> TickedMemory[ch]]
  BY DEF TickedMemory
<1> HIDE DEF TickedMemory
<1>3. QED
  BY <1>1, <1>2 DEF SoundMemory

(* An offer, taken or refused.                                             *)
LEMMA OfferSound ==
    ASSUME NEW cs, SoundMemory(cs), NEW t \in Transactions
    PROVE  SoundMemory(Offer(cs, t).cs)
<1> DEFINE ch == GetChannel(t.addr)
           c == ControllerAddTransaction(cs[ch], t)
           new == [cs EXCEPT ![ch] = c]
<1>1. ch \in Channels
  BY ChannelOf
<1>2. Sound(c)
  BY <1>1, AddTransactionSound DEF SoundMemory
<1>3. c \in ControllerType
  BY <1>2 DEF Sound, Safe
<1>4. Offer(cs, t).cs \in {cs, new}
  BY DEF Offer
<1> HIDE DEF c, ch
<1>5. SoundMemory(new)
  BY <1>1, <1>2, <1>3 DEF SoundMemory
<1>6. QED
  BY <1>4, <1>5

(* One of the if statements of StreamCPU.                                  *)
LEMMA InsertSound ==
    ASSUME NEW s, SoundMemory(s.cs), NEW base, NEW offset, NEW w,
           Want(base, offset, w) \in Transactions
    PROVE  SoundMemory(Insert(s, base, offset, w).cs)
<1>1. SoundMemory(Offer(s.cs, Want(base, offset, w)).cs)
  BY OfferSound
<1>2. QED
  BY <1>1 DEF Insert, TryOffer

(* The three of them.                                                      *)
LEMMA InsertAllSound ==
    ASSUME SoundMemory(ctrls_), NEW base \in [Arrays -> Bases],
           NEW offset \in Nat, offset < ArraySize
    PROVE  SoundMemory(InsertAll(TickedMemory, base, offset).cs)
<1> DEFINE s0 == [cs |-> TickedMemory, added |-> <<>>, inserted |-> cpu.inserted]
           sa == Insert(s0, base, offset, "a")
           sb == Insert(sa, base, offset, "b")
<1>1. /\ Want(base, offset, "a") \in Transactions
      /\ Want(base, offset, "b") \in Transactions
      /\ Want(base, offset, "c") \in Transactions
  BY WantTyped DEF Arrays
<1>2. SoundMemory(s0.cs)
  BY TickedMemorySound
<1> HIDE DEF s0
<1>3. SoundMemory(sa.cs)
  BY <1>1, <1>2, InsertSound
<1> HIDE DEF sa
<1>4. SoundMemory(sb.cs)
  BY <1>1, <1>3, InsertSound
<1> HIDE DEF sb
<1>5. SoundMemory(Insert(sb, base, offset, "c").cs)
  BY <1>1, <1>4, InsertSound
<1>6. QED
  BY <1>5 DEF InsertAll, sb, sa, s0

(* What the front ends offer is a request the memory can address.          *)
LEMMA CpuNextSound ==
    ASSUME CpuOk, SoundMemory(ctrls_), [CpuNext]_cvars PROVE SoundMemory(ctrls_')
<1>1. CASE RandomClockTick
  <2>1. PICK req \in Requests : ctrls_' = Offer(TickedMemory, req).cs
    BY <1>1 DEF RandomClockTick, RandomOffered
  <2>2. req \in Transactions
    BY RequestsAssumption
  <2>3. QED
    BY <2>1, <2>2, TickedMemorySound, OfferSound
<1>2. CASE StreamClockTick
  <2>1. StreamOk
    BY <1>2 DEF CpuOk, StreamClockTick
  <2>2. CASE cpu.offset_ >= ArraySize \/ cpu.first
    <3> DEFINE o == 0
    <3>1. PICK base \in [Arrays -> Bases] :
            ctrls_' = InsertAll(TickedMemory, base, o).cs
      BY <1>2, <2>2 DEF StreamClockTick, StreamInserted
    <3>2. o \in Nat /\ o < ArraySize
      BY CpuAssumption
    <3> HIDE DEF o
    <3>3. QED
      BY <3>1, <3>2, InsertAllSound
  <2>3. CASE ~(cpu.offset_ >= ArraySize \/ cpu.first)
    <3>1. ctrls_' = InsertAll(TickedMemory, cpu.base, cpu.offset_).cs
      BY <1>2, <2>3 DEF StreamClockTick, StreamInserted
    <3>2. cpu.offset_ \in Nat /\ cpu.offset_ < ArraySize /\ cpu.base \in [Arrays -> Bases]
      BY <2>1, <2>3, CpuAssumption DEF StreamOk, StreamObject
    <3>3. QED
      BY <3>1, <3>2, InsertAllSound
  <2>4. QED
    BY <2>2, <2>3
<1>3. CASE TraceClockTick
  <2>1. TraceOk
    BY <1>3 DEF CpuOk, TraceClockTick
  <2>2. CASE cpu.eof
    BY <1>3, <2>2, TickedMemorySound DEF TraceClockTick
  <2>3. CASE ~cpu.eof
    <3> DEFINE f == Fetched(cpu)
               t == Transaction(f.trans_.addr, f.trans_.is_write)
    <3>1. f \in TraceCPU
      BY <2>1, <2>3, FetchedOk DEF TraceOk
    <3>2. ctrls_' \in {Offer(TickedMemory, t).cs, TickedMemory}
      BY <1>3, <2>3 DEF TraceClockTick, TraceOffered, TraceTicked
    <3> HIDE DEF f
    <3>3. t \in Transactions
      BY <3>1 DEF TraceCPU, Line, Transaction, Transactions
    <3> HIDE DEF t
    <3>4. QED
      BY <3>2, <3>3, TickedMemorySound, OfferSound
  <2>4. QED
    BY <2>2, <2>3
<1>4. CASE UNCHANGED cvars
  BY <1>4 DEF cvars, vars
<1>5. QED
  BY <1>1, <1>2, <1>3, <1>4 DEF CpuNext

(* Whichever front end runs and whatever it offers, every controller stays *)
(* sound: what JedecQueueProofs says of free requests holds of theirs.     *)
THEOREM FrontEndsKeepMemorySound == CpuSpec => []AllSound
<1>1. CpuInit => SoundMemory(ctrls_)
  <2> SUFFICES ASSUME CpuInit PROVE SoundMemory(ctrls_)
    OBVIOUS
  <2>1. Sound(NewController) /\ NewController \in ControllerType
    BY NewControllerSound DEF Sound, Safe
  <2>2. ctrls_ = [ch \in Channels |-> NewController]
    BY DEF CpuInit, Init
  <2>3. QED
    BY <2>1, <2>2 DEF SoundMemory
<1>2. CpuOk /\ SoundMemory(ctrls_) /\ [CpuNext]_cvars => SoundMemory(ctrls_)'
  BY CpuNextSound
<1>3. SoundMemory(ctrls_) => AllSound
  BY DEF SoundMemory, AllSound
<1>4. QED
  BY <1>1, <1>2, <1>3, FrontEndsStayOk, PTL DEF CpuSpec

(* No front end drives more activations of a rank into a window than its   *)
(* depth (ActivationsInWindow).                                            *)
THEOREM FrontEndsStayInWindow == CpuSpec => []ActivationsInWindow
<1>1. AllSound => AllSafe
  BY DEF AllSound, AllSafe, Sound
<1>2. QED
  BY <1>1, SafeInWindow, FrontEndsKeepMemorySound, PTL

(* Without self-refresh no front end ever meets exit(1) or AbruptExit, so  *)
(* that main() ticks for ever (NoErrorExit).                               *)
THEOREM FrontEndsNeverExit ==
    ASSUME ~config.enable_self_refresh PROVE CpuSpec => []NoErrorExit
<1>1. AllSound => NoErrorExit
  BY DEF AllSound, Sound, NoErrorExit, Running
<1>2. QED
  BY <1>1, FrontEndsKeepMemorySound, PTL
=============================================================================
