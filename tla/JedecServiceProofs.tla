-------------------------- MODULE JedecServiceProofs --------------------------
(***************************************************************************)
(* The JEDEC memory system implements MemoryService, for every             *)
(* configuration: a request that was accepted is owed by its controller    *)
(* until a cycle returns it, whatever becomes of it in between.  The proof *)
(* follows the number of requests a controller owes (Owed) through each    *)
(* part of AddTransaction and ClockTick.                                   *)
(***************************************************************************)
EXTENDS JedecQueueProofs

-----------------------------------------------------------------------------
(* Sums of natural numbers.                                                *)

(* s are the partial sums of f.                                            *)
Sums(s, f, n) ==
    /\ s \in [0 .. n -> Nat]
    /\ s[0] = f[0]
    /\ \A i \in 1 .. n : s[i] = f[i] + s[i - 1]

(* SumUpTo, a recursive definition, is the last of the partial sums.       *)
LEMMA SumUpToIsSum ==
    ASSUME NEW n \in Nat, NEW f \in [0 .. n -> Nat]
    PROVE  \E s : Sums(s, f, n) /\ SumUpTo(f, n) = s[n]
<1> DEFINE P == {m \in Nat : m <= n => \E s : Sums(s, f, m)}
           Next1(s) == [i \in 0 .. n |-> f[i] + (IF i = 0 THEN 0 ELSE s[i - 1])]
<1>1. 0 \in P
  <2> DEFINE s == [i \in 0 .. 0 |-> f[0]]
  <2>1. f[0] \in Nat
    OBVIOUS
  <2>2. s \in [0 .. 0 -> Nat] /\ s[0] = f[0] /\ 1 .. 0 = {}
    BY <2>1
  <2>3. Sums(s, f, 0)
    BY <2>2 DEF Sums
  <2>4. QED
    BY <2>3
<1>2. ASSUME NEW m \in P PROVE m + 1 \in P
  <2> SUFFICES ASSUME m + 1 <= n PROVE \E s : Sums(s, f, m + 1)
    OBVIOUS
  <2>1. PICK s : Sums(s, f, m)
    OBVIOUS
  <2> DEFINE g == [i \in 0 .. m + 1 |-> IF i <= m THEN s[i] ELSE f[m + 1] + s[m]]
  <2>2. s \in [0 .. m -> Nat] /\ m \in Nat /\ f[m + 1] \in Nat
    BY <2>1 DEF Sums
  <2>3. g \in [0 .. m + 1 -> Nat]
    BY <2>2
  <2>4. /\ \A i \in 0 .. m : g[i] = s[i]
        /\ g[m + 1] = f[m + 1] + s[m]
    BY <2>2
  <2> HIDE DEF g
  <2>5. g[0] = f[0]
    BY <2>1, <2>2, <2>4 DEF Sums
  <2>6. ASSUME NEW i \in 1 .. m + 1 PROVE g[i] = f[i] + g[i - 1]
    <3>1. CASE i = m + 1
      BY <2>2, <2>4, <3>1
    <3>2. CASE i # m + 1
      <4>1. i \in 1 .. m /\ i \in 0 .. m /\ i - 1 \in 0 .. m
        BY <2>2, <3>2
      <4>2. QED
        BY <2>1, <2>4, <4>1 DEF Sums
    <3>3. QED
      BY <3>1, <3>2
  <2>7. Sums(g, f, m + 1)
    BY <2>3, <2>5, <2>6 DEF Sums
  <2>8. QED
    BY <2>7
<1>3. n \in P
  BY <1>1, <1>2, SetInduction
<1>4. PICK s : Sums(s, f, n)
  BY <1>3
<1>5. s = Next1(s)
  <2>1. s \in [0 .. n -> Nat]
    BY <1>4 DEF Sums
  <2>2. ASSUME NEW i \in 0 .. n PROVE s[i] = f[i] + (IF i = 0 THEN 0 ELSE s[i - 1])
    <3>1. CASE i = 0
      <4>1. f[0] \in Nat /\ s[0] = f[0]
        BY <1>4 DEF Sums
      <4>2. QED
        BY <3>1, <4>1
    <3>2. CASE i # 0
      <4>1. i \in 1 .. n
        BY <3>2
      <4>2. QED
        BY <1>4, <3>2, <4>1 DEF Sums
    <3>3. QED
      BY <3>1, <3>2
  <2>3. QED
    BY <2>1, <2>2
<1> DEFINE sum == CHOOSE g : g = Next1(g)
<1>6. sum = Next1(sum)
  BY <1>5
<1>7. SumUpTo(f, n) = sum[n]
  BY DEF SumUpTo
<1> HIDE DEF sum
<1>8. \A i \in 0 .. n : sum[i] = f[i] + (IF i = 0 THEN 0 ELSE sum[i - 1])
  BY <1>6
<1> DEFINE Q == {m \in Nat : m <= n => sum[m] \in Nat}
<1>9. 0 \in Q
  BY <1>8
<1>10. ASSUME NEW m \in Q PROVE m + 1 \in Q
  <2> SUFFICES ASSUME m + 1 <= n PROVE sum[m + 1] \in Nat
    OBVIOUS
  <2>1. m + 1 \in 0 .. n /\ m \in 0 .. n /\ m + 1 # 0 /\ (m + 1) - 1 = m
    OBVIOUS
  <2>2. sum[m] \in Nat /\ sum[m + 1] = f[m + 1] + sum[m]
    BY <1>8, <2>1
  <2>3. QED
    BY <2>1, <2>2
<1>11. \A m \in Nat : m \in Q
  <2> HIDE DEF Q
  <2>1. Q \in SUBSET Nat
    BY DEF Q
  <2>2. QED
    BY <1>9, <1>10, <2>1, SetInduction
<1>12. sum \in [0 .. n -> Nat]
  <2>1. \A i \in 0 .. n : sum[i] \in Nat
    BY <1>11
  <2>2. DOMAIN sum = 0 .. n /\ sum = [i \in 0 .. n |-> sum[i]]
    BY <1>6
  <2>3. QED
    BY <2>1, <2>2
<1>13. Sums(sum, f, n)
  <2>1. sum[0] = f[0]
    BY <1>8
  <2>2. \A i \in 1 .. n : sum[i] = f[i] + sum[i - 1]
    BY <1>8
  <2>3. QED
    BY <1>12, <2>1, <2>2 DEF Sums
<1>14. QED
  BY <1>7, <1>13

(* A sum is a natural number.                                              *)
LEMMA SumType ==
    ASSUME NEW n \in Nat, NEW f \in [0 .. n -> Nat] PROVE SumUpTo(f, n) \in Nat
BY SumUpToIsSum DEF Sums

(* One of the numbers grows by d, and so does the sum.                     *)
LEMMA SumGrows ==
    ASSUME NEW n \in Nat, NEW f \in [0 .. n -> Nat], NEW g \in [0 .. n -> Nat],
           NEW k \in 0 .. n, NEW d \in Nat, g[k] = f[k] + d,
           \A i \in 0 .. n : i # k => g[i] = f[i]
    PROVE  SumUpTo(g, n) = SumUpTo(f, n) + d
<1>1. PICK s : Sums(s, f, n) /\ SumUpTo(f, n) = s[n]
  BY SumUpToIsSum
<1>2. PICK r : Sums(r, g, n) /\ SumUpTo(g, n) = r[n]
  BY SumUpToIsSum
<1>0. /\ s \in [0 .. n -> Nat] /\ r \in [0 .. n -> Nat] /\ s[0] = f[0] /\ r[0] = g[0]
      /\ \A i \in 1 .. n : s[i] = f[i] + s[i - 1] /\ r[i] = g[i] + r[i - 1]
  BY <1>1, <1>2 DEF Sums
<1> DEFINE P == {m \in Nat : m <= n => r[m] = s[m] + (IF m >= k THEN d ELSE 0)}
<1>3. 0 \in P
  <2>1. f[0] \in Nat /\ 0 \in 0 .. n
    OBVIOUS
  <2>2. QED
    BY <1>0, <2>1
<1>4. ASSUME NEW m \in P PROVE m + 1 \in P
  <2> SUFFICES ASSUME m + 1 <= n
               PROVE  r[m + 1] = s[m + 1] + (IF m + 1 >= k THEN d ELSE 0)
    OBVIOUS
  <2>1. m + 1 \in 1 .. n /\ m + 1 \in 0 .. n /\ m \in 0 .. n /\ (m + 1) - 1 = m
    OBVIOUS
  <2>2. s[m + 1] = f[m + 1] + s[m] /\ r[m + 1] = g[m + 1] + r[m]
    BY <1>0, <2>1
  <2>3. r[m] = s[m] + (IF m >= k THEN d ELSE 0)
    BY <2>1
  <2>4. f[m + 1] \in Nat /\ s[m] \in Nat
    BY <1>0, <2>1
  <2>5. g[m + 1] = f[m + 1] + (IF m + 1 = k THEN d ELSE 0)
    BY <2>1, <2>4
  <2> HIDE DEF P
  <2>6. m \in Nat /\ k \in Nat
    BY <2>1
  <2>7. CASE m >= k
    BY <2>2, <2>3, <2>4, <2>5, <2>6, <2>7
  <2>8. CASE m + 1 = k
    BY <2>2, <2>3, <2>4, <2>5, <2>6, <2>8
  <2>9. CASE m + 1 < k
    BY <2>2, <2>3, <2>4, <2>5, <2>6, <2>9
  <2>10. QED
    BY <2>6, <2>7, <2>8, <2>9
<1>5. P \in SUBSET Nat
  OBVIOUS
<1>6. n \in P
  <2> HIDE DEF P
  <2>1. QED
    BY <1>3, <1>4, <1>5, SetInduction
<1>7. r[n] = s[n] + d
  BY <1>6
<1>8. QED
  BY <1>1, <1>2, <1>7

(* All numbers move down by one place, the last of them onto the first.    *)
LEMMA SumMoves ==
    ASSUME NEW n \in Nat \ {0}, NEW f \in [0 .. n -> Nat], NEW g \in [0 .. n -> Nat],
           g[0] = f[1] + f[0], \A i \in 1 .. n - 1 : g[i] = f[i + 1], g[n] = 0
    PROVE  SumUpTo(g, n) = SumUpTo(f, n)
<1>1. PICK s : Sums(s, f, n) /\ SumUpTo(f, n) = s[n]
  BY SumUpToIsSum
<1>2. PICK r : Sums(r, g, n) /\ SumUpTo(g, n) = r[n]
  BY SumUpToIsSum
<1>0. /\ s \in [0 .. n -> Nat] /\ r \in [0 .. n -> Nat] /\ s[0] = f[0] /\ r[0] = g[0]
      /\ \A i \in 1 .. n : s[i] = f[i] + s[i - 1] /\ r[i] = g[i] + r[i - 1]
  BY <1>1, <1>2 DEF Sums
<1> DEFINE P == {m \in Nat : m < n => r[m] = s[m + 1]}
<1>3. 0 \in P
  <2>1. f[0] \in Nat /\ f[1] \in Nat /\ 1 \in 1 .. n
    OBVIOUS
  <2>2. r[0] = s[1]
    BY <1>0, <2>1
  <2>3. QED
    BY <2>2
<1>4. ASSUME NEW m \in P PROVE m + 1 \in P
  <2> SUFFICES ASSUME m + 1 < n PROVE r[m + 1] = s[(m + 1) + 1]
    OBVIOUS
  <2>1. /\ m + 1 \in 1 .. n - 1 /\ m + 1 \in 1 .. n /\ (m + 1) + 1 \in 1 .. n
        /\ (m + 1) - 1 = m /\ ((m + 1) + 1) - 1 = m + 1
    OBVIOUS
  <2>2. s[(m + 1) + 1] = f[(m + 1) + 1] + s[m + 1] /\ r[m + 1] = g[m + 1] + r[m]
    BY <1>0, <2>1
  <2>3. g[m + 1] = f[(m + 1) + 1] /\ r[m] = s[m + 1]
    BY <2>1
  <2>4. QED
    BY <2>2, <2>3
<1>5. P \in SUBSET Nat
  OBVIOUS
<1>6. n - 1 \in P
  <2> HIDE DEF P
  <2>1. n - 1 \in Nat
    OBVIOUS
  <2>2. QED
    BY <1>3, <1>4, <1>5, <2>1, SetInduction
<1>7. r[n] = s[n]
  <2>1. n \in 1 .. n /\ (n - 1) + 1 = n /\ n - 1 < n /\ n - 1 \in 0 .. n
    OBVIOUS
  <2>2. r[n - 1] = s[n] /\ r[n] = g[n] + r[n - 1] /\ r[n - 1] \in Nat
    BY <1>0, <1>6, <2>1
  <2>3. QED
    BY <2>2
<1>8. QED
  BY <1>1, <1>2, <1>7

(* The sum of zeros.                                                       *)
LEMMA SumOfZeros ==
    ASSUME NEW n \in Nat, NEW f \in [0 .. n -> Nat], \A i \in 0 .. n : f[i] = 0
    PROVE  SumUpTo(f, n) = 0
<1>1. PICK s : Sums(s, f, n) /\ SumUpTo(f, n) = s[n]
  BY SumUpToIsSum
<1>2. /\ s \in [0 .. n -> Nat] /\ s[0] = 0
      /\ \A i \in 1 .. n : s[i] = f[i] + s[i - 1]
  BY <1>1 DEF Sums
<1> DEFINE P == {m \in Nat : m <= n => s[m] = 0}
<1>3. 0 \in P
  BY <1>2
<1>4. ASSUME NEW m \in P PROVE m + 1 \in P
  <2> SUFFICES ASSUME m + 1 <= n PROVE s[m + 1] = 0
    OBVIOUS
  <2>1. m + 1 \in 1 .. n /\ (m + 1) - 1 = m /\ s[m] = 0 /\ f[m + 1] = 0
    OBVIOUS
  <2>2. QED
    BY <1>2, <2>1
<1>5. P \in SUBSET Nat
  OBVIOUS
<1>6. n \in P
  <2> HIDE DEF P
  <2>1. QED
    BY <1>3, <1>4, <1>5, SetInduction
<1>7. QED
  BY <1>1, <1>6

-----------------------------------------------------------------------------
(* What a controller owes.                                                 *)

Waits(q, t) == [w \in 0 .. MaxWait |-> q[Return(t.addr, t.is_write, w)]]

(* What waits in return_queue_ for t, by the cycles left.                  *)
LEMMA WaitsTyped ==
    ASSUME NEW q \in [Returns -> Nat], NEW t \in Transactions
    PROVE  /\ MaxWait \in Nat \ {0}
           /\ Waits(q, t) \in [0 .. MaxWait -> Nat]
           /\ \A w \in 0 .. MaxWait :
                /\ Return(t.addr, t.is_write, w) \in Returns
                /\ Waits(q, t)[w] = q[Return(t.addr, t.is_write, w)]
<1>1. \A w \in 0 .. MaxWait : Return(t.addr, t.is_write, w) \in Returns
  BY DEF Return, Returns, Transactions
<1>2. MaxWait \in Nat \ {0}
  BY LatenciesAreNat DEF MaxWait
<1>3. QED
  BY <1>1, <1>2 DEF Waits

(* The two parts of what is owed.                                          *)
LEMMA OwedParts ==
    ASSUME NEW c, NEW t
    PROVE  Owed(c, t) = (IF t.is_write THEN 0 ELSE c.pending_rd_q_[t.addr])
                        + SumUpTo(Waits(c.return_queue_, t), MaxWait)
BY DEF Owed, Waits

(* What is owed is a natural number.                                       *)
LEMMA OwedTyped ==
    ASSUME NEW c \in ControllerType, NEW t \in Transactions
    PROVE  /\ Owed(c, t) \in Nat
           /\ SumUpTo(Waits(c.return_queue_, t), MaxWait) \in Nat
           /\ t.addr \in Addr /\ c.pending_rd_q_[t.addr] \in Nat
<1>1. SumUpTo(Waits(c.return_queue_, t), MaxWait) \in Nat
  BY ControllerFields, WaitsTyped, SumType
<1>2. t.addr \in Addr /\ t.is_write \in BOOLEAN /\ c.pending_rd_q_[t.addr] \in Nat
  BY ControllerFields DEF Transactions
<1>3. QED
  BY <1>1, <1>2, OwedParts

(* Only two members matter.                                                *)
LEMMA OwedSame ==
    ASSUME NEW c, NEW d, NEW t, d.pending_rd_q_ = c.pending_rd_q_,
           d.return_queue_ = c.return_queue_
    PROVE  Owed(d, t) = Owed(c, t)
BY OwedParts

(* A completed request waits in return_queue_, and nothing else changes    *)
(* there.                                                                  *)
LEMMA CompleteWaits ==
    ASSUME NEW c \in ControllerType, NEW a \in Addr, NEW w \in BOOLEAN, NEW n \in Nat,
           NEW wait \in 0 .. MaxWait, NEW t \in Transactions
    PROVE  LET d == Complete(c, a, w, n, wait)
           IN /\ d.pending_rd_q_ = c.pending_rd_q_
              /\ SumUpTo(Waits(d.return_queue_, t), MaxWait)
                   = SumUpTo(Waits(c.return_queue_, t), MaxWait)
                     + (IF t.addr = a /\ t.is_write = w THEN n ELSE 0)
<1> DEFINE q == c.return_queue_
           r == Return(a, w, wait)
           p == [q EXCEPT ![r] = q[r] + n]
           d == Complete(c, a, w, n, wait)
           f == Waits(q, t)
           g == Waits(p, t)
<1>1. q \in [Returns -> Nat] /\ r \in Returns
  BY ControllerFields DEF Return, Returns
<1>2. p \in [Returns -> Nat] /\ p[r] = q[r] + n /\ \A x \in Returns : x # r => p[x] = q[x]
  BY <1>1
<1>3. d.return_queue_ = p /\ d.pending_rd_q_ = c.pending_rd_q_
  BY DEF Complete, ControllerType
<1> HIDE DEF q, p, r, d
<1>4. /\ MaxWait \in Nat /\ f \in [0 .. MaxWait -> Nat] /\ g \in [0 .. MaxWait -> Nat]
      /\ \A i \in 0 .. MaxWait : /\ Return(t.addr, t.is_write, i) \in Returns
                                 /\ f[i] = q[Return(t.addr, t.is_write, i)]
                                 /\ g[i] = p[Return(t.addr, t.is_write, i)]
  BY <1>1, <1>2, WaitsTyped
<1>5. \A i \in 0 .. MaxWait :
        Return(t.addr, t.is_write, i) = r <=> t.addr = a /\ t.is_write = w /\ i = wait
  BY DEF Return, r
<1> HIDE DEF f, g
<1>6. CASE t.addr = a /\ t.is_write = w
  <2>1. g[wait] = f[wait] + n /\ \A i \in 0 .. MaxWait : i # wait => g[i] = f[i]
    BY <1>2, <1>4, <1>5, <1>6
  <2>2. SumUpTo(g, MaxWait) = SumUpTo(f, MaxWait) + n
    BY <1>4, <2>1, SumGrows
  <2>3. QED
    BY <1>3, <1>6, <2>2 DEF f, g, d, q
<1>7. CASE ~(t.addr = a /\ t.is_write = w)
  <2>1. \A i \in 0 .. MaxWait : g[i] = f[i]
    BY <1>2, <1>4, <1>5, <1>7
  <2>2. g = f
    BY <1>4, <2>1
  <2>3. SumUpTo(f, MaxWait) \in Nat
    BY <1>4, SumType
  <2>4. SumUpTo(g, MaxWait) = SumUpTo(f, MaxWait) + 0
    BY <2>2, <2>3
  <2>5. QED
    BY <1>3, <1>7, <2>4 DEF f, g, d, q
<1>8. QED
  BY <1>6, <1>7

(* A READ moves all reads pending on its address to return_queue_.         *)
LEMMA SettleOwes ==
    ASSUME NEW c \in ControllerType, NEW cmd \in IssueType, NEW t \in Transactions
    PROVE  Owed(Settle(c, cmd), t) = Owed(c, t)
<1> DEFINE a == cmd.hex_addr
           n == c.pending_rd_q_[a]
           d == Settle(c, cmd)
<1>1. CASE IsRead(cmd)
  <2> DEFINE e == Complete(c, a, FALSE, n, read_delay)
  <2>1. a \in Addr
    BY <1>1 DEF IssueType, IsReadWrite, IsRead, RWTypes
  <2>2. n \in Nat /\ read_delay \in 0 .. MaxWait /\ c.pending_rd_q_ \in [Addr -> Nat]
    BY <2>1, ControllerFields, LatenciesAreNat DEF MaxWait
  <2>3. e \in ControllerType
    BY <2>1, <2>2, CompleteTyped
  <2>4. /\ e.pending_rd_q_ = c.pending_rd_q_
        /\ SumUpTo(Waits(e.return_queue_, t), MaxWait)
             = SumUpTo(Waits(c.return_queue_, t), MaxWait)
               + (IF t.addr = a /\ t.is_write = FALSE THEN n ELSE 0)
    BY <2>1, <2>2, CompleteWaits
  <2>5. d = [e EXCEPT !.pending_rd_q_[a] = 0]
    <3>1. ~IsWrite(cmd)
      BY <1>1 DEF IsRead, IsWrite, ReadTypes, WriteTypes
    <3>2. QED
      BY <1>1, <3>1 DEF Settle
  <2> HIDE DEF e, d, a, n
  <2>6. /\ d.return_queue_ = e.return_queue_
        /\ d.pending_rd_q_ = [c.pending_rd_q_ EXCEPT ![a] = 0]
    BY <2>3, <2>4, <2>5 DEF ControllerType
  <2>7. /\ t.addr \in Addr /\ t.is_write \in BOOLEAN
        /\ SumUpTo(Waits(c.return_queue_, t), MaxWait) \in Nat
        /\ c.pending_rd_q_[t.addr] \in Nat
    BY OwedTyped DEF Transactions
  <2>8. n = c.pending_rd_q_[a]
    BY DEF n
  <2>9. Owed(d, t) = Owed(c, t)
    <3> DEFINE S == SumUpTo(Waits(c.return_queue_, t), MaxWait)
    <3>1. Owed(c, t) = (IF t.is_write THEN 0 ELSE c.pending_rd_q_[t.addr]) + S
      BY OwedParts
    <3>2. Owed(d, t) = (IF t.is_write THEN 0 ELSE d.pending_rd_q_[t.addr])
                       + (S + (IF t.addr = a /\ t.is_write = FALSE THEN n ELSE 0))
      BY <2>4, <2>6, OwedParts
    <3>3. S \in Nat
      BY <2>7
    <3> HIDE DEF S
    <3>4. QED
      BY <2>1, <2>2, <2>6, <2>7, <2>8, <3>1, <3>2, <3>3
  <2>10. QED
    BY <2>9 DEF d
<1>2. CASE ~IsRead(cmd)
  <2>1. d.return_queue_ = c.return_queue_ /\ d.pending_rd_q_ = c.pending_rd_q_
    BY <1>2 DEF Settle, ControllerType
  <2>2. QED
    BY <2>1, OwedSame
<1>3. QED
  BY <1>1, <1>2

(* A command that goes out, or ends the program, changes nothing of what   *)
(* is owed.                                                                *)
LEMMA IssueOwes ==
    ASSUME NEW c \in ControllerType, NEW cmd \in Answers, IsValid(cmd), NEW t \in Transactions
    PROVE  Owed(IssueCommand(c, cmd), t) = Owed(c, t)
<1> DEFINE refused == \/ IsExit(cmd)
                      \/ IsRead(cmd) /\ c.pending_rd_q_[cmd.hex_addr] = 0
                      \/ IsWrite(cmd) /\ c.pending_wr_q_[cmd.hex_addr] = 0
                      \/ ~ChannelAccepts(c.channel_state_, cmd)
           traced == [c EXCEPT !.cmd_trace_ = Append(c.cmd_trace_, cmd)]
           settled == Settle(traced, cmd)
           updated == [settled EXCEPT !.channel_state_ =
                         UpdateTimingAndStates(settled.channel_state_, cmd)]
<1>1. CASE refused
  <2>1. IssueCommand(c, cmd) = [c EXCEPT !.exited = TRUE]
    BY <1>1 DEF IssueCommand, Exit
  <2>2. QED
    BY <2>1, OwedSame DEF ControllerType
<1>2. CASE ~refused
  <2>1. cmd \in IssueType
    BY <1>2, AnswersValid
  <2>2. traced \in ControllerType
    <3>1. Append(c.cmd_trace_, cmd) \in Seq(IssueType)
      BY <2>1, ControllerFields
    <3>2. QED
      BY <3>1 DEF ControllerType
  <2>3. traced.pending_wr_q_ = c.pending_wr_q_
    BY DEF ControllerType
  <2>4. Owed(traced, t) = Owed(c, t)
    BY OwedSame DEF ControllerType
  <2>5. IssueCommand(c, cmd) = MarkInServe(updated, cmd)
    BY <1>2 DEF IssueCommand
  <2> HIDE DEF traced
  <2>6. Owed(settled, t) = Owed(traced, t)
    BY <2>1, <2>2, SettleOwes
  <2>7. settled \in ControllerType
    BY <1>2, <2>1, <2>2, <2>3, SettleTyped
  <2> HIDE DEF settled
  <2>8. /\ updated.pending_rd_q_ = settled.pending_rd_q_
        /\ updated.return_queue_ = settled.return_queue_
        /\ updated = [settled EXCEPT !.channel_state_ = updated.channel_state_]
    BY <2>7 DEF ControllerType
  <2> HIDE DEF updated
  <2>9. /\ MarkInServe(updated, cmd).pending_rd_q_ = updated.pending_rd_q_
        /\ MarkInServe(updated, cmd).return_queue_ = updated.return_queue_
    BY <2>7, <2>8 DEF MarkInServe, ControllerType
  <2>10. Owed(MarkInServe(updated, cmd), t) = Owed(settled, t)
    BY <2>8, <2>9, OwedSame
  <2>11. QED
    BY <2>4, <2>5, <2>6, <2>10
<1>3. QED
  BY <1>1, <1>2

(* The issue phase, with one command or two.                               *)
LEMMA IssuePhaseOwes ==
    ASSUME NEW c \in ControllerType, NEW t \in Transactions
    PROVE  Owed(IssuePhase(c), t) = Owed(c, t)
<1> DEFINE first == FirstCommand(c)
           taken == [c EXCEPT !.cmd_queue_ = first.cq]
           issued == IssueCommand(taken, first.cmd)
           second == GetCommandToIssue(issued.channel_state_, issued.cmd_queue_)
           next == [issued EXCEPT !.cmd_queue_ = second.cq]
<1>1. first.cmd \in Answers /\ first.cq \in CommandQueueType
  BY FirstCommandTyped
<1>2. IssuePhase(c) = IF ~IsValid(first.cmd) THEN taken
                      ELSE IF issued.exited \/ ~config.enable_hbm_dual_cmd THEN issued
                      ELSE IssueSecond(issued, first, second)
  BY DEF IssuePhase, IssueFirst, AndSecond
<1> HIDE DEF first
<1>3. taken \in ControllerType
  BY <1>1 DEF ControllerType
<1>4. Owed(taken, t) = Owed(c, t)
  BY OwedSame DEF ControllerType
<1> HIDE DEF taken
<1>5. CASE ~IsValid(first.cmd)
  BY <1>2, <1>4, <1>5
<1>6. CASE IsValid(first.cmd)
  <2>1. issued \in ControllerType /\ Owed(issued, t) = Owed(c, t)
    BY <1>1, <1>3, <1>4, <1>6, IssueCommandTyped, IssueOwes
  <2> HIDE DEF issued
  <2>2. second.cmd \in Answers /\ second.cq \in CommandQueueType
    BY <2>1, ControllerFields, GetCommandTyped
  <2>3. IssueSecond(issued, first, second) =
          IF \/ IsExit(second.cmd)
             \/ IsValid(second.cmd) /\ IsReadWrite(second.cmd) # IsReadWrite(first.cmd)
          THEN IssueCommand(next, second.cmd) ELSE next
    BY DEF IssueSecond
  <2> HIDE DEF second
  <2>4. next \in ControllerType
    BY <2>1, <2>2 DEF ControllerType
  <2>5. Owed(next, t) = Owed(issued, t)
    BY <2>1, OwedSame DEF ControllerType
  <2> HIDE DEF next
  <2>6. IsExit(second.cmd) => IsValid(second.cmd)
    BY DEF IsExit, IsValid
  <2>7. IsValid(second.cmd) => Owed(IssueCommand(next, second.cmd), t) = Owed(next, t)
    BY <2>2, <2>4, IssueOwes
  <2>8. Owed(IssueSecond(issued, first, second), t) = Owed(issued, t)
    BY <2>3, <2>5, <2>6, <2>7
  <2>9. QED
    BY <1>2, <1>6, <2>1, <2>8
<1>7. QED
  BY <1>5, <1>6

(* Self-refresh.                                                           *)
LEMMA SelfRefreshOwes ==
    ASSUME NEW c \in ControllerType, NEW t \in Transactions
    PROVE  Owed(SelfRefresh(c), t) = Owed(c, t)
<1> DEFINE found == {r \in Ranks : IsValid(SelfRefreshCommand(c, r))}
           cmd == SelfRefreshCommand(c, Min(found))
<1>1. SelfRefresh(c) = IF ~config.enable_self_refresh \/ c.cmd_trace_ # <<>> \/ found = {}
                       THEN c ELSE IssueCommand(c, cmd)
  BY DEF SelfRefresh
<1>2. found \in SUBSET Nat /\ \A r \in found : r \in Ranks /\ IsValid(SelfRefreshCommand(c, r))
  BY CountsAssumption DEF Ranks
<1> HIDE DEF found
<1>3. ASSUME found # {} PROVE cmd \in Answers /\ IsValid(cmd)
  BY <1>2, <1>3, MinIsLeast, SelfRefreshAnswers
<1>4. QED
  BY <1>1, <1>3, IssueOwes

(* Power states, idle counters and the scheduling of transactions do not   *)
(* touch what is owed.                                                     *)
LEMMA QuietPhasesOwe ==
    ASSUME NEW c \in ControllerType, NEW t \in Transactions
    PROVE  /\ Owed(RefreshPhase(c), t) = Owed(c, t)
           /\ Owed(CountIdle(c), t) = Owed(c, t)
           /\ Owed(Calculate_stats(c), t) = Owed(c, t)
           /\ Owed(ScheduleTransaction(c), t) = Owed(c, t)
<1>1. Owed(RefreshPhase(c), t) = Owed(c, t)
  BY OwedSame DEF RefreshPhase, ControllerType
<1>2. Owed(CountIdle(c), t) = Owed(c, t)
  BY OwedSame DEF CountIdle, ControllerType
<1>3. Owed(Calculate_stats(c), t) = Owed(c, t)
  BY OwedSame DEF Calculate_stats, ControllerType
<1>4. Owed(ScheduleTransaction(c), t) = Owed(c, t)
  <2> DEFINE which == ScheduledQueue(DrainGoal(c))
             d == ScheduleTransaction(c)
  <2>1. which \in {"unified_queue_", "write_buffer_", "read_queue_"}
    BY DEF ScheduledQueue, QueueFor
  <2>2. \/ \E n : d = [c EXCEPT !.write_draining_ = n]
        \/ \E n, q, s : d = [[[c EXCEPT !.cmd_queue_ = q] EXCEPT ![which] = s]
                               EXCEPT !.write_draining_ = n]
    BY DEF ScheduleTransaction, ToCommandQueue
  <2> HIDE DEF which, d
  <2>3. d.pending_rd_q_ = c.pending_rd_q_ /\ d.return_queue_ = c.return_queue_
    BY <2>1, <2>2 DEF ControllerType
  <2>4. QED
    BY <2>3, OwedSame DEF d
<1>5. QED
  BY <1>1, <1>2, <1>3, <1>4

(* A cycle passes: all waits become shorter, and what was due stays due.   *)
LEMMA ElapseOwes ==
    ASSUME NEW c \in ControllerType, NEW t \in Transactions
    PROVE  Owed(Elapse(c), t) = Owed(c, t)
<1> DEFINE q == c.return_queue_
           p == [r \in Returns |->
                   (IF r.wait < MaxWait THEN q[[r EXCEPT !.wait = r.wait + 1]] ELSE 0)
                   + (IF r.wait = 0 THEN q[r] ELSE 0)]
           f == Waits(q, t)
           g == Waits(p, t)
           R(w) == Return(t.addr, t.is_write, w)
<1>1. Elapse(c).return_queue_ = p /\ Elapse(c).pending_rd_q_ = c.pending_rd_q_
  BY DEF Elapse, ControllerType
<1>2. q \in [Returns -> Nat] /\ MaxWait \in Nat \ {0}
  BY ControllerFields, LatenciesAreNat DEF MaxWait
<1> HIDE DEF q
<1>3. \A r \in Returns : r.wait \in 0 .. MaxWait
                         /\ (r.wait < MaxWait => [r EXCEPT !.wait = r.wait + 1] \in Returns)
  BY <1>2 DEF Returns
<1>4. p \in [Returns -> Nat]
  BY <1>2, <1>3
<1>5. \A w \in 0 .. MaxWait : R(w) \in Returns /\ R(w).wait = w
  BY DEF Return, Returns, Transactions
<1>6. \A w \in 0 .. MaxWait : [R(w) EXCEPT !.wait = w + 1] = R(w + 1)
  BY DEF Return
<1> HIDE DEF R
<1>7. \A w \in 0 .. MaxWait :
        p[R(w)] = (IF w < MaxWait THEN q[R(w + 1)] ELSE 0) + (IF w = 0 THEN q[R(w)] ELSE 0)
  BY <1>5, <1>6
<1> HIDE DEF p
<1>8. /\ f \in [0 .. MaxWait -> Nat] /\ g \in [0 .. MaxWait -> Nat]
      /\ \A w \in 0 .. MaxWait : f[w] = q[R(w)] /\ g[w] = p[R(w)]
  BY <1>2, <1>4, WaitsTyped DEF R
<1> HIDE DEF f, g
<1>9. \A w \in 0 .. MaxWait :
        g[w] = (IF w < MaxWait THEN f[w + 1] ELSE 0) + (IF w = 0 THEN f[w] ELSE 0)
  <2> SUFFICES ASSUME NEW w \in 0 .. MaxWait
               PROVE  g[w] = (IF w < MaxWait THEN f[w + 1] ELSE 0)
                             + (IF w = 0 THEN f[w] ELSE 0)
    OBVIOUS
  <2>1. w < MaxWait => w + 1 \in 0 .. MaxWait
    BY <1>2
  <2>2. w < MaxWait => f[w + 1] = q[R(w + 1)]
    BY <1>8, <2>1
  <2>3. f[w] = q[R(w)] /\ g[w] = p[R(w)]
    BY <1>8
  <2>4. QED
    BY <1>7, <2>2, <2>3
<1>10. g[0] = f[1] + f[0] /\ g[MaxWait] = 0
  BY <1>2, <1>8, <1>9
<1>11. \A i \in 1 .. MaxWait - 1 : g[i] = f[i + 1]
  BY <1>2, <1>8, <1>9
<1>12. SumUpTo(g, MaxWait) = SumUpTo(f, MaxWait)
  BY <1>2, <1>8, <1>10, <1>11, SumMoves
<1>13. QED
  BY <1>1, <1>12, OwedParts DEF f, g, q

(* What ReturnDoneTrans hands to the callback is no longer owed.           *)
LEMMA ReturnDoneOwes ==
    ASSUME NEW c \in ControllerType, NEW t \in Transactions
    PROVE  /\ DoneTrans(c, t) \in Nat
           /\ Owed(c, t) = Owed(ReturnDoneTrans(c), t) + DoneTrans(c, t)
<1> DEFINE q == c.return_queue_
           p == [r \in Returns |-> IF r.wait = 0 THEN 0 ELSE q[r]]
           d == ReturnDoneTrans(c)
           f == Waits(q, t)
           g == Waits(p, t)
           R(w) == Return(t.addr, t.is_write, w)
<1>1. d.return_queue_ = p /\ d.pending_rd_q_ = c.pending_rd_q_
  BY DEF ReturnDoneTrans, ControllerType
<1>2. q \in [Returns -> Nat] /\ MaxWait \in Nat \ {0}
  BY ControllerFields, LatenciesAreNat DEF MaxWait
<1>3. DoneTrans(c, t) = q[R(0)]
  BY DEF DoneTrans
<1> HIDE DEF q
<1>4. p \in [Returns -> Nat]
  BY <1>2
<1>5. \A w \in 0 .. MaxWait : R(w) \in Returns /\ R(w).wait = w
  BY DEF Return, Returns, Transactions
<1> HIDE DEF R, d
<1>6. \A w \in 0 .. MaxWait : p[R(w)] = IF w = 0 THEN 0 ELSE q[R(w)]
  BY <1>5
<1> HIDE DEF p
<1>7. /\ f \in [0 .. MaxWait -> Nat] /\ g \in [0 .. MaxWait -> Nat]
      /\ \A w \in 0 .. MaxWait : f[w] = q[R(w)] /\ g[w] = p[R(w)]
  BY <1>2, <1>4, WaitsTyped DEF R
<1> HIDE DEF f, g
<1>8. 0 \in 0 .. MaxWait
  BY <1>2
<1>9. /\ f[0] \in Nat /\ g[0] = 0 /\ DoneTrans(c, t) = f[0]
      /\ \A i \in 0 .. MaxWait : i # 0 => f[i] = g[i]
  BY <1>3, <1>6, <1>7, <1>8
<1>10. SumUpTo(f, MaxWait) = SumUpTo(g, MaxWait) + f[0]
  <2>1. f[0] = g[0] + f[0]
    BY <1>9
  <2>2. QED
    BY <1>2, <1>7, <1>8, <1>9, <2>1, SumGrows
<1>11. SumUpTo(g, MaxWait) \in Nat /\ c.pending_rd_q_[t.addr] \in Nat
  BY <1>2, <1>7, SumType, OwedTyped
<1>12. /\ Owed(c, t) = (IF t.is_write THEN 0 ELSE c.pending_rd_q_[t.addr]) + SumUpTo(f, MaxWait)
       /\ Owed(d, t) = (IF t.is_write THEN 0 ELSE c.pending_rd_q_[t.addr]) + SumUpTo(g, MaxWait)
  BY <1>1, OwedParts DEF f, g, q
<1>13. QED
  BY <1>9, <1>10, <1>11, <1>12 DEF d

(* A cycle of a controller: what it owes does not change.                  *)
LEMMA ControllerTickOwes ==
    ASSUME NEW c \in ControllerType, NEW t \in Transactions
    PROVE  Owed(ControllerClockTick(c), t) = Owed(c, t)
<1> DEFINE begun == RefreshPhase(c)
           issued == IssuePhase(begun)
           idle == CountIdle(issued)
           slept == SelfRefresh(idle)
           counted == Calculate_stats(slept)
           scheduled == ScheduleTransaction(counted)
<1>1. ControllerClockTick(c) = IF issued.exited THEN issued
                               ELSE IF slept.exited THEN slept ELSE Elapse(scheduled)
  BY DEF ControllerClockTick, PowerPhase, SchedulePhase
<1>2. begun \in ControllerType /\ Owed(begun, t) = Owed(c, t)
  <2> DEFINE tick == RefreshClockTick(c.channel_state_, c.refresh_)
  <2>1. tick.cs \in ChannelStateType /\ tick.rf \in RefreshType /\ << >> \in Seq(IssueType)
    BY ControllerFields, RefreshTickTyped
  <2> HIDE DEF tick
  <2>2. [c EXCEPT !.channel_state_ = tick.cs, !.refresh_ = tick.rf, !.cmd_trace_ = <<>>]
          \in ControllerType
    BY <2>1 DEF ControllerType
  <2>3. QED
    BY <2>2, QuietPhasesOwe DEF RefreshPhase, tick
<1> HIDE DEF begun
<1>3. issued \in ControllerType /\ Owed(issued, t) = Owed(c, t)
  BY <1>2, IssuePhaseTyped, IssuePhaseOwes
<1> HIDE DEF issued
<1>4. idle \in ControllerType /\ Owed(idle, t) = Owed(c, t)
  BY <1>3, CountIdleTyped, QuietPhasesOwe
<1> HIDE DEF idle
<1>5. slept \in ControllerType /\ Owed(slept, t) = Owed(c, t)
  BY <1>4, SelfRefreshTyped, SelfRefreshOwes
<1> HIDE DEF slept
<1>6. counted \in ControllerType /\ Owed(counted, t) = Owed(c, t)
  BY <1>5, CalculateStatsTyped, QuietPhasesOwe
<1> HIDE DEF counted
<1>7. scheduled \in ControllerType /\ Owed(scheduled, t) = Owed(c, t)
  BY <1>6, ScheduleTyped, QuietPhasesOwe
<1> HIDE DEF scheduled
<1>8. QED
  BY <1>1, <1>3, <1>5, <1>7, ElapseOwes

(* AddTransaction makes a controller owe one request more: a write at      *)
(* once in return_queue_, a read there or in pending_rd_q_.                *)
LEMMA AddTransactionOwes ==
    ASSUME NEW c \in ControllerType, NEW t \in Transactions, NEW u \in Transactions
    PROVE  Owed(ControllerAddTransaction(c, t), u) = Owed(c, u) + (IF u = t THEN 1 ELSE 0)
<1> DEFINE a == t.addr
           w == t.is_write
           d == ControllerAddTransaction(c, t)
           S(e) == SumUpTo(Waits(e.return_queue_, u), MaxWait)
<1>1. a \in Addr /\ w \in BOOLEAN /\ u.addr \in Addr /\ u.is_write \in BOOLEAN
  BY DEF Transactions
<1>2. u = t <=> u.addr = a /\ u.is_write = w
  BY DEF Transactions
<1>3. 1 \in 0 .. MaxWait /\ c.pending_rd_q_[a] + 1 \in Nat /\ c.pending_wr_q_[a] + 1 \in Nat
  BY <1>1, LatenciesAreNat, ControllerFields DEF MaxWait
<1>4. ASSUME NEW e, NEW z
      PROVE  /\ Enqueue(e, z).pending_rd_q_ = e.pending_rd_q_
             /\ Enqueue(e, z).return_queue_ = e.return_queue_
  BY DEF Enqueue, QueueFor
<1>5. S(c) \in Nat /\ Owed(c, u) \in Nat /\ c.pending_rd_q_[u.addr] \in Nat
  BY OwedTyped
<1>6. \A e : Owed(e, u) = (IF u.is_write THEN 0 ELSE e.pending_rd_q_[u.addr]) + S(e)
  BY OwedParts
<1> HIDE DEF a, w
<1>7. CASE w
  <2> DEFINE e == IF c.pending_wr_q_[a] > 0 THEN c
                  ELSE Enqueue([c EXCEPT !.pending_wr_q_[a] = c.pending_wr_q_[a] + 1],
                               Transaction(a, TRUE))
  <2>1. d = Complete(e, a, TRUE, 1, 1)
    BY <1>7 DEF ControllerAddTransaction, AddWrite, a, w
  <2>2. e \in ControllerType
    <3>1. Transaction(a, TRUE) \in Transactions
      BY <1>1 DEF Transaction, Transactions
    <3>2. QED
      BY <1>1, <1>3, <3>1, PendingTyped, EnqueueTyped
  <2>3. e.pending_rd_q_ = c.pending_rd_q_ /\ e.return_queue_ = c.return_queue_
    <3> DEFINE b == [c EXCEPT !.pending_wr_q_[a] = c.pending_wr_q_[a] + 1]
    <3>1. b.pending_rd_q_ = c.pending_rd_q_ /\ b.return_queue_ = c.return_queue_
      BY DEF ControllerType
    <3> HIDE DEF b
    <3>2. e = IF c.pending_wr_q_[a] > 0 THEN c ELSE Enqueue(b, Transaction(a, TRUE))
      BY DEF b
    <3> HIDE DEF e
    <3>3. QED
      BY <1>4, <3>1, <3>2
  <2> HIDE DEF e, d
  <2>4. /\ d.pending_rd_q_ = e.pending_rd_q_
        /\ S(d) = S(e) + (IF u.addr = a /\ u.is_write = TRUE THEN 1 ELSE 0)
    <3> DEFINE k == 1
    <3>1. k \in Nat /\ k \in 0 .. MaxWait /\ a \in Addr
      BY <1>1, <1>3
    <3> HIDE DEF k
    <3>2. LET b == Complete(e, a, TRUE, k, k)
          IN /\ b.pending_rd_q_ = e.pending_rd_q_
             /\ SumUpTo(Waits(b.return_queue_, u), MaxWait)
                  = SumUpTo(Waits(e.return_queue_, u), MaxWait)
                    + (IF u.addr = a /\ u.is_write = TRUE THEN k ELSE 0)
      BY <2>2, <3>1, CompleteWaits
    <3>3. QED
      BY <2>1, <3>2 DEF k
  <2>5. S(e) = S(c)
    BY <2>3
  <2> HIDE DEF S
  <2>6. Owed(d, u) = Owed(c, u) + (IF u = t THEN 1 ELSE 0)
    <3>1. u.is_write = TRUE <=> u.is_write = w
      BY <1>1, <1>7
    <3>2. S(d) = S(c) + (IF u = t THEN 1 ELSE 0)
      BY <1>2, <2>4, <2>5, <3>1
    <3>3. d.pending_rd_q_ = c.pending_rd_q_
      BY <2>3, <2>4
    <3>4. Owed(d, u) = (IF u.is_write THEN 0 ELSE c.pending_rd_q_[u.addr]) + S(d)
      BY <1>6, <3>3
    <3>5. Owed(c, u) = (IF u.is_write THEN 0 ELSE c.pending_rd_q_[u.addr]) + S(c)
      BY <1>6
    <3>6. QED
      BY <1>5, <3>2, <3>4, <3>5
  <2>7. QED
    BY <2>6 DEF d
<1>8. CASE ~w /\ c.pending_wr_q_[a] > 0
  <2>1. d = Complete(c, a, FALSE, 1, 1)
    BY <1>8 DEF ControllerAddTransaction, AddRead, a, w
  <2> HIDE DEF d
  <2>2. /\ d.pending_rd_q_ = c.pending_rd_q_
        /\ S(d) = S(c) + (IF u.addr = a /\ u.is_write = FALSE THEN 1 ELSE 0)
    <3> DEFINE k == 1
    <3>1. k \in Nat /\ k \in 0 .. MaxWait /\ a \in Addr
      BY <1>1, <1>3
    <3> HIDE DEF k
    <3>2. LET b == Complete(c, a, FALSE, k, k)
          IN /\ b.pending_rd_q_ = c.pending_rd_q_
             /\ SumUpTo(Waits(b.return_queue_, u), MaxWait)
                  = SumUpTo(Waits(c.return_queue_, u), MaxWait)
                    + (IF u.addr = a /\ u.is_write = FALSE THEN k ELSE 0)
      BY <3>1, CompleteWaits
    <3>3. QED
      BY <2>1, <3>2 DEF k
  <2> HIDE DEF S
  <2>3. QED
    BY <1>1, <1>2, <1>5, <1>6, <1>8, <2>2 DEF d
<1>9. CASE ~w /\ ~(c.pending_wr_q_[a] > 0)
  <2> DEFINE p == [c EXCEPT !.pending_rd_q_[a] = c.pending_rd_q_[a] + 1]
  <2>1. d = IF p.pending_rd_q_[a] = 1 THEN Enqueue(p, Transaction(a, FALSE)) ELSE p
    BY <1>9 DEF ControllerAddTransaction, AddRead, a, w
  <2>2. /\ p.return_queue_ = c.return_queue_
        /\ p.pending_rd_q_ = [c.pending_rd_q_ EXCEPT ![a] = c.pending_rd_q_[a] + 1]
        /\ c.pending_rd_q_ \in [Addr -> Nat]
    BY DEF ControllerType
  <2> HIDE DEF p, d
  <2>3. d.pending_rd_q_ = p.pending_rd_q_ /\ d.return_queue_ = p.return_queue_
    BY <1>4, <2>1
  <2>4. S(d) = S(c)
    BY <2>2, <2>3
  <2>5. d.pending_rd_q_[u.addr] = c.pending_rd_q_[u.addr] + (IF u.addr = a THEN 1 ELSE 0)
    BY <1>1, <1>5, <2>2, <2>3
  <2> HIDE DEF S
  <2>6. QED
    BY <1>1, <1>2, <1>5, <1>6, <1>9, <2>4, <2>5 DEF d
<1>10. QED
  BY <1>7, <1>8, <1>9

(* A new controller owes nothing.                                          *)
LEMMA NewControllerOwes ==
    ASSUME NEW t \in Transactions PROVE Owed(NewController, t) = 0
<1> DEFINE q == [r \in Returns |-> 0]
<1>1. NewController.return_queue_ = q /\ NewController.pending_rd_q_ = [a \in Addr |-> 0]
  BY DEF NewController
<1>2. q \in [Returns -> Nat]
  OBVIOUS
<1>3. /\ MaxWait \in Nat /\ Waits(q, t) \in [0 .. MaxWait -> Nat]
      /\ \A w \in 0 .. MaxWait : Return(t.addr, t.is_write, w) \in Returns
                                 /\ Waits(q, t)[w] = q[Return(t.addr, t.is_write, w)]
  BY <1>2, WaitsTyped
<1>4. \A w \in 0 .. MaxWait : Waits(q, t)[w] = 0
  BY <1>3
<1>5. SumUpTo(Waits(q, t), MaxWait) = 0
  BY <1>3, <1>4, SumOfZeros
<1>6. QED
  BY <1>1, <1>5, OwedParts DEF Transactions

-----------------------------------------------------------------------------
(* The refinement.                                                         *)

(* The requests outstanding, as MemoryService sees them.                   *)
AllOutstanding == [t \in Transactions |-> Outstanding(t)]

(* AddTransaction is the step in which a request is accepted.              *)
LEMMA AddTransactionAccepts ==
    ASSUME TypeOK, NEW t \in Requests, AddTransaction(t) PROVE Service!Accept(t)
<1> DEFINE ch == GetChannel(t.addr)
<1>1. t \in Transactions
  BY RequestsAssumption
<1>2. \A u \in Transactions : GetChannel(u.addr) \in Channels
  BY AddrAssumption DEF GetChannel, Transactions
<1>3. ctrls_ \in [Channels -> ControllerType]
  BY DEF TypeOK
<1>4. ctrls_' = [ctrls_ EXCEPT ![ch] = ControllerAddTransaction(ctrls_[ch], t)]
  BY DEF AddTransaction
<1>5. ASSUME NEW u \in Transactions
      PROVE  /\ Owed(ctrls_[GetChannel(u.addr)], u) \in Nat
             /\ Owed(ctrls_'[GetChannel(u.addr)], u)
                  = Owed(ctrls_[GetChannel(u.addr)], u) + (IF u = t THEN 1 ELSE 0)
  <2>1. ctrls_[GetChannel(u.addr)] \in ControllerType /\ GetChannel(u.addr) \in Channels
    BY <1>2, <1>3
  <2>2. Owed(ctrls_[GetChannel(u.addr)], u) \in Nat
    BY <2>1, OwedTyped
  <2>3. CASE GetChannel(u.addr) = ch
    <3>1. ctrls_'[GetChannel(u.addr)] = ControllerAddTransaction(ctrls_[GetChannel(u.addr)], t)
      BY <1>3, <1>4, <2>1, <2>3
    <3>2. QED
      BY <1>1, <2>1, <2>2, <3>1, AddTransactionOwes
  <2>4. CASE GetChannel(u.addr) # ch
    <3>1. ctrls_'[GetChannel(u.addr)] = ctrls_[GetChannel(u.addr)] /\ u # t
      BY <1>3, <1>4, <2>1, <2>4
    <3>2. QED
      BY <2>2, <3>1
  <2>5. QED
    BY <2>3, <2>4
<1>6. /\ \A u \in Transactions : AllOutstanding[u] \in Nat
      /\ \A u \in Transactions :
           Outstanding(u)' = AllOutstanding[u] + (IF u = t THEN 1 ELSE 0)
  BY <1>5 DEF Outstanding, AllOutstanding
<1>7. AllOutstanding' = [AllOutstanding EXCEPT ![t] = AllOutstanding[t] + 1]
  <2>1. DOMAIN AllOutstanding = Transactions
    BY DEF AllOutstanding
  <2>2. AllOutstanding' = [u \in Transactions |-> Outstanding(u)']
    BY DEF AllOutstanding
  <2> DEFINE new == [AllOutstanding EXCEPT ![t] = AllOutstanding[t] + 1]
  <2>3. AllOutstanding = [u \in Transactions |-> AllOutstanding[u]]
    BY DEF AllOutstanding
  <2>4. new = [u \in Transactions |-> AllOutstanding[u] + (IF u = t THEN 1 ELSE 0)]
    <3>1. \A u \in Transactions : new[u] = AllOutstanding[u] + (IF u = t THEN 1 ELSE 0)
      BY <1>6, <2>1
    <3>2. new = [u \in Transactions |-> new[u]]
      BY <2>1, <2>3
    <3> HIDE DEF new
    <3>3. QED
      BY <3>1, <3>2
  <2>5. QED
    BY <1>6, <2>2, <2>4
<1>8. returned' = Service!Nothing
  BY DEF AddTransaction, Nothing, Service!Nothing
<1>9. QED
  BY <1>7, <1>8 DEF Service!Accept, AllOutstanding

(* ClockTick is a cycle: it returns requests that are outstanding, and     *)
(* they are no longer.                                                     *)
LEMMA ClockTickIsCycle ==
    ASSUME TypeOK, ClockTick PROVE Service!Cycle
<1>1. \A t \in Transactions : GetChannel(t.addr) \in Channels
  BY AddrAssumption DEF GetChannel, Transactions
<1>2. ctrls_ \in [Channels -> ControllerType]
  BY DEF TypeOK
<1>3. ASSUME NEW t \in Transactions
      PROVE  /\ returned'[t] \in 0 .. Outstanding(t)
             /\ Outstanding(t)' = Outstanding(t) - returned'[t]
  <2> DEFINE c == ctrls_[GetChannel(t.addr)]
             d == ReturnDoneTrans(c)
  <2>1. c \in ControllerType
    BY <1>1, <1>2
  <2>2. ctrls_'[GetChannel(t.addr)] = ControllerClockTick(d) /\ returned'[t] = DoneTrans(c, t)
    BY <1>1 DEF ClockTick
  <2>3. Outstanding(t) = Owed(c, t) /\ Outstanding(t)' = Owed(ControllerClockTick(d), t)
    BY <2>2 DEF Outstanding
  <2> HIDE DEF c
  <2>4. d \in ControllerType /\ DoneTrans(c, t) \in Nat /\ Owed(c, t) = Owed(d, t) + DoneTrans(c, t)
    BY <2>1, ReturnDoneTyped, ReturnDoneOwes
  <2> HIDE DEF d
  <2>5. Owed(ControllerClockTick(d), t) = Owed(d, t) /\ Owed(d, t) \in Nat
    BY <2>4, ControllerTickOwes, OwedTyped
  <2>6. QED
    BY <2>2, <2>3, <2>4, <2>5
<1>4. \A t \in Transactions : AllOutstanding[t] = Outstanding(t)
  BY DEF AllOutstanding
<1>5. AllOutstanding' = [t \in Transactions |-> AllOutstanding[t] - returned'[t]]
  BY <1>3, <1>4 DEF AllOutstanding
<1>6. \A t \in Transactions : returned'[t] \in 0 .. AllOutstanding[t]
  BY <1>3, <1>4
<1>7. QED
  BY <1>5, <1>6 DEF Service!Cycle, AllOutstanding

(* For every configuration the JEDEC memory system implements              *)
(* MemoryService: each accepted request is returned at most once, by a     *)
(* callback with its address and direction, and stays outstanding until    *)
(* then, however reads merge, are answered from the write buffer or meet a *)
(* refresh, and also when two commands are issued per cycle.               *)
THEOREM SystemImplementsService == Spec => ImplementsService
<1>1. Init => Service!Init
  <2> SUFFICES ASSUME Init PROVE Service!Init
    OBVIOUS
  <2>1. \A t \in Transactions : Outstanding(t) = 0
    <3> SUFFICES ASSUME NEW t \in Transactions PROVE Outstanding(t) = 0
      OBVIOUS
    <3>1. ctrls_[GetChannel(t.addr)] = NewController
      BY AddrAssumption DEF Init, GetChannel, Transactions
    <3>2. QED
      BY <3>1, NewControllerOwes DEF Outstanding
  <2>2. QED
    BY <2>1 DEF Init, Nothing, Service!Init, Service!Nothing
<1>2. TypeOK /\ [Next]_vars => [Service!Next]_<<AllOutstanding, returned>>
  <2> SUFFICES ASSUME TypeOK, [Next]_vars
               PROVE  Service!Next \/ UNCHANGED <<AllOutstanding, returned>>
    OBVIOUS
  <2>1. ASSUME NEW t \in Requests, AddTransaction(t) PROVE Service!Next
    BY <2>1, AddTransactionAccepts, RequestsAssumption DEF Service!Next
  <2>2. CASE ClockTick
    BY <2>2, ClockTickIsCycle DEF Service!Next
  <2>3. CASE UNCHANGED vars
    BY <2>3 DEF vars, AllOutstanding, Outstanding
  <2>4. QED
    BY <2>1, <2>2, <2>3 DEF Next
<1>3. QED
  BY <1>1, <1>2, TypeCorrect, PTL DEF Spec, ImplementsService, Service!Spec, AllOutstanding
=============================================================================
