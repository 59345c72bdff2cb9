---------------------------- MODULE SequenceLemmas ----------------------------
(***************************************************************************)
(* Facts about the least element of a set of numbers, induction in the     *)
(* form the provers can use, removing an element of a sequence (the loops  *)
(* of the simulator stop at the first match, and erase it), loops that run *)
(* over all their turns, written as recursive functions, and sums over the *)
(* elements of a finite set.                                               *)
(***************************************************************************)
EXTENDS Integers, Sequences, SequencesExt, SequenceTheorems, FiniteSetTheorems,
        WellFoundedInduction, TLAPS

(* A non-empty set of natural numbers has a least element, and Min is it.  *)
LEMMA MinIsLeast ==
    ASSUME NEW S \in SUBSET Nat, S # {}
    PROVE  Min(S) \in S /\ \A x \in S : Min(S) <= x
<1> DEFINE R == OpToRel(<, Nat)
<1>1. IsWellFoundedOn(R, Nat)
  BY NatLessThanWellFounded
<1>2. \A x, y \in Nat : x < y => <<x, y>> \in R
  BY DEF OpToRel
<1> HIDE DEF R
<1>3. PICK m \in S : \A x \in S : ~(<<x, m>> \in R)
  BY <1>1, WFMin
<1>4. ASSUME NEW x \in S PROVE m <= x
  <2>1. x \in Nat /\ m \in Nat /\ ~(x < m)
    BY <1>2, <1>3
  <2>2. QED
    BY <2>1
<1>5. QED
  BY <1>4 DEF Min

(* Induction, for properties that define a set of numbers.                 *)
LEMMA SetInduction ==
    ASSUME NEW P \in SUBSET Nat, 0 \in P, \A n \in P : n + 1 \in P
    PROVE  \A n \in Nat : n \in P
<1> SUFFICES ASSUME Nat \ P # {} PROVE FALSE
  OBVIOUS
<1> DEFINE m == Min(Nat \ P)
<1>1. m \in Nat \ P /\ \A x \in Nat \ P : m <= x
  BY MinIsLeast
<1> HIDE DEF m
<1>2. m # 0 /\ m - 1 \in Nat /\ ~(m <= m - 1)
  BY <1>1
<1>3. m - 1 \in P
  BY <1>1, <1>2
<1>4. (m - 1) + 1 = m
  BY <1>1
<1>5. QED
  BY <1>1, <1>3, <1>4

(* RemoveAt(s, i) is s without its i-th element.                           *)
LEMMA RemoveAtProperties ==
    ASSUME NEW S, NEW s \in Seq(S), NEW i \in DOMAIN s
    PROVE  /\ RemoveAt(s, i) \in Seq(S)
           /\ Len(RemoveAt(s, i)) = Len(s) - 1
           /\ DOMAIN RemoveAt(s, i) = 1 .. Len(s) - 1
           /\ \A j \in 1 .. Len(s) - 1 :
                RemoveAt(s, i)[j] = IF j < i THEN s[j] ELSE s[j + 1]
<1>0. i \in 1 .. Len(s) /\ Len(s) \in Nat /\ DOMAIN s = 1 .. Len(s)
  OBVIOUS
<1> DEFINE p == SubSeq(s, 1, i - 1)
           q == SubSeq(s, i + 1, Len(s))
<1>1. p \in Seq(S) /\ Len(p) = i - 1
  BY <1>0
<1>2. \A k \in 1 .. i - 1 : p[k] = s[k]
  BY <1>0
<1>3. q \in Seq(S) /\ Len(q) = Len(s) - i
  BY <1>0
<1>4. \A k \in 1 .. Len(s) - i : q[k] = s[i + k]
  BY <1>0
<1>5. RemoveAt(s, i) = p \o q
  BY DEF RemoveAt
<1> HIDE DEF p, q
<1>6. p \o q \in Seq(S) /\ Len(p \o q) = Len(s) - 1
  <2>1. p \o q \in Seq(S) /\ Len(p \o q) = Len(p) + Len(q)
    BY <1>1, <1>3, ConcatProperties
  <2>2. QED
    BY <2>1, <1>0, <1>1, <1>3
<1>7. ASSUME NEW j \in 1 .. Len(s) - 1
      PROVE  (p \o q)[j] = IF j < i THEN s[j] ELSE s[j + 1]
  <2>1. CASE j < i
    <3>1. (p \o q)[j] = p[j]
      BY <2>1, <1>0, <1>1, <1>3
    <3>2. QED
      BY <3>1, <2>1, <1>0, <1>2
  <2>2. CASE ~(j < i)
    <3>1. (p \o q)[j] = q[j - (i - 1)]
      BY <2>2, <1>0, <1>1, <1>3
    <3>2. j - (i - 1) \in 1 .. Len(s) - i /\ i + (j - (i - 1)) = j + 1
      BY <2>2, <1>0
    <3>3. QED
      BY <3>1, <3>2, <2>2, <1>0, <1>4
  <2>3. QED
    BY <2>1, <2>2
<1>8. QED
  BY <1>5, <1>6, <1>7

(* What is left after a removal was there before.                          *)
LEMMA RemoveAtSource ==
    ASSUME NEW S, NEW s \in Seq(S), NEW i \in DOMAIN s,
           NEW j \in DOMAIN RemoveAt(s, i)
    PROVE  \E k \in DOMAIN s : k # i /\ RemoveAt(s, i)[j] = s[k]
<1>1. j \in 1 .. Len(s) - 1 /\ Len(s) \in Nat /\ DOMAIN s = 1 .. Len(s) /\ i \in Nat
  BY RemoveAtProperties
<1> DEFINE k == IF j < i THEN j ELSE j + 1
<1>2. RemoveAt(s, i)[j] = IF j < i THEN s[j] ELSE s[j + 1]
  BY <1>1, RemoveAtProperties
<1>3. k \in DOMAIN s /\ k # i /\ RemoveAt(s, i)[j] = s[k]
  BY <1>1, <1>2
<1>4. QED
  BY <1>3

(* What is not removed is still there.                                     *)
LEMMA RemoveAtKeeps ==
    ASSUME NEW S, NEW s \in Seq(S), NEW i \in DOMAIN s, NEW k \in DOMAIN s, k # i
    PROVE  \E j \in DOMAIN RemoveAt(s, i) : RemoveAt(s, i)[j] = s[k]
<1>1. /\ DOMAIN RemoveAt(s, i) = 1 .. Len(s) - 1 /\ Len(s) \in Nat
      /\ DOMAIN s = 1 .. Len(s) /\ i \in 1 .. Len(s) /\ k \in 1 .. Len(s)
  BY RemoveAtProperties
<1>2. CASE k < i
  <2>1. k \in 1 .. Len(s) - 1
    BY <1>1, <1>2
  <2>2. RemoveAt(s, i)[k] = IF k < i THEN s[k] ELSE s[k + 1]
    BY <2>1, RemoveAtProperties
  <2>3. QED
    BY <2>1, <2>2, <1>1, <1>2
<1>3. CASE k > i
  <2>1. k - 1 \in 1 .. Len(s) - 1 /\ ~(k - 1 < i) /\ (k - 1) + 1 = k
    BY <1>1, <1>3
  <2>2. RemoveAt(s, i)[k - 1] = IF k - 1 < i THEN s[k - 1] ELSE s[k - 1 + 1]
    BY <2>1, RemoveAtProperties
  <2>3. QED
    BY <2>1, <2>2, <1>1
<1>4. QED
  BY <1>1, <1>2, <1>3

(* A sequence without repetitions has none after a removal, and the        *)
(* removed element is gone.                                                *)
LEMMA RemoveAtInjective ==
    ASSUME NEW S, NEW s \in Seq(S), NEW i \in DOMAIN s,
           \A k, l \in DOMAIN s : s[k] = s[l] => k = l
    PROVE  /\ \A k, l \in DOMAIN RemoveAt(s, i) :
                 RemoveAt(s, i)[k] = RemoveAt(s, i)[l] => k = l
           /\ \A k \in DOMAIN RemoveAt(s, i) : RemoveAt(s, i)[k] # s[i]
<1>1. /\ DOMAIN RemoveAt(s, i) = 1 .. Len(s) - 1 /\ Len(s) \in Nat
      /\ DOMAIN s = 1 .. Len(s) /\ i \in 1 .. Len(s)
  BY RemoveAtProperties
<1> DEFINE src(k) == IF k < i THEN k ELSE k + 1
<1>2. ASSUME NEW k \in 1 .. Len(s) - 1
      PROVE  src(k) \in DOMAIN s /\ src(k) # i /\ RemoveAt(s, i)[k] = s[src(k)]
  <2>1. RemoveAt(s, i)[k] = IF k < i THEN s[k] ELSE s[k + 1]
    BY RemoveAtProperties
  <2>2. QED
    BY <2>1, <1>1
<1>3. \A k, l \in 1 .. Len(s) - 1 : src(k) = src(l) => k = l
  BY <1>1
<1> HIDE DEF src
<1>4. QED
  BY <1>1, <1>2, <1>3

(* Append adds one element at the end.                                     *)
LEMMA AppendSource ==
    ASSUME NEW S, NEW s \in Seq(S), NEW e \in S
    PROVE  /\ Append(s, e) \in Seq(S)
           /\ DOMAIN s \subseteq DOMAIN Append(s, e)
           /\ \A k \in DOMAIN s : Append(s, e)[k] = s[k]
           /\ Len(s) + 1 \in DOMAIN Append(s, e) /\ Append(s, e)[Len(s) + 1] = e
           /\ \A k \in DOMAIN Append(s, e) : k \in DOMAIN s \/ k = Len(s) + 1
OBVIOUS

-----------------------------------------------------------------------------
(* Loops.                                                                  *)

(* What turn i does to a state of S[i - 1] is in S[i].                     *)
Passes(n, S, F) == \A i \in 1 .. n : \A u \in S[i - 1] : F[<<u, i>>] \in S[i]

(* f are the states a loop of n turns runs through from x.                 *)
Run(f, n, x, S, F) ==
    /\ f = [i \in 0 .. n |-> f[i]] /\ f[0] = x
    /\ \A i \in 0 .. n : f[i] \in S[i]
    /\ \A i \in 1 .. n : f[i] = F[<<f[i - 1], i>>]

(* The states g, where they have been in S, stay in S.                     *)
Keeps(g, n, S)  == \A i \in 1 .. n : g[i - 1] \in S[i - 1] => g[i] \in S[i]

(* A property that every turn of a loop passes on holds after each turn.   *)
LEMMA LoopKeeps ==
    ASSUME NEW n \in Nat, NEW S, NEW g, g[0] \in S[0], Keeps(g, n, S)
    PROVE  \A i \in 0 .. n : g[i] \in S[i]
<1> DEFINE P == {m \in Nat : m <= n => g[m] \in S[m]}
<1>1. 0 \in P
  OBVIOUS
<1>2. ASSUME NEW m \in P PROVE m + 1 \in P
  <2> SUFFICES ASSUME m + 1 <= n PROVE g[m + 1] \in S[m + 1]
    OBVIOUS
  <2>1. m + 1 \in 1 .. n /\ (m + 1) - 1 = m /\ m <= n
    OBVIOUS
  <2>2. QED
    BY <2>1 DEF Keeps
<1>3. \A m \in Nat : m \in P
  <2> HIDE DEF P
  <2>1. P \in SUBSET Nat
    BY DEF P
  <2>2. QED
    BY <1>1, <1>2, <2>1, SetInduction
<1>4. QED
  BY <1>3

(* Such a loop runs.                                                       *)
LEMMA LoopRuns ==
    ASSUME NEW n \in Nat, NEW S, NEW x, NEW F, x \in S[0], Passes(n, S, F)
    PROVE  \E f : Run(f, n, x, S, F)
<1> DEFINE Runs(f, m) == /\ f = [i \in 0 .. m |-> IF i = 0 THEN x ELSE F[<<f[i - 1], i>>]]
                         /\ \A i \in 0 .. m : f[i] \in S[i]
           P == {m \in Nat : m <= n => \E f : Runs(f, m)}
<1>1. 0 \in P
  <2> DEFINE f == [i \in 0 .. 0 |-> x]
  <2>1. f = [i \in 0 .. 0 |-> IF i = 0 THEN x ELSE F[<<f[i - 1], i>>]]
    OBVIOUS
  <2>2. \A i \in 0 .. 0 : f[i] \in S[i]
    OBVIOUS
  <2> HIDE DEF f
  <2>3. Runs(f, 0)
    BY <2>1, <2>2
  <2>4. QED
    BY <2>3
<1>2. ASSUME NEW m \in P PROVE m + 1 \in P
  <2> SUFFICES ASSUME m + 1 <= n PROVE \E f : Runs(f, m + 1)
    OBVIOUS
  <2>1. PICK f : Runs(f, m)
    OBVIOUS
  <2> DEFINE g == [i \in 0 .. m + 1 |-> IF i <= m THEN f[i] ELSE F[<<f[m], m + 1>>]]
  <2>2. m \in Nat /\ m + 1 \in 1 .. n /\ (m + 1) - 1 = m /\ m \in 0 .. m
    OBVIOUS
  <2>3. \A i \in 0 .. m : g[i] = f[i] /\ f[i] \in S[i]
    BY <2>1, <2>2
  <2>4. g[m + 1] = F[<<f[m], m + 1>>]
    BY <2>2
  <2>9. g = [i \in 0 .. m + 1 |-> g[i]]
    OBVIOUS
  <2>5. \A i \in 0 .. m : f[i] = IF i = 0 THEN x ELSE F[<<f[i - 1], i>>]
    BY <2>1
  <2> HIDE DEF g
  <2>6. ASSUME NEW i \in 0 .. m + 1
        PROVE  g[i] = (IF i = 0 THEN x ELSE F[<<g[i - 1], i>>]) /\ g[i] \in S[i]
    <3>1. CASE i = m + 1
      <4>1. f[m] \in S[(m + 1) - 1] /\ g[i - 1] = f[m]
        BY <2>2, <2>3, <3>1
      <4>2. F[<<f[m], m + 1>>] \in S[m + 1]
        BY <2>2, <4>1 DEF Passes
      <4>3. i # 0 /\ g[i] = F[<<g[i - 1], i>>] /\ g[i] \in S[i]
        BY <2>2, <2>4, <3>1, <4>1, <4>2
      <4>4. QED
        BY <4>3
    <3>2. CASE i # m + 1
      <4>1. i \in 0 .. m /\ (i # 0 => i - 1 \in 0 .. m)
        BY <2>2, <3>2
      <4>2. g[i] = f[i] /\ f[i] \in S[i] /\ (i # 0 => g[i - 1] = f[i - 1])
        BY <2>3, <4>1
      <4>3. f[i] = IF i = 0 THEN x ELSE F[<<f[i - 1], i>>]
        BY <2>5, <4>1
      <4>4. QED
        BY <4>2, <4>3
    <3>3. QED
      BY <3>1, <3>2
  <2>7. Runs(g, m + 1)
    BY <2>9, <2>6
  <2>8. QED
    BY <2>7
<1>3. \A m \in Nat : m \in P
  <2> HIDE DEF P
  <2>1. P \in SUBSET Nat
    BY DEF P
  <2>2. QED
    BY <1>1, <1>2, <2>1, SetInduction
<1>4. n \in P
  BY <1>3
<1>5. PICK f : Runs(f, n)
  BY <1>4
<1>6. /\ f = [i \in 0 .. n |-> f[i]] /\ f[0] = x
      /\ \A i \in 1 .. n : f[i] = F[<<f[i - 1], i>>]
  BY <1>5
<1>7. Run(f, n, x, S, F)
  BY <1>5, <1>6 DEF Run
<1>8. QED
  BY <1>7

-----------------------------------------------------------------------------
(* Sums over the elements of a finite set: MapThenSumSet takes them one by *)
(* one.                                                                    *)

Pick(s) == CHOOSE x \in s : TRUE

(* it holds the sums over the subsets of S that have at most n elements.   *)
Totals(it, counts, S, n) ==
    /\ it \in [SUBSET S -> Nat]
    /\ \A s \in SUBSET S : Cardinality(s) <= n =>
         it[s] = IF s = {} THEN 0 ELSE counts[Pick(s)] + it[s \ {Pick(s)}]

(* sum adds the elements of every subset of S one by one.                  *)
OneByOne(sum, counts, S) ==
    \A s \in SUBSET S :
        sum[s] = IF s = {} THEN 0 ELSE counts[Pick(s)] + sum[s \ {Pick(s)}]

(* The set without the element that is taken next.                         *)
LEMMA PickLeaves ==
    ASSUME NEW S, IsFiniteSet(S), NEW s \in SUBSET S, s # {}
    PROVE  /\ Pick(s) \in S /\ Pick(s) \in s /\ s \ {Pick(s)} \in SUBSET S
           /\ Cardinality(s) \in Nat /\ Cardinality(s) > 0
           /\ Cardinality(s \ {Pick(s)}) = Cardinality(s) - 1
<1>1. Pick(s) \in s
  BY DEF Pick
<1>2. IsFiniteSet(s) /\ Cardinality(s) \in Nat
  BY FS_Subset, FS_CardinalityType
<1>3. Cardinality(s \ {Pick(s)}) = Cardinality(s) - 1
  BY <1>1, <1>2, FS_RemoveElement
<1>4. Cardinality(s) > 0
  BY <1>2, FS_EmptySet
<1>5. QED
  BY <1>1, <1>2, <1>3, <1>4

(* A set without elements is empty.                                        *)
LEMMA NoneLeft ==
    ASSUME NEW S, IsFiniteSet(S), NEW s \in SUBSET S, Cardinality(s) <= 0
    PROVE  s = {}
<1>1. SUFFICES ASSUME s # {} PROVE FALSE
  OBVIOUS
<1>2. Cardinality(s) \in Nat /\ Cardinality(s) > 0
  BY <1>1, PickLeaves
<1>3. QED
  BY <1>2

(* There are such sums.                                                    *)
LEMMA TotalsExist ==
    ASSUME NEW V, NEW counts \in [V -> Nat], NEW S \in SUBSET V, IsFiniteSet(S),
           NEW n \in Nat
    PROVE  \E it : Totals(it, counts, S, n)
<1> DEFINE P == {m \in Nat : \E it : Totals(it, counts, S, m)}
<1>1. 0 \in P
  <2> DEFINE it == [s \in SUBSET S |-> 0]
  <2>1. ASSUME NEW s \in SUBSET S, Cardinality(s) <= 0 PROVE s = {}
    BY <2>1, NoneLeft
  <2>2. it \in [SUBSET S -> Nat] /\ \A s \in SUBSET S : it[s] = 0
    OBVIOUS
  <2> HIDE DEF it
  <2>3. Totals(it, counts, S, 0)
    BY <2>1, <2>2 DEF Totals
  <2>4. QED
    BY <2>3
<1>2. ASSUME NEW m \in P PROVE m + 1 \in P
  <2>1. m \in Nat /\ \E it : Totals(it, counts, S, m)
    BY <1>2
  <2>2. PICK it : Totals(it, counts, S, m)
    BY <2>1
  <2> DEFINE New(s) == counts[Pick(s)] + it[s \ {Pick(s)}]
             jt == [s \in SUBSET S |-> IF s # {} /\ Cardinality(s) = m + 1
                                       THEN New(s) ELSE it[s]]
  <2>3. it \in [SUBSET S -> Nat]
    BY <2>2 DEF Totals
  <2>4. ASSUME NEW s \in SUBSET S, s # {} PROVE New(s) \in Nat
    <3>1. Pick(s) \in S /\ s \ {Pick(s)} \in SUBSET S
      BY <2>4, PickLeaves
    <3>2. counts[Pick(s)] \in Nat /\ it[s \ {Pick(s)}] \in Nat
      BY <2>3, <3>1
    <3>3. QED
      BY <3>2
  <2>5. /\ jt \in [SUBSET S -> Nat]
        /\ \A s \in SUBSET S : jt[s] = IF s # {} /\ Cardinality(s) = m + 1
                                       THEN New(s) ELSE it[s]
    BY <2>3, <2>4
  <2> HIDE DEF jt
  <2>6. ASSUME NEW s \in SUBSET S, Cardinality(s) <= m + 1
        PROVE  jt[s] = IF s = {} THEN 0 ELSE counts[Pick(s)] + jt[s \ {Pick(s)}]
    <3>1. CASE s = {}
      <4>1. Cardinality(s) = 0
        BY <3>1, FS_EmptySet
      <4>2. it[s] = 0
        BY <2>1, <2>2, <3>1, <4>1 DEF Totals
      <4>3. QED
        BY <2>5, <3>1, <4>2
    <3>2. CASE s # {}
      <4>1. /\ s \ {Pick(s)} \in SUBSET S /\ Cardinality(s) \in Nat
            /\ Cardinality(s \ {Pick(s)}) = Cardinality(s) - 1
        BY <3>2, PickLeaves
      <4>2. Cardinality(s \ {Pick(s)}) # m + 1
        BY <2>1, <2>6, <4>1
      <4>3. jt[s \ {Pick(s)}] = it[s \ {Pick(s)}]
        BY <2>5, <4>1, <4>2
      <4>4. CASE Cardinality(s) = m + 1
        BY <2>5, <3>2, <4>3, <4>4
      <4>5. CASE Cardinality(s) # m + 1
        <5>1. Cardinality(s) <= m
          BY <2>1, <2>6, <4>1, <4>5
        <5>2. it[s] = New(s)
          BY <2>2, <3>2, <5>1 DEF Totals
        <5>3. QED
          BY <2>5, <3>2, <4>3, <4>5, <5>2
      <4>6. QED
        BY <4>4, <4>5
    <3>3. QED
      BY <3>1, <3>2
  <2>7. Totals(jt, counts, S, m + 1)
    BY <2>5, <2>6 DEF Totals
  <2>8. QED
    BY <2>1, <2>7
<1> HIDE DEF P
<1>3. P \in SUBSET Nat
  BY DEF P
<1>4. n \in P
  BY <1>1, <1>2, <1>3, SetInduction
<1>5. QED
  BY <1>4 DEF P

(* The recursive function of MapThenSumSet holds the sums over all subsets *)
(* of S.                                                                   *)
LEMMA SumsAgree ==
    ASSUME NEW V, NEW counts \in [V -> Nat], NEW S \in SUBSET V, IsFiniteSet(S),
           NEW it, Totals(it, counts, S, Cardinality(S)), NEW sum,
           OneByOne(sum, counts, S)
    PROVE  sum[S] = it[S]
<1>1. Cardinality(S) \in Nat
  BY FS_CardinalityType
<1>3. \A s \in SUBSET S : Cardinality(s) \in Nat /\ Cardinality(s) <= Cardinality(S)
  BY FS_Subset, FS_CardinalityType
<1> DEFINE Q == {m \in Nat : \A s \in SUBSET S : Cardinality(s) = m => sum[s] = it[s]}
<1>8. 0 \in Q
  <2> SUFFICES ASSUME NEW s \in SUBSET S, Cardinality(s) = 0 PROVE sum[s] = it[s]
    OBVIOUS
  <2>1. s = {}
    <3>1. Cardinality(s) <= 0
      OBVIOUS
    <3>2. QED
      BY <3>1, NoneLeft
  <2>2. QED
    BY <1>1, <1>3, <2>1 DEF Totals, OneByOne
<1>9. ASSUME NEW m \in Q PROVE m + 1 \in Q
  <2>1. m \in Nat /\ \A s \in SUBSET S : Cardinality(s) = m => sum[s] = it[s]
    BY <1>9
  <2>2. SUFFICES ASSUME NEW s \in SUBSET S, Cardinality(s) = m + 1 PROVE sum[s] = it[s]
    BY <2>1
  <2>3. s # {}
    <3>1. Cardinality(s) # 0 /\ Cardinality({}) = 0
      BY <2>1, <2>2, FS_EmptySet
    <3>2. QED
      BY <3>1
  <2>4. s \ {Pick(s)} \in SUBSET S /\ Cardinality(s \ {Pick(s)}) = m
    BY <2>1, <2>2, <2>3, PickLeaves
  <2>5. sum[s \ {Pick(s)}] = it[s \ {Pick(s)}]
    BY <2>1, <2>4
  <2>6. it[s] = counts[Pick(s)] + it[s \ {Pick(s)}]
    BY <1>3, <2>3 DEF Totals
  <2>7. QED
    BY <2>3, <2>5, <2>6 DEF OneByOne
<1> HIDE DEF Q
<1>10. Q \in SUBSET Nat
  BY DEF Q
<1>11. Cardinality(S) \in Q
  BY <1>1, <1>8, <1>9, <1>10, SetInduction
<1>12. QED
  BY <1>11 DEF Q
=============================================================================
