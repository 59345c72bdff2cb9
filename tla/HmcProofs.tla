------------------------------ MODULE HmcProofs ------------------------------
(***************************************************************************)
(* The HMC memory system, for every number of links, vaults and addresses: *)
(* its queues stay within xbar_queue_depth, the ages of the arbiters agree *)
(* with the queues they stand for, VaultCallback always finds a response,  *)
(* and every accepted request is handed back once.                         *)
(***************************************************************************)
EXTENDS HMC, SequenceLemmas, FiniteSetTheorems, TLAPS

-----------------------------------------------------------------------------
(* Counting in families of queues.                                         *)

(* Families of queues.                                                    *)
Queues(K, S) == [K -> Seq(S)]

(* Where the members of M are in the queues Q.                             *)
Pos(Q, M) ==
    {z \in (DOMAIN Q) \X Nat : z[2] \in DOMAIN Q[z[1]] /\ Q[z[1]][z[2]] \in M}

Num(Q, M) == Cardinality(Pos(Q, M))

(* The k in G for which e[k], or the first element of Q[k], is in M.       *)
Among(e, G, M)      == {k \in G : e[k] \in M}
FirstAmong(Q, G, M) == {k \in G : Head(Q[k]) \in M}

(* Two sets of pairs with the same pairs are equal.                        *)
LEMMA SamePairs ==
    ASSUME NEW A, NEW B, \A z \in A : z = <<z[1], z[2]>>, \A z \in B : z = <<z[1], z[2]>>,
           \A k, i : <<k, i>> \in A <=> <<k, i>> \in B
    PROVE  A = B
<1>1. ASSUME NEW z \in A PROVE z \in B
  <2>1. <<z[1], z[2]>> \in A
    OBVIOUS
  <2>2. <<z[1], z[2]>> \in B
    BY <2>1
  <2>3. QED
    BY <2>2
<1>2. ASSUME NEW z \in B PROVE z \in A
  <2>1. <<z[1], z[2]>> \in B
    OBVIOUS
  <2>2. <<z[1], z[2]>> \in A
    BY <2>1
  <2>3. QED
    BY <2>2
<1>3. QED
  BY <1>1, <1>2

(* The positions are pairs of a queue and a place in it.                   *)
LEMMA InPos ==
    ASSUME NEW K, NEW S, NEW Q \in Queues(K, S), NEW M
    PROVE  /\ \A k, i : <<k, i>> \in Pos(Q, M)
                          <=> k \in K /\ i \in 1 .. Len(Q[k]) /\ Q[k][i] \in M
           /\ \A z \in Pos(Q, M) : z = <<z[1], z[2]>> /\ z[1] \in K
<1>1. ASSUME NEW k, NEW i
      PROVE  <<k, i>> \in Pos(Q, M) <=> k \in K /\ i \in 1 .. Len(Q[k]) /\ Q[k][i] \in M
  BY DEF Pos, Queues
<1>2. \A z \in Pos(Q, M) : z = <<z[1], z[2]>> /\ z[1] \in K
  BY DEF Pos, Queues
<1>3. QED
  BY <1>1, <1>2

(* The positions are the same when the queues agree about M.               *)
LEMMA CountAlike ==
    ASSUME NEW K, NEW S, NEW T, NEW Q \in Queues(K, S), NEW R \in Queues(K, T), NEW M,
           \A k \in K : /\ Len(R[k]) = Len(Q[k])
                        /\ \A i \in 1 .. Len(Q[k]) : Q[k][i] \in M <=> R[k][i] \in M
    PROVE  Pos(R, M) = Pos(Q, M)
<1>1. \A k, i : <<k, i>> \in Pos(Q, M) <=> <<k, i>> \in Pos(R, M)
  <2> SUFFICES ASSUME NEW k, NEW i PROVE <<k, i>> \in Pos(Q, M) <=> <<k, i>> \in Pos(R, M)
    OBVIOUS
  <2>1. <<k, i>> \in Pos(Q, M) <=> k \in K /\ i \in 1 .. Len(Q[k]) /\ Q[k][i] \in M
    BY InPos
  <2>2. <<k, i>> \in Pos(R, M) <=> k \in K /\ i \in 1 .. Len(R[k]) /\ R[k][i] \in M
    BY InPos
  <2>3. QED
    BY <2>1, <2>2
<1>2. \A z \in Pos(Q, M) : z = <<z[1], z[2]>>
  BY InPos
<1>3. \A z \in Pos(R, M) : z = <<z[1], z[2]>>
  BY InPos
<1>4. QED
  BY <1>1, <1>2, <1>3, SamePairs

(* The members of M are in finitely many queues: they are finitely many.   *)
LEMMA FamilyFinite ==
    ASSUME NEW K, NEW S, NEW Q \in Queues(K, S), NEW M, NEW F \in SUBSET K, IsFiniteSet(F),
           \A k \in K : \A i \in 1 .. Len(Q[k]) : Q[k][i] \in M => k \in F
    PROVE  IsFiniteSet(Pos(Q, M)) /\ Num(Q, M) \in Nat
<1> DEFINE f == [k \in F |-> {z \in Pos(Q, M) : z[1] = k}]
           T == {f[k] : k \in F}
<1>1. f \in Surjection(F, T)
  BY DEF Surjection
<1>2. IsFiniteSet(T)
  <2> HIDE DEF f, T
  <2>1. QED
    BY <1>1, FS_Surjection
<1>3. ASSUME NEW X \in T PROVE IsFiniteSet(X)
  <2>1. PICK k \in F : X = {z \in Pos(Q, M) : z[1] = k}
    OBVIOUS
  <2> DEFINE I == {i \in 1 .. Len(Q[k]) : Q[k][i] \in M}
             g == [i \in I |-> <<k, i>>]
  <2>2. Len(Q[k]) \in Nat /\ k \in K
    OBVIOUS
  <2>3. IsFiniteSet(1 .. Len(Q[k])) /\ I \in SUBSET (1 .. Len(Q[k]))
    BY <2>2, FS_Interval
  <2>4. IsFiniteSet(I)
    <3> HIDE DEF I
    <3>1. QED
      BY <2>3, FS_Subset
  <2>5. \A i \in I : <<k, i>> \in X
    BY <2>1, <2>2, InPos
  <2>6. \A z \in X : \E i \in I : g[i] = z
    <3> SUFFICES ASSUME NEW z \in X PROVE \E i \in I : g[i] = z
      OBVIOUS
    <3>1. z = <<z[1], z[2]>> /\ z[1] = k /\ z \in Pos(Q, M)
      BY <2>1, InPos
    <3>2. z[2] \in I /\ g[z[2]] = z
      BY <3>1, InPos
    <3>3. QED
      BY <3>2
  <2>7. g \in Surjection(I, X)
    BY <2>5, <2>6 DEF Surjection
  <2>8. QED
    <3> HIDE DEF I, g
    <3>1. QED
      BY <2>4, <2>7, FS_Surjection
<1>4. Pos(Q, M) = UNION T
  <2>1. \A z \in Pos(Q, M) : z[1] \in F /\ z \in f[z[1]]
    <3> SUFFICES ASSUME NEW z \in Pos(Q, M) PROVE z[1] \in F /\ z \in f[z[1]]
      OBVIOUS
    <3>1. z = <<z[1], z[2]>> /\ z[1] \in K
      BY InPos
    <3>2. z[2] \in 1 .. Len(Q[z[1]]) /\ Q[z[1]][z[2]] \in M
      BY <3>1, InPos
    <3>3. z[1] \in F
      BY <3>1, <3>2
    <3>4. QED
      BY <3>3
  <2>2. \A X \in T : \A z \in X : z \in Pos(Q, M)
    OBVIOUS
  <2>3. \A z \in Pos(Q, M) : z \in UNION T
    BY <2>1
  <2>4. \A z \in UNION T : z \in Pos(Q, M)
    BY <2>2
  <2>5. QED
    <3> HIDE DEF T
    <3>1. QED
      BY <2>3, <2>4
<1>5. IsFiniteSet(UNION T)
  <2> HIDE DEF T, f
  <2>1. QED
    BY <1>2, <1>3, FS_UNION
<1>6. IsFiniteSet(Pos(Q, M))
  BY <1>4, <1>5
<1>7. QED
  BY <1>6, FS_CardinalityType DEF Num

(* The pair of k and h[k], for the k in X.                                 *)
LEMMA KeyPairs ==
    ASSUME NEW X, NEW h, NEW k, NEW i
    PROVE  <<k, i>> \in {<<l, h[l]>> : l \in X} <=> k \in X /\ i = h[k]
<1>1. ASSUME <<k, i>> \in {<<l, h[l]>> : l \in X} PROVE k \in X /\ i = h[k]
  <2>1. PICK l \in X : <<k, i>> = <<l, h[l]>>
    BY <1>1
  <2>2. k = l /\ i = h[l]
    BY <2>1
  <2>3. QED
    BY <2>2
<1>2. QED
  BY <1>1

(* As many pairs as first parts.                                           *)
LEMMA CountKeys ==
    ASSUME NEW X, IsFiniteSet(X), NEW h
    PROVE  LET H == {<<k, h[k]>> : k \in X}
           IN  IsFiniteSet(H) /\ Cardinality(H) = Cardinality(X)
<1> DEFINE H == {<<k, h[k]>> : k \in X}
           f == [k \in X |-> <<k, h[k]>>]
<1>1. f \in [X -> H] /\ \A k \in X : f[k] = <<k, h[k]>>
  OBVIOUS
<1>2. \A a, b \in X : f[a] = f[b] => a = b
  BY <1>1
<1>3. \A z \in H : \E k \in X : f[k] = z
  OBVIOUS
<1>4. f \in Bijection(X, H)
  <2>1. DOMAIN f = X
    OBVIOUS
  <2> HIDE DEF f, H
  <2>2. QED
    BY <1>1, <1>2, <1>3, <2>1 DEF Bijection, Injection, Surjection, IsInjective
<1>5. ExistsBijection(X, H)
  BY <1>4 DEF ExistsBijection
<1>6. QED
  <2> HIDE DEF H
  <2>1. IsFiniteSet(H) /\ Cardinality(H) = Cardinality(X)
    BY <1>5, FS_Bijection
  <2>2. QED
    BY <2>1 DEF H

(* Two parts without a common element.                                     *)
LEMMA CountParts ==
    ASSUME NEW A, NEW B, IsFiniteSet(A), IsFiniteSet(B), A \cap B = {}
    PROVE  IsFiniteSet(A \cup B) /\ Cardinality(A \cup B) = Cardinality(A) + Cardinality(B)
<1>1. IsFiniteSet(A \cup B)
      /\ Cardinality(A \cup B) = Cardinality(A) + Cardinality(B) - Cardinality(A \cap B)
  BY FS_Union
<1>2. Cardinality(A \cap B) = 0
  BY FS_EmptySet
<1>3. Cardinality(A) \in Nat /\ Cardinality(B) \in Nat
  BY FS_CardinalityType
<1>4. QED
  BY <1>1, <1>2, <1>3

(* The queues in G get one more element each.                              *)
LEMMA CountPush ==
    ASSUME NEW K, NEW S, NEW Q \in Queues(K, S), NEW R \in Queues(K, S),
           NEW G \in SUBSET K, IsFiniteSet(G), NEW e, NEW M,
           \A k \in G : e[k] \in S /\ R[k] = Append(Q[k], e[k]),
           \A k \in K \ G : R[k] = Q[k],
           IsFiniteSet(Pos(Q, M))
    PROVE  /\ IsFiniteSet(Pos(R, M))
           /\ Num(R, M) = Num(Q, M) + Cardinality(Among(e, G, M))
<1> DEFINE X == {k \in G : e[k] \in M}
           h == [k \in K |-> Len(Q[k]) + 1]
           H == {<<k, h[k]>> : k \in X}
<1>1. IsFiniteSet(X)
  BY FS_Subset
<1>2. IsFiniteSet(H) /\ Cardinality(H) = Cardinality(X)
  <2> HIDE DEF X, h
  <2>1. QED
    BY <1>1, CountKeys
<1>3. \A k, i : <<k, i>> \in Pos(Q, M) <=> k \in K /\ i \in 1 .. Len(Q[k]) /\ Q[k][i] \in M
  BY InPos
<1>4. \A k, i : <<k, i>> \in Pos(R, M) <=> k \in K /\ i \in 1 .. Len(R[k]) /\ R[k][i] \in M
  BY InPos
<1>5. \A k, i : <<k, i>> \in H <=> k \in G /\ e[k] \in M /\ i = Len(Q[k]) + 1
  <2>2. \A k, i : <<k, i>> \in H <=> k \in X /\ i = h[k]
    <3> HIDE DEF X, h
    <3>1. QED
      BY KeyPairs
  <2>3. \A k \in K : h[k] = Len(Q[k]) + 1
    OBVIOUS
  <2> HIDE DEF H, h
  <2>4. QED
    BY <2>2, <2>3
<1> HIDE DEF H, h
<1>6. Pos(R, M) = Pos(Q, M) \cup H
  <2>1. ASSUME NEW k, NEW i
        PROVE  <<k, i>> \in Pos(R, M) <=> <<k, i>> \in Pos(Q, M) \/ <<k, i>> \in H
    <3>1. CASE k \in G
      <4>0. k \in K /\ Q[k] \in Seq(S) /\ Len(Q[k]) \in Nat /\ e[k] \in S
            /\ R[k] = Append(Q[k], e[k])
        BY <3>1 DEF Queues
      <4>1. /\ Len(R[k]) = Len(Q[k]) + 1
            /\ \A j \in 1 .. Len(Q[k]) : R[k][j] = Q[k][j]
            /\ R[k][Len(Q[k]) + 1] = e[k]
        BY <4>0
      <4>2. i \in 1 .. Len(R[k]) <=> i \in 1 .. Len(Q[k]) \/ i = Len(Q[k]) + 1
        BY <4>0, <4>1
      <4>3. QED
        BY <1>3, <1>4, <1>5, <3>1, <4>0, <4>1, <4>2
    <3>2. CASE k \in K \ G
      BY <1>3, <1>4, <1>5, <3>2
    <3>3. CASE k \notin K
      BY <1>3, <1>4, <1>5, <3>3
    <3>4. QED
      BY <3>1, <3>2, <3>3
  <2>2. \A z \in Pos(Q, M) \cup H : z = <<z[1], z[2]>>
    <3>1. \A z \in Pos(Q, M) : z = <<z[1], z[2]>>
      BY InPos
    <3>2. \A z \in H : z = <<z[1], z[2]>>
      BY DEF H
    <3>3. QED
      BY <3>1, <3>2
  <2>3. \A z \in Pos(R, M) : z = <<z[1], z[2]>>
    BY InPos
  <2>4. QED
    BY <2>1, <2>2, <2>3, SamePairs
<1>7. Pos(Q, M) \cap H = {}
  <2> SUFFICES ASSUME NEW z \in Pos(Q, M), z \in H PROVE FALSE
    OBVIOUS
  <2>1. z = <<z[1], z[2]>>
    BY InPos
  <2>2. z[1] \in K /\ z[2] \in 1 .. Len(Q[z[1]])
    BY <1>3, <2>1
  <2>3. z[2] = Len(Q[z[1]]) + 1
    BY <1>5, <2>1
  <2>4. QED
    BY <2>2, <2>3
<1>8. IsFiniteSet(Pos(R, M)) /\ Num(R, M) = Num(Q, M) + Cardinality(X)
  <2> HIDE DEF X
  <2>1. IsFiniteSet(Pos(Q, M) \cup H)
        /\ Cardinality(Pos(Q, M) \cup H) = Cardinality(Pos(Q, M)) + Cardinality(H)
    BY <1>2, <1>7, CountParts
  <2>2. QED
    BY <1>2, <1>6, <2>1 DEF Num
<1>9. QED
  BY <1>8 DEF Among

(* The queues in G lose their first element.                               *)
LEMMA CountPop ==
    ASSUME NEW K, NEW S, NEW Q \in Queues(K, S), NEW R \in Queues(K, S),
           NEW G \in SUBSET K, IsFiniteSet(G), NEW M,
           \A k \in G : Q[k] # <<>> /\ R[k] = Tail(Q[k]),
           \A k \in K \ G : R[k] = Q[k],
           IsFiniteSet(Pos(Q, M))
    PROVE  /\ IsFiniteSet(Pos(R, M))
           /\ Num(Q, M) = Num(R, M) + Cardinality(FirstAmong(Q, G, M))
<1> DEFINE X == {k \in G : Head(Q[k]) \in M}
           one == 1
           h == [k \in X |-> one]
           H == {<<k, h[k]>> : k \in X}
           D == Pos(Q, M) \ H
           to(z) == <<z[1], IF z[1] \in G THEN z[2] + 1 ELSE z[2]>>
           f == [z \in Pos(R, M) |-> to(z)]
<1>1. IsFiniteSet(X)
  BY FS_Subset
<1>2. IsFiniteSet(H) /\ Cardinality(H) = Cardinality(X)
  <2> HIDE DEF X, h
  <2>1. QED
    BY <1>1, CountKeys
<1>3. \A k, i : <<k, i>> \in Pos(Q, M) <=> k \in K /\ i \in 1 .. Len(Q[k]) /\ Q[k][i] \in M
  BY InPos
<1>4. \A k, i : <<k, i>> \in Pos(R, M) <=> k \in K /\ i \in 1 .. Len(R[k]) /\ R[k][i] \in M
  BY InPos
<1>5. \A k, i : <<k, i>> \in H <=> k \in G /\ Head(Q[k]) \in M /\ i = 1
  <2>1. \A k, i : <<k, i>> \in H <=> k \in X /\ i = h[k]
    <3> HIDE DEF X, h
    <3>1. QED
      BY KeyPairs
  <2>2. \A k \in X : h[k] = 1
    OBVIOUS
  <2> HIDE DEF H, h
  <2>3. QED
    BY <2>1, <2>2
<1> HIDE DEF h
<1>6. \A z \in H : z = <<z[1], z[2]>>
  <2> HIDE DEF X
  <2>1. QED
    OBVIOUS
<1> HIDE DEF H
<1>7. \A k \in G : /\ k \in K /\ Len(Q[k]) \in Nat /\ Len(Q[k]) >= 1
                   /\ Len(R[k]) = Len(Q[k]) - 1
                   /\ \A i \in 1 .. Len(R[k]) : R[k][i] = Q[k][i + 1]
                   /\ Head(Q[k]) = Q[k][1]
  <2> SUFFICES ASSUME NEW k \in G
               PROVE  /\ k \in K /\ Len(Q[k]) \in Nat /\ Len(Q[k]) >= 1
                      /\ Len(R[k]) = Len(Q[k]) - 1
                      /\ \A i \in 1 .. Len(R[k]) : R[k][i] = Q[k][i + 1]
                      /\ Head(Q[k]) = Q[k][1]
    OBVIOUS
  <2>1. k \in K /\ Q[k] \in Seq(S) /\ Q[k] # <<>> /\ R[k] = Tail(Q[k])
    BY DEF Queues
  <2>2. QED
    BY <2>1
<1>8. \A k, i : <<k, i>> \in D
         <=> (k \in K /\ i \in 1 .. Len(Q[k]) /\ Q[k][i] \in M /\ (k \in G => i # 1))
  <2> SUFFICES ASSUME NEW k, NEW i
               PROVE  <<k, i>> \in D
                  <=> (k \in K /\ i \in 1 .. Len(Q[k]) /\ Q[k][i] \in M /\ (k \in G => i # 1))
    OBVIOUS
  <2>1. <<k, i>> \in D <=> <<k, i>> \in Pos(Q, M) /\ ~(<<k, i>> \in H)
    OBVIOUS
  <2> HIDE DEF D, X
  <2>2. <<k, i>> \in Pos(Q, M) <=> k \in K /\ i \in 1 .. Len(Q[k]) /\ Q[k][i] \in M
    BY <1>3
  <2>3. <<k, i>> \in H <=> k \in G /\ Head(Q[k]) \in M /\ i = 1
    BY <1>5
  <2>4. CASE k \in G
    <3>1. Head(Q[k]) = Q[k][1]
      BY <1>7, <2>4
    <3>2. QED
      BY <2>1, <2>2, <2>3, <2>4, <3>1
  <2>5. CASE k \notin G
    BY <2>1, <2>2, <2>3, <2>5
  <2>6. QED
    BY <2>4, <2>5
<1>9. \A z \in Pos(R, M) : z = <<z[1], z[2]>> /\ to(z) \in D
  <2> SUFFICES ASSUME NEW z \in Pos(R, M) PROVE z = <<z[1], z[2]>> /\ to(z) \in D
    OBVIOUS
  <2>1. z = <<z[1], z[2]>>
    BY InPos
  <2>2. z[1] \in K /\ z[2] \in 1 .. Len(R[z[1]]) /\ R[z[1]][z[2]] \in M
    BY <1>4, <2>1
  <2>3. CASE z[1] \in G
    <3>1. /\ z[2] + 1 \in 1 .. Len(Q[z[1]]) /\ z[2] + 1 # 1
          /\ Q[z[1]][z[2] + 1] = R[z[1]][z[2]]
      BY <1>7, <2>2, <2>3
    <3>2. <<z[1], z[2] + 1>> \in D
      BY <1>8, <2>2, <3>1
    <3>3. QED
      BY <2>1, <2>3, <3>2
  <2>4. CASE z[1] \notin G
    <3>1. R[z[1]] = Q[z[1]]
      BY <2>2, <2>4
    <3>2. <<z[1], z[2]>> \in D
      BY <1>8, <2>2, <2>4, <3>1
    <3>3. QED
      BY <2>1, <2>4, <3>2
  <2>5. QED
    BY <2>3, <2>4
<1>10. \A y, z \in Pos(R, M) : to(y) = to(z) => y = z
  <2> SUFFICES ASSUME NEW y \in Pos(R, M), NEW z \in Pos(R, M), to(y) = to(z) PROVE y = z
    OBVIOUS
  <2>1. y = <<y[1], y[2]>> /\ z = <<z[1], z[2]>>
    BY <1>9
  <2>2. y[2] \in Int /\ z[2] \in Int
    BY DEF Pos
  <2>3. y[1] = z[1] /\ y[2] = z[2]
    BY <2>2
  <2>4. QED
    BY <2>1, <2>3
<1>11. \A z \in D : \E y \in Pos(R, M) : to(y) = z
  <2> SUFFICES ASSUME NEW z \in D PROVE \E y \in Pos(R, M) : to(y) = z
    OBVIOUS
  <2>0. z \in Pos(Q, M)
    OBVIOUS
  <2>1. z = <<z[1], z[2]>>
    BY <2>0 DEF Pos
  <2>2. z[1] \in K /\ z[2] \in 1 .. Len(Q[z[1]]) /\ Q[z[1]][z[2]] \in M /\ (z[1] \in G => z[2] # 1)
    BY <1>8, <2>1
  <2>3. CASE z[1] \in G
    <3> DEFINE i == z[2] - 1
    <3>0. Len(Q[z[1]]) \in Nat /\ Len(R[z[1]]) = Len(Q[z[1]]) - 1
      BY <1>7, <2>3
    <3>5. i \in 1 .. Len(R[z[1]]) /\ i + 1 = z[2]
      BY <2>2, <2>3, <3>0
    <3>1. /\ i \in 1 .. Len(R[z[1]]) /\ i + 1 = z[2] /\ R[z[1]][i] = Q[z[1]][i + 1]
      <4> HIDE DEF i
      <4>1. QED
        BY <1>7, <2>3, <3>5
    <3> HIDE DEF i
    <3>2. <<z[1], i>> \in Pos(R, M)
      BY <1>4, <2>2, <3>1
    <3>3. to(<<z[1], i>>) = z
      BY <2>1, <2>3, <3>1
    <3>4. QED
      BY <3>2, <3>3
  <2>4. CASE z[1] \notin G
    <3>1. R[z[1]] = Q[z[1]]
      BY <2>2, <2>4
    <3>2. <<z[1], z[2]>> \in Pos(R, M)
      BY <1>4, <2>2, <3>1
    <3>3. to(<<z[1], z[2]>>) = z
      BY <2>1, <2>4
    <3>4. QED
      BY <3>2, <3>3
  <2>5. QED
    BY <2>3, <2>4
<1>12. f \in Bijection(Pos(R, M), D)
  <2>1. /\ f \in [Pos(R, M) -> D] /\ DOMAIN f = Pos(R, M)
        /\ \A z \in Pos(R, M) : f[z] = to(z)
    BY <1>9
  <2> HIDE DEF f, D, to
  <2>2. QED
    BY <1>10, <1>11, <2>1 DEF Bijection, Injection, Surjection, IsInjective
<1>13. \E g : g \in Bijection(Pos(R, M), D)
  BY <1>12
<1> HIDE DEF f, to
<1>14. D \cup H = Pos(Q, M) /\ D \cap H = {}
  <2>1. \A z \in H : z \in Pos(Q, M)
    <3> SUFFICES ASSUME NEW z \in H PROVE z \in Pos(Q, M)
      OBVIOUS
    <3>1. z = <<z[1], z[2]>>
      BY <1>6
    <3>2. z[1] \in G /\ Head(Q[z[1]]) \in M /\ z[2] = 1
      BY <1>5, <3>1
    <3>3. z[1] \in K /\ 1 \in 1 .. Len(Q[z[1]]) /\ Q[z[1]][1] \in M
      BY <1>7, <3>2
    <3>4. <<z[1], z[2]>> \in Pos(Q, M)
      BY <1>3, <3>2, <3>3
    <3>5. QED
      BY <3>1, <3>4
  <2>2. QED
    BY <2>1
<1>15. IsFiniteSet(D)
  BY FS_Subset
<1> HIDE DEF D
<1>16. IsFiniteSet(Pos(R, M)) /\ Cardinality(Pos(R, M)) = Cardinality(D)
  <2>1. PICK g : g \in Bijection(Pos(R, M), D)
    BY <1>13
  <2>2. g \in Injection(Pos(R, M), D) /\ g \in Surjection(Pos(R, M), D)
    BY <2>1 DEF Bijection
  <2>3. QED
    BY <1>15, <2>2, FS_Injection
<1>17. IsFiniteSet(Pos(R, M)) /\ Num(Q, M) = Num(R, M) + Cardinality(X)
  <2> HIDE DEF X
  <2>1. Cardinality(D \cup H) = Cardinality(D) + Cardinality(H)
    BY <1>2, <1>14, <1>15, CountParts
  <2>2. QED
    BY <1>2, <1>14, <1>16, <2>1 DEF Num
<1>18. QED
  BY <1>17 DEF FirstAmong

(* One queue gets an element.                                              *)
LEMMA PushOne ==
    ASSUME NEW K, NEW S, NEW Q \in Queues(K, S), NEW R \in Queues(K, S),
           NEW k \in K, NEW e \in S, NEW M, IsFiniteSet(Pos(Q, M)),
           R[k] = Append(Q[k], e), \A j \in K : j # k => R[j] = Q[j]
    PROVE  /\ IsFiniteSet(Pos(R, M))
           /\ Num(R, M) = Num(Q, M) + (IF e \in M THEN 1 ELSE 0)
<1> DEFINE G == {k}
           es == [j \in G |-> e]
           X == Among(es, G, M)
<1>1. G \in SUBSET K /\ IsFiniteSet(G)
  BY FS_Singleton
<1>2. /\ \A j \in G : es[j] \in S /\ R[j] = Append(Q[j], es[j])
      /\ \A j \in K \ G : R[j] = Q[j]
  OBVIOUS
<1>3. Cardinality(X) = IF e \in M THEN 1 ELSE 0
  <2>1. CASE e \in M
    <3>1. X = {k}
      BY <2>1 DEF Among
    <3>2. QED
      BY <2>1, <3>1, FS_Singleton
  <2>2. CASE e \notin M
    <3>1. X = {}
      BY <2>2 DEF Among
    <3>2. QED
      BY <2>2, <3>1, FS_EmptySet
  <2>3. QED
    BY <2>1, <2>2
<1>4. IsFiniteSet(Pos(R, M)) /\ Num(R, M) = Num(Q, M) + Cardinality(X)
  <2> HIDE DEF G, es
  <2>1. QED
    BY <1>1, <1>2, CountPush
<1>5. QED
  <2> HIDE DEF X
  <2>1. QED
    BY <1>3, <1>4

(* One queue loses its first element.                                      *)
LEMMA PopOne ==
    ASSUME NEW K, NEW S, NEW Q \in Queues(K, S), NEW R \in Queues(K, S),
           NEW k \in K, NEW M, IsFiniteSet(Pos(Q, M)),
           Q[k] # <<>>, R[k] = Tail(Q[k]), \A j \in K : j # k => R[j] = Q[j]
    PROVE  /\ IsFiniteSet(Pos(R, M))
           /\ Num(Q, M) = Num(R, M) + (IF Head(Q[k]) \in M THEN 1 ELSE 0)
<1> DEFINE G == {k}
           X == FirstAmong(Q, G, M)
<1>1. G \in SUBSET K /\ IsFiniteSet(G)
  BY FS_Singleton
<1>2. /\ \A j \in G : Q[j] # <<>> /\ R[j] = Tail(Q[j])
      /\ \A j \in K \ G : R[j] = Q[j]
  OBVIOUS
<1>3. Cardinality(X) = IF Head(Q[k]) \in M THEN 1 ELSE 0
  <2>1. CASE Head(Q[k]) \in M
    <3>1. X = {k}
      BY <2>1 DEF FirstAmong
    <3>2. QED
      BY <2>1, <3>1, FS_Singleton
  <2>2. CASE ~(Head(Q[k]) \in M)
    <3>1. X = {}
      BY <2>2 DEF FirstAmong
    <3>2. QED
      BY <2>2, <3>1, FS_EmptySet
  <2>3. QED
    BY <2>1, <2>2
<1>4. IsFiniteSet(Pos(R, M)) /\ Num(Q, M) = Num(R, M) + Cardinality(X)
  <2> HIDE DEF G
  <2>1. QED
    BY <1>1, <1>2, CountPop
<1>5. QED
  <2> HIDE DEF X
  <2>1. QED
    BY <1>3, <1>4

-----------------------------------------------------------------------------
(* Packets, and the transactions in the vaults.                            *)

PacketType == [addr : Addr, is_write : BOOLEAN, link : Links, wait : Nat]
EntryType  == [addr : Addr, is_write : BOOLEAN, wait : Int]
Parcels    == PacketType \cup EntryType

(* Those of an address, and those like a transaction.                      *)
OfAddr(a) == {p \in Parcels : p.addr = a}
OfKind(t) == {p \in Parcels : p.addr = t.addr /\ p.is_write = t.is_write}
Kinds     == {OfAddr(a) : a \in Addr} \cup {OfKind(t) : t \in Transactions}

(* There are finitely many links, quadrants and vaults.                    *)
LEMMA SidesFinite == IsFiniteSet(Links) /\ IsFiniteSet(Quads) /\ IsFiniteSet(Vaults)
<1> DEFINE zero == 0
           l == num_links - 1
           q == 3
           v == channels - 1
<1>1. zero \in Int /\ l \in Int /\ q \in Int /\ v \in Int
  BY LinksAssumption
<1>2. Links = zero .. l /\ Quads = zero .. q /\ Vaults = zero .. v
  BY DEF Links, Quads, Vaults
<1> HIDE DEF zero, l, q, v
<1>3. IsFiniteSet(zero .. l) /\ IsFiniteSet(zero .. q) /\ IsFiniteSet(zero .. v)
  BY <1>1, FS_Interval
<1>4. QED
  BY <1>2, <1>3

(* The kind of a packet does not depend on its wait.                       *)
LEMMA WaitIsNoKind ==
    ASSUME NEW p \in PacketType, NEW w \in Nat
    PROVE  /\ [p EXCEPT !.wait = w] \in PacketType
           /\ [p EXCEPT !.wait = w].addr = p.addr
           /\ \A M \in Kinds : [p EXCEPT !.wait = w] \in M <=> p \in M
<1> DEFINE r == [p EXCEPT !.wait = w]
<1>1. r \in PacketType /\ r.addr = p.addr /\ r.is_write = p.is_write
  BY DEF PacketType
<1> HIDE DEF r
<1>2. p \in Parcels /\ r \in Parcels
  BY <1>1 DEF Parcels
<1>3. \A M \in Kinds : r \in M <=> p \in M
  BY <1>1, <1>2 DEF Kinds, OfAddr, OfKind
<1>4. QED
  BY <1>1, <1>3 DEF r

(* The same for a transaction in a vault.                                  *)
LEMMA EntryWaitIsNoKind ==
    ASSUME NEW p \in EntryType
    PROVE  /\ [p EXCEPT !.wait = @ - 1] \in EntryType
           /\ [p EXCEPT !.wait = @ - 1].addr = p.addr
           /\ \A M \in Kinds : [p EXCEPT !.wait = @ - 1] \in M <=> p \in M
<1> DEFINE r == [p EXCEPT !.wait = @ - 1]
<1>1. r \in EntryType /\ r.addr = p.addr /\ r.is_write = p.is_write
  BY DEF EntryType
<1> HIDE DEF r
<1>2. p \in Parcels /\ r \in Parcels
  BY <1>1 DEF Parcels
<1>3. \A M \in Kinds : r \in M <=> p \in M
  BY <1>1, <1>2 DEF Kinds, OfAddr, OfKind
<1>4. QED
  BY <1>1, <1>3 DEF r

(* The flits of a packet.                                                  *)
LEMMA FlitsType == \A data \in BOOLEAN : PacketFlits(data) \in 0 .. 17
<1> SUFFICES ASSUME NEW data \in BOOLEAN PROVE PacketFlits(data) \in 0 .. 17
  OBVIOUS
<1>1. block_size \in {0, 32, 64, 128, 256}
  BY LinksAssumption
<1>2. block_size \div 16 \in 0 .. 16
  BY <1>1
<1>3. QED
  BY <1>2 DEF PacketFlits

(* An address belongs to one of the vaults, and it to a quadrant.          *)
LEMMA QuadType == \A a \in Addr : GetChannel[a] \in Vaults /\ QuadOf(a) \in Quads
<1> SUFFICES ASSUME NEW a \in Addr PROVE GetChannel[a] \in Vaults /\ QuadOf(a) \in Quads
  OBVIOUS
<1>1. GetChannel[a] \in Vaults
  BY LinksAssumption
<1>2. GetChannel[a] \in Nat
  BY <1>1, LinksAssumption DEF Vaults
<1>3. GetChannel[a] % 4 \in 0 .. 3
  BY <1>2
<1>4. QED
  BY <1>1, <1>3 DEF QuadOf, Quads

(* The queues of a finite side hold finitely many members of any kind.     *)
LEMMA SideCounts ==
    ASSUME NEW K, NEW S, NEW Q \in Queues(K, S), NEW M, IsFiniteSet(K)
    PROVE  IsFiniteSet(Pos(Q, M)) /\ Num(Q, M) \in Nat
<1>1. K \in SUBSET K /\ \A k \in K : \A i \in 1 .. Len(Q[k]) : Q[k][i] \in M => k \in K
  OBVIOUS
<1>2. QED
  BY <1>1, FamilyFinite

-----------------------------------------------------------------------------
(* The crossbar.                                                           *)

(* The packets in the queues of the quadrants are for their vaults.        *)
QuadRouted(Q) == \A q \in Quads : \A i \in 1 .. Len(Q[q]) : QuadOf(Q[q][i].addr) = q

AgesMatch(age, Q, K) == \A k \in K : age[k] > 0 <=> Q[k] # <<>>

Short(Q, K) == \A k \in K : Len(Q[k]) <= xbar_queue_depth

(* A side of the crossbar: from K to D.                                    *)
XbarType(K, D) ==
    [requests : BOOLEAN, from : Queues(K, PacketType), to : Queues(D, PacketType),
     busy : [D -> -1 .. 17], age : [K -> 0 .. MaxAge]]

XbarOk(x, K, D) ==
    /\ x \in XbarType(K, D)
    /\ AgesMatch(x.age, x.from, K)
    /\ Short(x.to, D)
    /\ D = IF x.requests THEN Quads ELSE Links
    /\ x.requests => QuadRouted(x.to)

(* What was crossing in x, and is crossing in y.                           *)
Conserved(x, y) ==
    \A M \in Kinds : Num(y.from, M) + Num(y.to, M) = Num(x.from, M) + Num(x.to, M)

(* Cross takes the first packet of a queue that has one across, or makes   *)
(* the queue older.                                                        *)
LEMMA CrossStep ==
    ASSUME NEW K, NEW D, IsFiniteSet(K), IsFiniteSet(D),
           NEW x, XbarOk(x, K, D), NEW src \in K, x.from[src] # <<>>
    PROVE  LET y == Cross(x, src)
           IN  /\ XbarOk(y, K, D) /\ y.requests = x.requests /\ Conserved(x, y)
               /\ \A k \in K : k # src => y.from[k] = x.from[k]
               /\ \A k \in K : Len(y.from[k]) <= Len(x.from[k])
<1> DEFINE p == Head(x.from[src])
           d == IF x.requests THEN QuadOf(p.addr) ELSE p.link
           flits == IF x.requests THEN ReqFlits(p) ELSE RespFlits(p)
           r == [p EXCEPT !.wait = flits]
           y == Cross(x, src)
<1>1. /\ x \in XbarType(K, D) /\ x.requests \in BOOLEAN
      /\ x.from \in Queues(K, PacketType) /\ x.to \in Queues(D, PacketType)
      /\ x.busy \in [D -> -1 .. 17] /\ x.age \in [K -> 0 .. MaxAge]
      /\ AgesMatch(x.age, x.from, K) /\ Short(x.to, D)
      /\ D = (IF x.requests THEN Quads ELSE Links) /\ (x.requests => QuadRouted(x.to))
  BY DEF XbarOk, XbarType
<1>2. x.from[src] \in Seq(PacketType) /\ p \in PacketType /\ Tail(x.from[src]) \in Seq(PacketType)
  <2>1. x.from[src] \in Seq(PacketType)
    BY <1>1 DEF Queues
  <2>2. QED
    BY <2>1
<1>3. p.addr \in Addr /\ p.link \in Links /\ p.is_write \in BOOLEAN
  BY <1>2 DEF PacketType
<1>4. d \in D /\ (x.requests => d = QuadOf(p.addr))
  BY <1>1, <1>3, QuadType
<1>5. flits \in 0 .. 17 /\ flits \in -1 .. 17 /\ flits \in Nat
  <2>1. ReqFlits(p) \in 0 .. 17 /\ RespFlits(p) \in 0 .. 17
    BY <1>3, FlitsType DEF ReqFlits, RespFlits
  <2>2. flits \in 0 .. 17
    BY <2>1
  <2>3. QED
    BY <2>2
<1>6. r \in PacketType /\ r.addr = p.addr /\ \A M \in Kinds : r \in M <=> p \in M
  <2> HIDE DEF p, flits
  <2>1. QED
    BY <1>2, <1>5, WaitIsNoKind
<1>7. MaxAge \in Nat /\ MaxAge >= 4
  BY LinksAssumption DEF MaxAge
<1>8. CASE HasRoom(x.to[d]) /\ x.busy[d] <= 0
  <2> DEFINE from == [x.from EXCEPT ![src] = Tail(@)]
             to == [x.to EXCEPT ![d] = Append(@, r)]
             busy == [x.busy EXCEPT ![d] = flits]
             age == [x.age EXCEPT ![src] = AgeAfterMove(x.from[src])]
  <2>1. y = [x EXCEPT !.from = from, !.to = to, !.busy = busy, !.age = age]
    BY <1>8 DEF Cross
  <2> HIDE DEF p, d, flits, r, y
  <2>2. from \in Queues(K, PacketType)
    BY <1>1, <1>2 DEF Queues
  <2>3. to \in Queues(D, PacketType)
    <3>1. x.to[d] \in Seq(PacketType)
      BY <1>1, <1>4 DEF Queues
    <3>2. Append(x.to[d], r) \in Seq(PacketType)
      BY <1>6, <3>1
    <3>3. QED
      BY <1>1, <3>2 DEF Queues
  <2>4. busy \in [D -> -1 .. 17]
    BY <1>1, <1>5
  <2>5. age \in [K -> 0 .. MaxAge]
    BY <1>1, <1>7 DEF AgeAfterMove
  <2>6. from[src] = Tail(x.from[src]) /\ \A k \in K : k # src => from[k] = x.from[k]
    BY <1>1 DEF Queues
  <2>7. to[d] = Append(x.to[d], r) /\ \A k \in D : k # d => to[k] = x.to[k]
    BY <1>1, <1>4 DEF Queues
  <2>8. AgesMatch(age, from, K)
    <3>1. age[src] = AgeAfterMove(x.from[src]) /\ \A k \in K : k # src => age[k] = x.age[k]
      BY <1>1
    <3> HIDE DEF age, from
    <3>2. age[src] > 0 <=> from[src] # <<>>
      <4> DEFINE rest == Tail(x.from[src])
      <4>1. age[src] = (IF rest = <<>> THEN 0 ELSE 1) /\ from[src] = rest
        BY <2>6, <3>1 DEF AgeAfterMove
      <4> HIDE DEF rest
      <4>2. CASE rest = <<>>
        BY <4>1, <4>2
      <4>3. CASE rest # <<>>
        BY <4>1, <4>3
      <4>4. QED
        BY <4>2, <4>3
    <3>3. QED
      BY <1>1, <2>6, <3>1, <3>2 DEF AgesMatch
  <2>9. /\ x.to[d] \in Seq(PacketType) /\ Len(x.to[d]) \in Nat /\ Len(to[d]) = Len(x.to[d]) + 1
        /\ to[d][Len(x.to[d]) + 1] = r
        /\ \A i \in 1 .. Len(x.to[d]) : to[d][i] = x.to[d][i]
    <3>1. x.to[d] \in Seq(PacketType)
      BY <1>1, <1>4 DEF Queues
    <3>2. QED
      BY <1>6, <2>7, <3>1
  <2>10. Short(to, D)
    <3>1. Len(x.to[d]) < xbar_queue_depth /\ xbar_queue_depth \in Nat
      BY <1>8, LinksAssumption DEF HasRoom
    <3>2. QED
      BY <1>1, <2>7, <2>9, <3>1 DEF Short
  <2>11. x.requests => QuadRouted(to)
    <3> SUFFICES ASSUME x.requests, NEW q \in Quads, NEW i \in 1 .. Len(to[q])
                 PROVE  QuadOf(to[q][i].addr) = q
      BY DEF QuadRouted
    <3>1. D = Quads /\ QuadRouted(x.to) /\ d = QuadOf(p.addr)
      BY <1>1, <1>4
    <3>2. CASE q = d
      <4>1. i \in 1 .. Len(x.to[d]) \/ i = Len(x.to[d]) + 1
        BY <2>9, <3>2
      <4>2. QED
        BY <1>6, <2>9, <3>1, <3>2, <4>1 DEF QuadRouted
    <3>3. CASE q # d
      BY <2>7, <3>1, <3>3 DEF QuadRouted
    <3>4. QED
      BY <3>2, <3>3
  <2>12. \A k \in K : Len(from[k]) <= Len(x.from[k])
    <3>1. Len(Tail(x.from[src])) <= Len(x.from[src])
      BY <1>2
    <3>2. \A k \in K : Len(x.from[k]) \in Nat
      BY <1>1 DEF Queues
    <3>3. QED
      BY <2>6, <3>1, <3>2
  <2>13. ASSUME NEW M \in Kinds
         PROVE  Num(from, M) + Num(to, M) = Num(x.from, M) + Num(x.to, M)
    <3>1. IsFiniteSet(Pos(x.from, M)) /\ IsFiniteSet(Pos(x.to, M))
      BY <1>1, SideCounts
    <3>2. Num(x.from, M) = Num(from, M) + (IF p \in M THEN 1 ELSE 0)
      <4> HIDE DEF from
      <4>1. QED
        BY <1>1, <2>2, <2>6, <3>1, PopOne DEF p
    <3>3. Num(to, M) = Num(x.to, M) + (IF r \in M THEN 1 ELSE 0)
      <4> HIDE DEF to
      <4>1. QED
        BY <1>1, <1>4, <1>6, <2>3, <2>7, <3>1, PushOne
    <3>4. Num(from, M) \in Nat /\ Num(to, M) \in Nat /\ Num(x.to, M) \in Nat
      <4> HIDE DEF from, to
      <4>1. QED
        BY <1>1, <2>2, <2>3, SideCounts
    <3>5. r \in M <=> p \in M
      BY <1>6
    <3>6. QED
      <4> HIDE DEF from, to
      <4>1. QED
        BY <3>2, <3>3, <3>4, <3>5
  <2> HIDE DEF from, to, busy, age, y
  <2>14. /\ y \in XbarType(K, D) /\ y.requests = x.requests
         /\ y.from = from /\ y.to = to /\ y.busy = busy /\ y.age = age
    BY <1>1, <2>1, <2>2, <2>3, <2>4, <2>5 DEF XbarType
  <2>15. XbarOk(y, K, D)
    BY <1>1, <2>8, <2>10, <2>11, <2>14 DEF XbarOk
  <2>16. Conserved(x, y)
    BY <2>13, <2>14 DEF Conserved
  <2>17. QED
    BY <2>6, <2>12, <2>14, <2>15, <2>16 DEF y
<1>9. CASE ~(HasRoom(x.to[d]) /\ x.busy[d] <= 0)
  <2> DEFINE age == [x.age EXCEPT ![src] = IF @ < MaxAge THEN @ + 1 ELSE @]
  <2>1. y = [x EXCEPT !.age = age]
    BY <1>9 DEF Cross
  <2>2. age \in [K -> 0 .. MaxAge]
    BY <1>1, <1>7
  <2>3. AgesMatch(age, x.from, K)
    <3>1. x.age[src] \in 0 .. MaxAge /\ x.age[src] > 0
      BY <1>1 DEF AgesMatch
    <3>2. age[src] > 0 /\ \A k \in K : k # src => age[k] = x.age[k]
      BY <1>1, <1>7, <3>1
    <3>3. QED
      BY <1>1, <3>2 DEF AgesMatch
  <2> HIDE DEF age, y, p, d, flits, r
  <2>4. /\ y \in XbarType(K, D) /\ y.requests = x.requests
        /\ y.from = x.from /\ y.to = x.to /\ y.busy = x.busy /\ y.age = age
    BY <1>1, <2>1, <2>2 DEF XbarType
  <2>5. XbarOk(y, K, D)
    BY <1>1, <2>3, <2>4 DEF XbarOk
  <2>6. Conserved(x, y)
    BY <2>4 DEF Conserved
  <2>7. \A k \in K : Len(x.from[k]) <= Len(x.from[k])
    <3>1. \A k \in K : Len(x.from[k]) \in Nat
      BY <1>1 DEF Queues
    <3>2. QED
      BY <3>1
  <2>8. QED
    BY <2>4, <2>5, <2>6, <2>7 DEF y
<1>10. QED
  BY <1>8, <1>9

-----------------------------------------------------------------------------
(* The order in which the arbiters serve the queues.                       *)

(* n numbers in a row have n remainders.                                   *)
LEMMA RemaindersDiffer ==
    ASSUME NEW n \in Nat \ {0}, NEW a \in Nat, NEW b \in Nat,
           a % n = b % n, a - b < n, b - a < n
    PROVE  a = b
<1> DEFINE qa == a \div n
           qb == b \div n
           d == qa - qb
<1>1. qa \in Int /\ qb \in Int /\ a = n * qa + (a % n) /\ b = n * qb + (b % n)
  BY Z3
<1>2. a % n \in Int /\ b % n \in Int
  OBVIOUS
<1> HIDE DEF qa, qb
<1>3. d \in Int /\ a - b = n * d
  BY <1>1, <1>2
<1> HIDE DEF d
<1>4. ~(d >= 1)
  <2> SUFFICES ASSUME d >= 1 PROVE FALSE
    OBVIOUS
  <2>1. n * d >= n
    BY <1>3
  <2>2. QED
    BY <1>3, <2>1
<1>5. ~(d <= -1)
  <2> SUFFICES ASSUME d <= -1 PROVE FALSE
    OBVIOUS
  <2>1. n * d <= -n
    BY <1>3
  <2>2. QED
    BY <1>3, <2>1
<1>6. d = 0
  BY <1>3, <1>4, <1>5
<1>7. QED
  BY <1>3, <1>6

(* InsertAt(s, i, e) is s with e before its i-th element.                  *)
LEMMA InsertAtProperties ==
    ASSUME NEW S, NEW s \in Seq(S), NEW i \in 1 .. Len(s), NEW e \in S
    PROVE  /\ InsertAt(s, i, e) \in Seq(S)
           /\ Len(InsertAt(s, i, e)) = Len(s) + 1
           /\ \A j \in 1 .. Len(s) + 1 :
                InsertAt(s, i, e)[j]
                  = IF j < i THEN s[j] ELSE IF j = i THEN e ELSE s[j - 1]
<1>0. Len(s) \in Nat /\ i \in Nat /\ i >= 1 /\ i <= Len(s)
  OBVIOUS
<1> DEFINE p == SubSeq(s, 1, i - 1)
           m == <<e>>
           q == SubSeq(s, i, Len(s))
<1>1. p \in Seq(S) /\ Len(p) = i - 1 /\ \A k \in 1 .. i - 1 : p[k] = s[k]
  BY <1>0
<1>2. m \in Seq(S) /\ Len(m) = 1 /\ m[1] = e
  OBVIOUS
<1>3. q \in Seq(S) /\ Len(q) = Len(s) - i + 1
      /\ \A k \in 1 .. Len(s) - i + 1 : q[k] = s[i - 1 + k]
  BY <1>0
<1>4. InsertAt(s, i, e) = p \o m \o q
  BY DEF InsertAt
<1> HIDE DEF p, m, q
<1> DEFINE pm == p \o m
<1>5. pm \in Seq(S) /\ Len(pm) = i /\ pm[i] = e /\ \A k \in 1 .. i - 1 : pm[k] = s[k]
  <2>1. pm \in Seq(S) /\ Len(pm) = Len(p) + Len(m)
    BY <1>1, <1>2, ConcatProperties
  <2>2. \A k \in 1 .. Len(p) : pm[k] = p[k]
    BY <1>1, <1>2
  <2>3. pm[Len(p) + 1] = m[1]
    <3>1. Len(p) \in Nat /\ Len(p) + 1 \in 1 .. Len(p) + Len(m) /\ (Len(p) + 1) - Len(p) = 1
          /\ ~(Len(p) + 1 <= Len(p))
      BY <1>0, <1>1, <1>2
    <3>2. pm[Len(p) + 1] = m[(Len(p) + 1) - Len(p)]
      <4>1. \A k \in 1 .. Len(p) + Len(m) : (p \o m)[k] = IF k <= Len(p) THEN p[k] ELSE m[k - Len(p)]
        BY <1>1, <1>2, ConcatProperties
      <4>2. QED
        BY <3>1, <4>1
    <3>3. QED
      BY <3>1, <3>2
  <2> HIDE DEF pm
  <2>4. QED
    BY <1>0, <1>1, <1>2, <2>1, <2>2, <2>3
<1> HIDE DEF pm
<1>6. pm \o q \in Seq(S) /\ Len(pm \o q) = Len(s) + 1
  <2>1. pm \o q \in Seq(S) /\ Len(pm \o q) = Len(pm) + Len(q)
    BY <1>3, <1>5, ConcatProperties
  <2>2. QED
    BY <1>0, <1>3, <1>5, <2>1
<1>7. ASSUME NEW j \in 1 .. Len(s) + 1
      PROVE  (pm \o q)[j] = IF j < i THEN s[j] ELSE IF j = i THEN e ELSE s[j - 1]
  <2>1. CASE j <= i
    <3>1. (pm \o q)[j] = pm[j]
      BY <1>0, <1>3, <1>5, <2>1
    <3>2. QED
      BY <1>0, <1>5, <2>1, <3>1
  <2>2. CASE j > i
    <3>1. (pm \o q)[j] = q[j - i]
      BY <1>0, <1>3, <1>5, <2>2
    <3>2. j - i \in 1 .. Len(s) - i + 1 /\ i - 1 + (j - i) = j - 1
      BY <1>0, <2>2
    <3>3. QED
      BY <1>3, <2>2, <3>1, <3>2
  <2>3. j <= i \/ j > i
    BY <1>0
  <2>4. QED
    BY <2>1, <2>2, <2>3
<1>8. QED
  BY <1>4, <1>6, <1>7 DEF pm

(* Queues of sources with packets, none of them twice, all of them in V.   *)
AgeQueues(K, age, V) ==
    {q \in Seq(K) : /\ \A i \in 1 .. Len(q) : age[q[i]] > 0 /\ q[i] \in V
                    /\ \A i, j \in 1 .. Len(q) : q[i] = q[j] => i = j}

(* PutByAge adds a source that is not in the queue.                        *)
LEMMA PutByAgeStep ==
    ASSUME NEW n \in Nat, NEW age \in [0 .. n - 1 -> Nat], NEW V,
           NEW q \in AgeQueues(0 .. n - 1, age, V), NEW pos \in 0 .. n - 1, pos \notin V
    PROVE  PutByAge(age, q, pos) \in AgeQueues(0 .. n - 1, age, V \cup {pos})
<1> DEFINE K == 0 .. n - 1
           before == {i \in DOMAIN q : age[pos] > q[i]}
           r == PutByAge(age, q, pos)
<1>1. /\ q \in Seq(K) /\ Len(q) \in Nat /\ DOMAIN q = 1 .. Len(q)
      /\ \A i \in 1 .. Len(q) : age[q[i]] > 0 /\ q[i] \in V /\ q[i] # pos
      /\ \A i, j \in 1 .. Len(q) : q[i] = q[j] => i = j
  BY DEF AgeQueues
<1>2. age[pos] \in Nat /\ pos \in K
  OBVIOUS
<1>3. CASE age[pos] = 0
  <2>1. r = q
    BY <1>3 DEF PutByAge
  <2>2. QED
    BY <1>1, <2>1 DEF AgeQueues
<1>4. CASE age[pos] # 0 /\ before = {}
  <2>1. r = Append(q, pos)
    BY <1>4 DEF PutByAge
  <2> HIDE DEF r, K, before
  <2>2. /\ r \in Seq(K) /\ Len(r) = Len(q) + 1 /\ r[Len(q) + 1] = pos
        /\ \A i \in 1 .. Len(q) : r[i] = q[i]
    BY <1>1, <1>2, <2>1
  <2>3. \A i \in 1 .. Len(r) : i \in 1 .. Len(q) \/ i = Len(q) + 1
    BY <1>1, <2>2
  <2>4. \A i \in 1 .. Len(r) : age[r[i]] > 0 /\ r[i] \in V \cup {pos}
    BY <1>1, <1>2, <1>4, <2>2, <2>3
  <2>5. \A i, j \in 1 .. Len(r) : r[i] = r[j] => i = j
    BY <1>1, <2>2, <2>3
  <2>6. QED
    BY <2>2, <2>4, <2>5 DEF AgeQueues, r, K
<1>5. CASE age[pos] # 0 /\ before # {}
  <2> DEFINE k == Min(before)
  <2>1. r = InsertAt(q, k, pos)
    BY <1>5 DEF PutByAge
  <2>2. before \in SUBSET Nat /\ before \subseteq 1 .. Len(q)
    BY <1>1
  <2>3. k \in 1 .. Len(q)
    <3> HIDE DEF before
    <3>1. QED
      BY <1>5, <2>2, MinIsLeast
  <2> HIDE DEF r, K, before, k
  <2>4. /\ r \in Seq(K) /\ Len(r) = Len(q) + 1
        /\ \A j \in 1 .. Len(q) + 1 :
             r[j] = IF j < k THEN q[j] ELSE IF j = k THEN pos ELSE q[j - 1]
    <3>1. q \in Seq(K) /\ pos \in K /\ k \in 1 .. Len(q)
      BY <1>1, <1>2, <2>3
    <3>2. /\ InsertAt(q, k, pos) \in Seq(K)
          /\ Len(InsertAt(q, k, pos)) = Len(q) + 1
          /\ \A j \in 1 .. Len(q) + 1 :
               InsertAt(q, k, pos)[j]
                 = IF j < k THEN q[j] ELSE IF j = k THEN pos ELSE q[j - 1]
      BY ONLY <3>1, InsertAtProperties
    <3>3. QED
      BY <2>1, <3>2
  <2> DEFINE from(j) == IF j < k THEN j ELSE j - 1
  <2>5. \A j \in 1 .. Len(r) : j # k => from(j) \in 1 .. Len(q) /\ r[j] = q[from(j)]
    BY <1>1, <2>3, <2>4
  <2>6. \A i, j \in 1 .. Len(r) : i # k /\ j # k /\ from(i) = from(j) => i = j
    BY <1>1, <2>3, <2>4
  <2>7. k \in 1 .. Len(r) /\ r[k] = pos
    BY <1>1, <2>3, <2>4
  <2> HIDE DEF from
  <2>8. \A i \in 1 .. Len(r) : age[r[i]] > 0 /\ r[i] \in V \cup {pos}
    <3> SUFFICES ASSUME NEW i \in 1 .. Len(r) PROVE age[r[i]] > 0 /\ r[i] \in V \cup {pos}
      OBVIOUS
    <3>1. CASE i = k
      BY <1>2, <1>5, <2>7, <3>1
    <3>2. CASE i # k
      BY <1>1, <2>5, <3>2
    <3>3. QED
      BY <3>1, <3>2
  <2>9. \A i, j \in 1 .. Len(r) : r[i] = r[j] => i = j
    <3> SUFFICES ASSUME NEW i \in 1 .. Len(r), NEW j \in 1 .. Len(r), r[i] = r[j] PROVE i = j
      OBVIOUS
    <3>1. CASE i # k /\ j # k
      BY <1>1, <2>5, <2>6, <3>1
    <3>2. CASE i = k /\ j # k
      BY <1>1, <2>5, <2>7, <3>2
    <3>3. CASE i # k /\ j = k
      BY <1>1, <2>5, <2>7, <3>3
    <3>4. QED
      BY <3>1, <3>2, <3>3
  <2>10. QED
    BY <2>4, <2>8, <2>9 DEF AgeQueues, r, K
<1>6. QED
  BY <1>3, <1>4, <1>5

(* BuildAgeQueue gives a queue of sources with packets, none of them       *)
(* twice.                                                                  *)
LEMMA AgeQueueOk ==
    ASSUME NEW n \in Nat \ {0}, NEW age \in [0 .. n - 1 -> Nat], NEW logic_clk \in Nat
    PROVE  BuildAgeQueue(logic_clk, age) \in AgeQueues(0 .. n - 1, age, 0 .. n - 1)
<1> DEFINE K == 0 .. n - 1
           visit(i) == (i - 1 + logic_clk) % n
           V(i) == {visit(m) : m \in 1 .. i}
           S == [i \in 0 .. n |-> AgeQueues(K, age, V(i))]
           F == [z \in Seq(K) \X (1 .. n) |-> PutByAge(age, z[1], visit(z[2]))]
           Turn(g) == [i \in 0 .. n |-> IF i = 0 THEN <<>> ELSE PutByAge(age, g[i - 1], visit(i))]
<1>1. \A i \in 1 .. n : visit(i) \in K
  OBVIOUS
<1>2. \A i, j \in 1 .. n : visit(i) = visit(j) => i = j
  <2> SUFFICES ASSUME NEW i \in 1 .. n, NEW j \in 1 .. n, visit(i) = visit(j) PROVE i = j
    OBVIOUS
  <2> DEFINE a == i - 1 + logic_clk
             b == j - 1 + logic_clk
  <2>1. a \in Nat /\ b \in Nat /\ a % n = b % n /\ a - b < n /\ b - a < n
    OBVIOUS
  <2>2. a = b
    <3> HIDE DEF a, b
    <3>1. QED
      BY <2>1, RemaindersDiffer
  <2>3. QED
    BY <2>2
<1> HIDE DEF visit
<1>3. \A i \in 1 .. n : visit(i) \notin V(i - 1) /\ V(i) = V(i - 1) \cup {visit(i)}
  <2> SUFFICES ASSUME NEW i \in 1 .. n
               PROVE  visit(i) \notin V(i - 1) /\ V(i) = V(i - 1) \cup {visit(i)}
    OBVIOUS
  <2>1. \A m \in 1 .. i - 1 : m \in 1 .. n /\ m # i
    OBVIOUS
  <2>2. 1 .. i = (1 .. i - 1) \cup {i}
    OBVIOUS
  <2>3. visit(i) \notin V(i - 1)
    BY <1>2, <2>1
  <2>4. V(i) = V(i - 1) \cup {visit(i)}
    BY <2>2
  <2>5. QED
    BY <2>3, <2>4
<1> HIDE DEF V, K
<1>4. \A i \in 1 .. n : \A q \in S[i - 1] : q \in Seq(K) /\ PutByAge(age, q, visit(i)) \in S[i]
  <2> SUFFICES ASSUME NEW i \in 1 .. n, NEW q \in S[i - 1]
               PROVE  q \in Seq(K) /\ PutByAge(age, q, visit(i)) \in S[i]
    OBVIOUS
  <2>1. i - 1 \in 0 .. n /\ i \in 0 .. n
    OBVIOUS
  <2>2. q \in AgeQueues(K, age, V(i - 1))
    BY <2>1
  <2>3. PutByAge(age, q, visit(i)) \in AgeQueues(K, age, V(i - 1) \cup {visit(i)})
    BY <1>1, <1>3, <2>2, PutByAgeStep DEF K
  <2>4. QED
    BY <1>3, <2>1, <2>2, <2>3 DEF AgeQueues
<1>5. <<>> \in S[0]
  BY DEF AgeQueues
<1> HIDE DEF S
<1>6. \E f : f = Turn(f)
  <2>1. \A i \in 1 .. n : \A q \in S[i - 1] : F[<<q, i>>] = PutByAge(age, q, visit(i))
    BY <1>4
  <2> HIDE DEF F
  <2>2. Passes(n, S, F)
    <3> SUFFICES ASSUME NEW turn \in 1 .. n, NEW old \in S[turn - 1]
                 PROVE  F[<<old, turn>>] \in S[turn]
      BY DEF Passes
    <3>1. QED
      BY <1>4, <2>1
  <2>3. PICK f : Run(f, n, <<>>, S, F)
    BY <1>5, <2>2, LoopRuns
  <2>4. f = [i \in 0 .. n |-> f[i]] /\ f[0] = <<>>
    BY <2>3 DEF Run
  <2>5. ASSUME NEW i \in 1 .. n PROVE f[i] = PutByAge(age, f[i - 1], visit(i))
    <3>1. i - 1 \in 0 .. n
      OBVIOUS
    <3>2. f[i - 1] \in S[i - 1] /\ f[i] = F[<<f[i - 1], i>>]
      BY <2>3, <3>1 DEF Run
    <3>3. QED
      BY <2>1, <3>2
  <2>6. \A i \in 0 .. n : f[i] = IF i = 0 THEN <<>> ELSE PutByAge(age, f[i - 1], visit(i))
    BY <2>4, <2>5
  <2>7. f = Turn(f)
    BY <2>4, <2>6
  <2>8. QED
    BY <2>7
<1> DEFINE built == CHOOSE f : f = Turn(f)
<1>7. built = Turn(built)
  BY <1>6
<1>8. BuildAgeQueue(logic_clk, age) = built[n]
  <2>1. Cardinality(DOMAIN age) = n
    <3> DEFINE zero == 0
               m == n - 1
    <3>1. zero \in Int /\ m \in Int /\ DOMAIN age = zero .. m /\ ~(zero > m) /\ m - zero + 1 = n
      OBVIOUS
    <3> HIDE DEF zero, m
    <3>2. Cardinality(zero .. m) = m - zero + 1
      BY <3>1, FS_Interval
    <3>3. QED
      BY <3>1, <3>2
  <2>2. QED
    BY <2>1 DEF BuildAgeQueue, visit
<1> HIDE DEF built
<1>9. built[0] = <<>> /\ \A i \in 1 .. n : built[i] = PutByAge(age, built[i - 1], visit(i))
  BY <1>7
<1>14. Keeps(built, n, S)
  BY <1>4, <1>9 DEF Keeps
<1>10. \A i \in 0 .. n : built[i] \in S[i]
  BY <1>5, <1>9, <1>14, LoopKeeps
<1>11. built[n] \in AgeQueues(K, age, V(n))
  BY <1>10 DEF S
<1>12. \A m \in 1 .. n : visit(m) \in K
  BY <1>1
<1>15. \A v \in V(n) : v \in K
  BY <1>12 DEF V
<1>13. QED
  <2> DEFINE q == built[n]
  <2>1. /\ q \in Seq(K) /\ \A i \in 1 .. Len(q) : age[q[i]] > 0 /\ q[i] \in V(n)
        /\ \A i, j \in 1 .. Len(q) : q[i] = q[j] => i = j
    BY <1>11 DEF AgeQueues
  <2> HIDE DEF q
  <2>2. q \in AgeQueues(K, age, K)
    BY <1>15, <2>1 DEF AgeQueues
  <2>3. QED
    BY <1>8, <2>2 DEF q, K

(* What an arbiter has made of x.                                          *)
Crossed(x, y, K, D) ==
    /\ XbarOk(y, K, D) /\ y.requests = x.requests /\ Conserved(x, y)
    /\ \A k \in K : Len(y.from[k]) <= Len(x.from[k])

(* The sources in a queue that BuildAgeQueue made are served, one after    *)
(* the other, each while it still has a packet.                            *)
LEMMA CrossAllOk ==
    ASSUME NEW K, NEW D, IsFiniteSet(K), IsFiniteSet(D), NEW x, XbarOk(x, K, D),
           NEW queue \in AgeQueues(K, x.age, K)
    PROVE  Crossed(x, CrossAll(x, queue), K, D)
<1> DEFINE n == Len(queue)
           S == [i \in 0 .. n |-> {u \in XbarType(K, D) :
                    Crossed(x, u, K, D) /\ \A j \in i + 1 .. n : u.from[queue[j]] # <<>>}]
           T == XbarType(K, D) \X (1 .. n)
           F == [z \in T |-> Cross(z[1], queue[z[2]])]
           Turn(g) == [i \in 0 .. n |-> IF i = 0 THEN x ELSE Cross(g[i - 1], queue[i])]
<1>1. /\ queue \in Seq(K) /\ n \in Nat
      /\ \A i \in 1 .. n : queue[i] \in K /\ x.age[queue[i]] > 0
      /\ \A i, j \in 1 .. n : queue[i] = queue[j] => i = j
  BY DEF AgeQueues
<1>2. x \in S[0]
  <2>1. x \in XbarType(K, D) /\ \A i \in 1 .. n : x.from[queue[i]] # <<>>
    BY <1>1 DEF XbarOk, AgesMatch
  <2>2. \A k \in K : Len(x.from[k]) <= Len(x.from[k])
    <3>1. x.from \in Queues(K, PacketType)
      BY <2>1 DEF XbarType
    <3>2. \A k \in K : Len(x.from[k]) \in Nat
      BY <3>1 DEF Queues
    <3>3. QED
      BY <3>2
  <2>3. Crossed(x, x, K, D)
    BY <2>2 DEF Crossed, Conserved
  <2>4. QED
    BY <1>1, <2>1, <2>3
<1> HIDE DEF n
<1>3. \A i \in 1 .. n : \A u \in S[i - 1] : u \in XbarType(K, D) /\ Cross(u, queue[i]) \in S[i]
  <2> SUFFICES ASSUME NEW i \in 1 .. n, NEW u \in S[i - 1]
               PROVE  u \in XbarType(K, D) /\ Cross(u, queue[i]) \in S[i]
    OBVIOUS
  <2> DEFINE y == Cross(u, queue[i])
             src == queue[i]
  <2>1. i - 1 \in 0 .. n /\ i \in 0 .. n /\ i \in (i - 1) + 1 .. n
    BY <1>1
  <2>2. /\ u \in XbarType(K, D) /\ Crossed(x, u, K, D)
        /\ \A j \in (i - 1) + 1 .. n : u.from[queue[j]] # <<>>
    BY <2>1
  <2>3. src \in K /\ u.from[src] # <<>>
    BY <1>1, <2>1, <2>2
  <2>4. XbarOk(u, K, D)
    BY <2>2 DEF Crossed
  <2>5. /\ XbarOk(y, K, D) /\ y.requests = u.requests /\ Conserved(u, y)
        /\ \A k \in K : k # src => y.from[k] = u.from[k]
        /\ \A k \in K : Len(y.from[k]) <= Len(u.from[k])
    <3> HIDE DEF src
    <3>1. QED
      BY <2>3, <2>4, CrossStep DEF src
  <2> HIDE DEF y
  <2>6. Crossed(x, y, K, D)
    <3>1. /\ x.from \in Queues(K, PacketType) /\ u.from \in Queues(K, PacketType)
          /\ y.from \in Queues(K, PacketType)
      BY <2>2, <2>5 DEF XbarOk, XbarType
    <3>2. \A k \in K : Len(x.from[k]) \in Nat /\ Len(u.from[k]) \in Nat /\ Len(y.from[k]) \in Nat
      BY <3>1 DEF Queues
    <3>6. \A k \in K : Len(u.from[k]) <= Len(x.from[k])
      BY <2>2 DEF Crossed
    <3>3. ASSUME NEW k \in K PROVE Len(y.from[k]) <= Len(x.from[k])
      <4> DEFINE lx == Len(x.from[k])
                 lu == Len(u.from[k])
                 ly == Len(y.from[k])
      <4>1. lx \in Nat /\ lu \in Nat /\ ly \in Nat /\ ly <= lu /\ lu <= lx
        BY <2>5, <3>2, <3>6
      <4> HIDE DEF lx, lu, ly
      <4>2. ly <= lx
        BY <4>1
      <4>3. QED
        BY <4>2 DEF lx, ly
    <3>4. Conserved(x, y)
      BY <2>2, <2>5 DEF Crossed, Conserved
    <3>5. QED
      BY <2>2, <2>5, <3>3, <3>4 DEF Crossed
  <2>7. \A j \in i + 1 .. n : y.from[queue[j]] # <<>>
    <3> SUFFICES ASSUME NEW j \in i + 1 .. n PROVE y.from[queue[j]] # <<>>
      OBVIOUS
    <3>1. j \in 1 .. n /\ j \in (i - 1) + 1 .. n /\ j # i
      BY <1>1
    <3>2. queue[j] \in K /\ queue[j] # src
      BY <1>1, <3>1
    <3>3. QED
      BY <2>2, <2>5, <3>1, <3>2
  <2>8. y \in XbarType(K, D)
    BY <2>5 DEF XbarOk
  <2>9. y \in S[i]
    BY <2>1, <2>6, <2>7, <2>8
  <2>10. QED
    BY <2>2, <2>9 DEF y
<1>4. \A u \in S[n] : Crossed(x, u, K, D)
  BY <1>1
<1> HIDE DEF S
<1>5. \E f : f = Turn(f)
  <2>1. \A i \in 1 .. n : \A u \in S[i - 1] : F[<<u, i>>] = Cross(u, queue[i])
    BY <1>3
  <2> HIDE DEF F
  <2>2. Passes(n, S, F)
    <3> SUFFICES ASSUME NEW turn \in 1 .. n, NEW old \in S[turn - 1]
                 PROVE  F[<<old, turn>>] \in S[turn]
      BY DEF Passes
    <3>1. QED
      BY <1>3, <2>1
  <2>3. PICK f : Run(f, n, x, S, F)
    BY <1>1, <1>2, <2>2, LoopRuns
  <2>4. f = [i \in 0 .. n |-> f[i]] /\ f[0] = x
    BY <2>3 DEF Run
  <2>5. ASSUME NEW i \in 1 .. n PROVE f[i] = Cross(f[i - 1], queue[i])
    <3>1. i - 1 \in 0 .. n
      BY <1>1
    <3>2. f[i - 1] \in S[i - 1] /\ f[i] = F[<<f[i - 1], i>>]
      BY <2>3, <3>1 DEF Run
    <3>3. QED
      BY <2>1, <3>2
  <2>6. ASSUME NEW i \in 0 .. n PROVE f[i] = IF i = 0 THEN x ELSE Cross(f[i - 1], queue[i])
    <3>1. i = 0 \/ (i # 0 /\ i \in 1 .. n)
      BY <1>1
    <3>2. QED
      BY <2>4, <2>5, <3>1
  <2>7. f = Turn(f)
    BY <2>4, <2>6
  <2>8. QED
    BY <2>7
<1> DEFINE crossed == CHOOSE f : f = Turn(f)
<1>6. crossed = Turn(crossed)
  BY <1>5
<1>7. CrossAll(x, queue) = crossed[n]
  BY DEF CrossAll, n
<1> HIDE DEF crossed
<1>8. crossed[0] = x /\ \A i \in 1 .. n : crossed[i] = Cross(crossed[i - 1], queue[i])
  BY <1>1, <1>6
<1>9. Keeps(crossed, n, S)
  BY <1>3, <1>8 DEF Keeps
<1>10. \A i \in 0 .. n : crossed[i] \in S[i]
  BY <1>1, <1>2, <1>8, <1>9, LoopKeeps
<1>11. QED
  BY <1>1, <1>4, <1>7, <1>10

(* Both arbiters: packets cross and none is lost.                          *)
LEMMA ArbitrateOk ==
    ASSUME NEW n \in Nat \ {0}, NEW D, IsFiniteSet(D), NEW x, XbarOk(x, 0 .. n - 1, D),
           NEW logic_clk \in Nat
    PROVE  Crossed(x, Arbitrate(logic_clk, x), 0 .. n - 1, D)
<1> DEFINE K == 0 .. n - 1
           queue == BuildAgeQueue(logic_clk, x.age)
<1>1. x.age \in [K -> Nat]
  <2>1. x.age \in [K -> 0 .. MaxAge]
    BY DEF XbarOk, XbarType
  <2>2. QED
    BY <2>1
<1>2. queue \in AgeQueues(K, x.age, K)
  BY <1>1, AgeQueueOk
<1>3. IsFiniteSet(K)
  <2> DEFINE zero == 0
             m == n - 1
  <2>1. zero \in Int /\ m \in Int /\ K = zero .. m
    OBVIOUS
  <2> HIDE DEF zero, m, K
  <2>2. QED
    BY <2>1, FS_Interval
<1>4. Arbitrate(logic_clk, x) = CrossAll(x, queue)
  BY DEF Arbitrate
<1> HIDE DEF queue, K
<1>5. XbarOk(x, K, D)
  BY DEF K
<1>6. Crossed(x, CrossAll(x, queue), K, D)
  BY <1>2, <1>3, <1>5, CrossAllOk
<1>7. QED
  BY <1>4, <1>6 DEF K

-----------------------------------------------------------------------------
(* The states of the system.                                               *)

StateType ==
    [logic_clk_ : 0 .. LogicPeriod - 1, lead : Nat, next_link_ : Links,
     resp_lookup_table_ : Queues(Addr, PacketType),
     link_req_queues_   : Queues(Links, PacketType),
     link_resp_queues_  : Queues(Links, PacketType),
     quad_req_queues_   : Queues(Quads, PacketType),
     quad_resp_queues_  : Queues(Quads, PacketType),
     link_busy_ : [Links -> -1 .. 17],
     quad_busy_ : [Quads -> -1 .. 17],
     link_age_counter_  : [Links -> 0 .. MaxAge],
     quad_age_counter_  : [Quads -> 0 .. MaxAge],
     ctrls_     : Queues(Vaults, EntryType),
     full       : [Vaults -> Nat],
     callbacks  : [Transactions -> Nat]]

(* The look-up table and the vaults hold what belongs to them.             *)
TableRouted(T) == \A a \in Addr : \A i \in 1 .. Len(T[a]) : T[a][i].addr = a
VaultRouted(Q) == \A v \in Vaults : \A i \in 1 .. Len(Q[v]) : GetChannel[Q[v][i].addr] = v

(* The queues that requests and responses wait in.                         *)
QueuesOk(s) ==
    /\ Short(s.link_req_queues_, Links) /\ Short(s.quad_req_queues_, Quads)
    /\ Short(s.link_resp_queues_, Links)
    /\ AgesMatch(s.link_age_counter_, s.link_req_queues_, Links)
    /\ AgesMatch(s.quad_age_counter_, s.quad_resp_queues_, Quads)
    /\ QuadRouted(s.quad_req_queues_)
    /\ TableRouted(s.resp_lookup_table_)

(* The requests of address a that are on their way to a vault or in it.    *)
OnTheWay(s, a) ==
    Num(s.link_req_queues_, OfAddr(a)) + Num(s.quad_req_queues_, OfAddr(a))
    + Num(s.ctrls_, OfAddr(a))

Paired(s) == \A a \in Addr : Len(s.resp_lookup_table_[a]) = OnTheWay(s, a)

(* The inductive invariant.                                                *)
Sound(s) ==
    /\ s \in StateType
    /\ QueuesOk(s)
    /\ VaultRouted(s.ctrls_)
    /\ Paired(s)

(* The responses like t that are still in the system, and those handed out.*)
Due(s, t) ==
    Num(s.resp_lookup_table_, OfKind(t)) + Num(s.quad_resp_queues_, OfKind(t))
    + Num(s.link_resp_queues_, OfKind(t)) + s.callbacks[t]

SameDue(s, u) == \A t \in Transactions : Due(u, t) = Due(s, t)

(* The parts of a state have their types.                                  *)
LEMMA StateFields ==
    ASSUME NEW s \in StateType
    PROVE  /\ s.logic_clk_ \in 0 .. LogicPeriod - 1 /\ s.lead \in Nat /\ s.next_link_ \in Links
           /\ s.resp_lookup_table_ \in Queues(Addr, PacketType)
           /\ s.link_req_queues_ \in Queues(Links, PacketType)
           /\ s.link_resp_queues_ \in Queues(Links, PacketType)
           /\ s.quad_req_queues_ \in Queues(Quads, PacketType)
           /\ s.quad_resp_queues_ \in Queues(Quads, PacketType)
           /\ s.link_busy_ \in [Links -> -1 .. 17] /\ s.quad_busy_ \in [Quads -> -1 .. 17]
           /\ s.link_age_counter_ \in [Links -> 0 .. MaxAge]
           /\ s.quad_age_counter_ \in [Quads -> 0 .. MaxAge]
           /\ s.ctrls_ \in Queues(Vaults, EntryType)
           /\ s.full \in [Vaults -> Nat] /\ s.callbacks \in [Transactions -> Nat]
BY DEF StateType

(* The counts of the invariant are finite.                                 *)
LEMMA CountsFinite ==
    ASSUME NEW s \in StateType, NEW M
    PROVE  /\ IsFiniteSet(Pos(s.link_req_queues_, M)) /\ Num(s.link_req_queues_, M) \in Nat
           /\ IsFiniteSet(Pos(s.quad_req_queues_, M)) /\ Num(s.quad_req_queues_, M) \in Nat
           /\ IsFiniteSet(Pos(s.link_resp_queues_, M)) /\ Num(s.link_resp_queues_, M) \in Nat
           /\ IsFiniteSet(Pos(s.quad_resp_queues_, M)) /\ Num(s.quad_resp_queues_, M) \in Nat
           /\ IsFiniteSet(Pos(s.ctrls_, M)) /\ Num(s.ctrls_, M) \in Nat
BY StateFields, SidesFinite, SideCounts

(* The responses of a kind are in the queue of their address.              *)
LEMMA TableFinite ==
    ASSUME NEW T \in Queues(Addr, PacketType), TableRouted(T), NEW t \in Transactions
    PROVE  IsFiniteSet(Pos(T, OfKind(t))) /\ Num(T, OfKind(t)) \in Nat
<1> DEFINE F == {t.addr}
           M == OfKind(t)
<1>1. F \in SUBSET Addr /\ IsFiniteSet(F)
  <2>1. t.addr \in Addr
    BY DEF Transactions
  <2>2. QED
    BY <2>1, FS_Singleton
<1>2. \A a \in Addr : \A i \in 1 .. Len(T[a]) : T[a][i] \in M => a \in F
  BY DEF TableRouted, OfKind
<1>3. QED
  <2> HIDE DEF F, M
  <2>1. IsFiniteSet(Pos(T, M)) /\ Num(T, M) \in Nat
    BY <1>1, <1>2, FamilyFinite
  <2>2. QED
    BY <2>1 DEF M

-----------------------------------------------------------------------------
(* From the quadrants to the vaults.                                       *)

(* The first request of quadrant q leaves it, and goes to vault v.         *)
Leaves(s, q) ==
    /\ s.quad_req_queues_[q] # <<>>
    /\ HasRoom(s.quad_resp_queues_[q])
    /\ Head(s.quad_req_queues_[q]).wait = 0
    /\ VaultAccepts(s, GetChannel[Head(s.quad_req_queues_[q]).addr])

Enters(s, v) ==
    Leaves(s, v % 4) /\ GetChannel[Head(s.quad_req_queues_[v % 4]).addr] = v

(* The parts of ToVaults.                                                  *)
LEMMA ToVaultsParts ==
    ASSUME NEW s \in StateType
    PROVE  LET u == ToVaults(s)
           IN  /\ u.quad_req_queues_
                    = [q \in Quads |-> IF Leaves(s, q) THEN Tail(s.quad_req_queues_[q])
                                       ELSE s.quad_req_queues_[q]]
               /\ u.ctrls_
                    = [v \in Vaults |->
                         IF Enters(s, v)
                         THEN Append(s.ctrls_[v], VaultEntry(Head(s.quad_req_queues_[v % 4])))
                         ELSE s.ctrls_[v]]
               /\ u = [s EXCEPT !.quad_req_queues_ = u.quad_req_queues_, !.ctrls_ = u.ctrls_]
<1> DEFINE Q == [q \in Quads |-> IF Leaves(s, q) THEN Tail(s.quad_req_queues_[q])
                                 ELSE s.quad_req_queues_[q]]
           C == [v \in Vaults |->
                   IF Enters(s, v)
                   THEN Append(s.ctrls_[v], VaultEntry(Head(s.quad_req_queues_[v % 4])))
                   ELSE s.ctrls_[v]]
<1>1. ToVaults(s) = [s EXCEPT !.quad_req_queues_ = Q, !.ctrls_ = C]
  BY DEF ToVaults, Leaves, Enters
<1> HIDE DEF Q, C
<1>2. ToVaults(s).quad_req_queues_ = Q /\ ToVaults(s).ctrls_ = C
  BY <1>1 DEF StateType
<1>3. QED
  BY <1>1, <1>2 DEF Q, C

(* A request that leaves its quadrant enters the vault of its address: the *)
(* number of requests on their way stays the same.                         *)
LEMMA ToVaultsMoves ==
    ASSUME NEW s \in StateType, QuadRouted(s.quad_req_queues_), VaultRouted(s.ctrls_),
           Short(s.quad_req_queues_, Quads)
    PROVE  LET u == ToVaults(s)
           IN  /\ u.quad_req_queues_ \in Queues(Quads, PacketType)
               /\ u.ctrls_ \in Queues(Vaults, EntryType)
               /\ QuadRouted(u.quad_req_queues_) /\ VaultRouted(u.ctrls_)
               /\ Short(u.quad_req_queues_, Quads)
               /\ \A a \in Addr :
                    Num(u.quad_req_queues_, OfAddr(a)) + Num(u.ctrls_, OfAddr(a))
                      = Num(s.quad_req_queues_, OfAddr(a)) + Num(s.ctrls_, OfAddr(a))
<1> DEFINE Q == s.quad_req_queues_
           R == ToVaults(s).quad_req_queues_
           C == s.ctrls_
           B == ToVaults(s).ctrls_
           G == {q \in Quads : Leaves(s, q)}
           W == {v \in Vaults : Enters(s, v)}
           e == [v \in Vaults |-> VaultEntry(Head(Q[v % 4]))]
<1>1. Q \in Queues(Quads, PacketType) /\ C \in Queues(Vaults, EntryType)
  BY StateFields
<1>2. /\ R = [q \in Quads |-> IF Leaves(s, q) THEN Tail(Q[q]) ELSE Q[q]]
      /\ B = [v \in Vaults |-> IF Enters(s, v) THEN Append(C[v], VaultEntry(Head(Q[v % 4])))
                               ELSE C[v]]
  BY ToVaultsParts
<1>3. /\ \A q \in G : q \in Quads /\ Q[q] # <<>> /\ R[q] = Tail(Q[q])
      /\ \A q \in Quads \ G : R[q] = Q[q]
  BY <1>2 DEF Leaves
<1>4. /\ \A v \in W : v \in Vaults /\ B[v] = Append(C[v], e[v]) /\ e[v] = VaultEntry(Head(Q[v % 4]))
      /\ \A v \in Vaults \ W : B[v] = C[v]
  BY <1>2
<1>5. \A v \in Vaults : v % 4 \in Quads
  <2> SUFFICES ASSUME NEW v \in Vaults PROVE v % 4 \in Quads
    OBVIOUS
  <2>1. v \in Nat
    BY LinksAssumption DEF Vaults
  <2>2. QED
    BY <2>1 DEF Quads
<1>6. \A q \in Quads : Q[q] # <<>> => /\ Q[q] \in Seq(PacketType) /\ Head(Q[q]) \in PacketType
                                      /\ Head(Q[q]).addr \in Addr
                                      /\ QuadOf(Head(Q[q]).addr) = q
  <2> SUFFICES ASSUME NEW q \in Quads, Q[q] # <<>>
               PROVE  /\ Q[q] \in Seq(PacketType) /\ Head(Q[q]) \in PacketType
                      /\ Head(Q[q]).addr \in Addr /\ QuadOf(Head(Q[q]).addr) = q
    OBVIOUS
  <2>1. Q[q] \in Seq(PacketType)
    BY <1>1 DEF Queues
  <2>2. Head(Q[q]) \in PacketType /\ Head(Q[q]) = Q[q][1] /\ 1 \in 1 .. Len(Q[q])
    BY <2>1
  <2>3. QED
    BY <2>1, <2>2 DEF PacketType, QuadRouted
<1>7. \A v \in W : /\ v % 4 \in G /\ e[v] \in EntryType
                   /\ e[v].addr = Head(Q[v % 4]).addr /\ GetChannel[e[v].addr] = v
  <2> SUFFICES ASSUME NEW v \in W
               PROVE  /\ v % 4 \in G /\ e[v] \in EntryType
                      /\ e[v].addr = Head(Q[v % 4]).addr /\ GetChannel[e[v].addr] = v
    OBVIOUS
  <2>1. /\ v \in Vaults /\ v % 4 \in Quads /\ Leaves(s, v % 4)
        /\ GetChannel[Head(Q[v % 4]).addr] = v
    BY <1>5 DEF Enters
  <2>2. Head(Q[v % 4]) \in PacketType
    BY <1>6, <2>1 DEF Leaves
  <2> DEFINE p == Head(Q[v % 4])
  <2> HIDE DEF p
  <2>3. VaultEntry(p) \in EntryType /\ VaultEntry(p).addr = p.addr
    BY <2>2 DEF VaultEntry, EntryType, PacketType, p
  <2>4. e[v] = VaultEntry(p)
    BY <1>4 DEF p
  <2>5. QED
    BY <2>1, <2>3, <2>4 DEF p
<1> HIDE DEF Q, R, C, B, e
<1>8. R \in Queues(Quads, PacketType)
  <2>1. \A q \in Quads : R[q] \in Seq(PacketType)
    <3> SUFFICES ASSUME NEW q \in Quads PROVE R[q] \in Seq(PacketType)
      OBVIOUS
    <3>1. Q[q] \in Seq(PacketType)
      BY <1>1 DEF Queues
    <3>2. CASE q \in G
      <4>1. Q[q] # <<>> /\ R[q] = Tail(Q[q])
        BY <1>3, <3>2
      <4>2. QED
        BY <3>1, <4>1
    <3>3. CASE q \notin G
      BY <1>3, <3>1, <3>3
    <3>4. QED
      BY <3>2, <3>3
  <2>2. QED
    BY <1>2, <2>1 DEF Queues
<1>9. B \in Queues(Vaults, EntryType)
  <2>1. \A v \in Vaults : B[v] \in Seq(EntryType)
    <3> SUFFICES ASSUME NEW v \in Vaults PROVE B[v] \in Seq(EntryType)
      OBVIOUS
    <3>1. C[v] \in Seq(EntryType)
      BY <1>1 DEF Queues
    <3>2. CASE v \in W
      <4>1. B[v] = Append(C[v], e[v]) /\ e[v] \in EntryType
        BY <1>4, <1>7, <3>2
      <4>2. QED
        BY <3>1, <4>1
    <3>3. CASE v \notin W
      BY <1>4, <3>1, <3>3
    <3>4. QED
      BY <3>2, <3>3
  <2>2. QED
    BY <1>2, <2>1 DEF Queues
<1>10. QuadRouted(R) /\ Short(R, Quads)
  <2> SUFFICES ASSUME NEW q \in Quads
               PROVE  /\ \A i \in 1 .. Len(R[q]) : QuadOf(R[q][i].addr) = q
                      /\ Len(R[q]) <= xbar_queue_depth
    BY DEF QuadRouted, Short
  <2>1. Q[q] \in Seq(PacketType) /\ \A i \in 1 .. Len(Q[q]) : QuadOf(Q[q][i].addr) = q
    BY <1>1 DEF Queues, QuadRouted, Q
  <2>2. Len(Q[q]) <= xbar_queue_depth /\ xbar_queue_depth \in Nat
    BY LinksAssumption DEF Short, Q
  <2>3. CASE q \in G
    <3>1. Q[q] # <<>> /\ R[q] = Tail(Q[q])
      BY <1>3, <2>3
    <3>2. /\ Len(Q[q]) \in Nat /\ Len(R[q]) = Len(Q[q]) - 1
          /\ \A i \in 1 .. Len(R[q]) : i + 1 \in 1 .. Len(Q[q]) /\ R[q][i] = Q[q][i + 1]
      BY <2>1, <3>1
    <3>3. Len(R[q]) <= xbar_queue_depth
      BY <2>2, <3>2
    <3>4. QED
      BY <2>1, <3>2, <3>3
  <2>4. CASE q \notin G
    BY <1>3, <2>1, <2>2, <2>4
  <2>5. QED
    BY <2>3, <2>4
<1>11. VaultRouted(B)
  <2> SUFFICES ASSUME NEW v \in Vaults, NEW i \in 1 .. Len(B[v])
               PROVE  GetChannel[B[v][i].addr] = v
    BY DEF VaultRouted
  <2>1. C[v] \in Seq(EntryType) /\ \A j \in 1 .. Len(C[v]) : GetChannel[C[v][j].addr] = v
    BY <1>1 DEF Queues, VaultRouted, C
  <2>2. CASE v \in W
    <3>1. B[v] = Append(C[v], e[v]) /\ e[v] \in EntryType /\ GetChannel[e[v].addr] = v
      BY <1>4, <1>7, <2>2
    <3>2. /\ Len(C[v]) \in Nat /\ Len(B[v]) = Len(C[v]) + 1 /\ B[v][Len(C[v]) + 1] = e[v]
          /\ \A j \in 1 .. Len(C[v]) : B[v][j] = C[v][j]
      BY <2>1, <3>1
    <3>3. i \in 1 .. Len(C[v]) \/ i = Len(C[v]) + 1
      BY <3>2
    <3>4. QED
      BY <2>1, <3>1, <3>2, <3>3
  <2>3. CASE v \notin W
    BY <1>4, <2>1, <2>3
  <2>4. QED
    BY <2>2, <2>3
<1>12. IsFiniteSet(G) /\ IsFiniteSet(W) /\ G \in SUBSET Quads /\ W \in SUBSET Vaults
  BY SidesFinite, FS_Subset
<1>13. ASSUME NEW a \in Addr
       PROVE  Num(R, OfAddr(a)) + Num(B, OfAddr(a)) = Num(Q, OfAddr(a)) + Num(C, OfAddr(a))
  <2> DEFINE M == OfAddr(a)
             X == FirstAmong(Q, G, M)
             Y == Among(e, W, M)
  <2>1. IsFiniteSet(Pos(Q, M)) /\ IsFiniteSet(Pos(C, M))
    BY <1>1, SideCounts, SidesFinite
  <2>2. Cardinality(X) = Cardinality(Y) /\ Cardinality(X) \in Nat
    <3>1. \A q \in G : Head(Q[q]) \in M <=> Head(Q[q]).addr = a
      BY <1>3, <1>6 DEF OfAddr, Parcels
    <3>2. \A v \in W : e[v] \in M <=> e[v].addr = a
      BY <1>7 DEF OfAddr, Parcels
    <3>3. \A q \in X : q \in G /\ Head(Q[q]).addr = a /\ q = QuadOf(a)
      BY <1>3, <1>6, <3>1 DEF FirstAmong
    <3>4. \A v \in Y : /\ v \in W /\ e[v].addr = a /\ v = GetChannel[a]
                       /\ v % 4 \in G /\ Head(Q[v % 4]).addr = a
      BY <1>7, <3>2 DEF Among
    <3>5. GetChannel[a] \in Vaults /\ QuadOf(a) = GetChannel[a] % 4 /\ QuadOf(a) \in Quads
      BY QuadType DEF QuadOf
    <3>6. CASE X = {}
      <4>1. Y = {}
        <5> SUFFICES ASSUME NEW v \in Y PROVE FALSE
          OBVIOUS
        <5>1. v % 4 \in X
          BY <3>1, <3>4 DEF FirstAmong
        <5>2. QED
          BY <3>6, <5>1
      <4>2. QED
        BY <3>6, <4>1, FS_EmptySet
    <3>7. CASE X # {}
      <4>1. X = {QuadOf(a)} /\ QuadOf(a) \in G /\ Head(Q[QuadOf(a)]).addr = a
        BY <3>3, <3>7
      <4>2. GetChannel[a] \in W
        BY <3>5, <4>1 DEF Enters, Q
      <4>3. e[GetChannel[a]].addr = a
        BY <1>7, <3>5, <4>1, <4>2
      <4>4. GetChannel[a] \in Y
        BY <3>2, <4>2, <4>3 DEF Among
      <4>5. Y = {GetChannel[a]}
        BY <3>4, <4>4
      <4> HIDE DEF X, Y, M, G, W
      <4>6. Cardinality({QuadOf(a)}) = 1 /\ Cardinality({GetChannel[a]}) = 1
        BY FS_Singleton
      <4>7. Cardinality(X) = 1 /\ Cardinality(Y) = 1
        BY <4>1, <4>5, <4>6
      <4>8. QED
        BY <4>7
    <3>8. QED
      BY <3>6, <3>7
  <2>3. Num(Q, M) = Num(R, M) + Cardinality(X)
    <3> HIDE DEF G, M
    <3>1. QED
      BY <1>1, <1>3, <1>8, <1>12, <2>1, CountPop
  <2>4. Num(B, M) = Num(C, M) + Cardinality(Y)
    <3> HIDE DEF W, M
    <3>1. \A v \in W : e[v] \in EntryType /\ B[v] = Append(C[v], e[v])
      BY <1>4, <1>7
    <3>2. \A v \in Vaults \ W : B[v] = C[v]
      BY <1>4
    <3>3. QED
      BY <1>1, <1>9, <1>12, <2>1, <3>1, <3>2, CountPush
  <2>5. Num(R, M) \in Nat /\ Num(C, M) \in Nat
    BY <1>1, <1>8, SideCounts, SidesFinite
  <2>6. QED
    <3> HIDE DEF X, Y
    <3>1. QED
      BY <2>2, <2>3, <2>4, <2>5
<1>14. QED
  BY <1>8, <1>9, <1>10, <1>11, <1>13 DEF Q, R, C, B

LEMMA ToVaultsOk ==
    ASSUME NEW s, Sound(s)
    PROVE  LET u == ToVaults(s)
           IN  Sound(u) /\ SameDue(s, u) /\ u.lead = s.lead /\ u.logic_clk_ = s.logic_clk_
<1> DEFINE u == ToVaults(s)
           R == u.quad_req_queues_
           B == u.ctrls_
<1>1. s \in StateType /\ QueuesOk(s) /\ VaultRouted(s.ctrls_) /\ Paired(s)
  BY DEF Sound
<1>2. /\ R \in Queues(Quads, PacketType) /\ B \in Queues(Vaults, EntryType)
      /\ QuadRouted(R) /\ VaultRouted(B) /\ Short(R, Quads)
      /\ \A a \in Addr : Num(R, OfAddr(a)) + Num(B, OfAddr(a))
                           = Num(s.quad_req_queues_, OfAddr(a)) + Num(s.ctrls_, OfAddr(a))
  BY <1>1, ToVaultsMoves DEF QueuesOk
<1>3. u = [s EXCEPT !.quad_req_queues_ = R, !.ctrls_ = B]
  BY <1>1, ToVaultsParts
<1> HIDE DEF u, R, B
<1>4. /\ u \in StateType /\ u.quad_req_queues_ = R /\ u.ctrls_ = B
      /\ u.lead = s.lead /\ u.logic_clk_ = s.logic_clk_
      /\ u.link_req_queues_ = s.link_req_queues_ /\ u.link_resp_queues_ = s.link_resp_queues_
      /\ u.quad_resp_queues_ = s.quad_resp_queues_ /\ u.callbacks = s.callbacks
      /\ u.resp_lookup_table_ = s.resp_lookup_table_
      /\ u.link_age_counter_ = s.link_age_counter_ /\ u.quad_age_counter_ = s.quad_age_counter_
  BY <1>1, <1>2, <1>3 DEF StateType
<1>5. QueuesOk(u)
  BY <1>1, <1>2, <1>4 DEF QueuesOk
<1>6. Paired(u)
  <2> SUFFICES ASSUME NEW a \in Addr PROVE Len(u.resp_lookup_table_[a]) = OnTheWay(u, a)
    BY DEF Paired
  <2>1. Len(s.resp_lookup_table_[a]) = OnTheWay(s, a)
    BY <1>1 DEF Paired
  <2>2. Num(R, OfAddr(a)) + Num(B, OfAddr(a))
          = Num(s.quad_req_queues_, OfAddr(a)) + Num(s.ctrls_, OfAddr(a))
    BY <1>2
  <2>3. /\ Num(R, OfAddr(a)) \in Nat /\ Num(B, OfAddr(a)) \in Nat
        /\ Num(s.link_req_queues_, OfAddr(a)) \in Nat
        /\ Num(s.quad_req_queues_, OfAddr(a)) \in Nat /\ Num(s.ctrls_, OfAddr(a)) \in Nat
    BY <1>1, <1>2, CountsFinite, SideCounts, SidesFinite
  <2>4. OnTheWay(u, a) = OnTheWay(s, a)
    BY <1>4, <2>2, <2>3 DEF OnTheWay
  <2>5. QED
    BY <1>4, <2>1, <2>4
<1>7. SameDue(s, u)
  BY <1>4 DEF SameDue, Due
<1>8. QED
  BY <1>2, <1>4, <1>5, <1>6, <1>7 DEF Sound, u

-----------------------------------------------------------------------------
(* The logic cycle.                                                        *)

(* A destination drains two flits per cycle.                               *)
LEMMA DrainedType ==
    ASSUME NEW K, NEW busy \in [K -> -1 .. 17]
    PROVE  Drained(busy) \in [K -> -1 .. 17]
BY DEF Drained

LEMMA DrainRequestsOk ==
    ASSUME NEW s, Sound(s)
    PROVE  LET u == DrainRequests(s)
           IN  Sound(u) /\ SameDue(s, u) /\ u.lead = s.lead
<1> DEFINE t == ToVaults(s)
           z == [requests |-> TRUE,
                 from |-> t.link_req_queues_, to |-> t.quad_req_queues_,
                 busy |-> Drained(t.quad_busy_), age |-> t.link_age_counter_]
           x == Arbitrate(s.logic_clk_, z)
           u == DrainRequests(s)
<1>1. /\ Sound(t) /\ SameDue(s, t) /\ t.lead = s.lead
  BY ToVaultsOk
<1>2. s.logic_clk_ \in Nat
  <2>1. s.logic_clk_ \in 0 .. LogicPeriod - 1
    BY StateFields DEF Sound
  <2>2. LogicPeriod \in Int
    BY LinksAssumption DEF LogicPeriod
  <2>3. QED
    BY <2>1, <2>2
<1>3. u = [t EXCEPT !.link_req_queues_ = x.from, !.quad_req_queues_ = x.to,
                    !.quad_busy_ = x.busy, !.link_age_counter_ = x.age]
  BY DEF DrainRequests
<1> HIDE DEF t, u
<1>4. t \in StateType /\ QueuesOk(t) /\ VaultRouted(t.ctrls_) /\ Paired(t)
  BY <1>1 DEF Sound
<1>5. /\ t.link_req_queues_ \in Queues(Links, PacketType)
      /\ t.quad_req_queues_ \in Queues(Quads, PacketType)
      /\ t.quad_busy_ \in [Quads -> -1 .. 17] /\ t.link_age_counter_ \in [Links -> 0 .. MaxAge]
  BY <1>4, StateFields
<1>6. XbarOk(z, Links, Quads)
  <2>1. Drained(t.quad_busy_) \in [Quads -> -1 .. 17]
    BY <1>5, DrainedType
  <2>2. z \in XbarType(Links, Quads)
    BY <1>5, <2>1 DEF XbarType
  <2>3. QED
    BY <1>4, <2>2 DEF XbarOk, QueuesOk
<1>7. z.from = t.link_req_queues_ /\ z.to = t.quad_req_queues_ /\ z.requests
  OBVIOUS
<1> HIDE DEF z, x
<1>8. Crossed(z, x, Links, Quads)
  <2>1. num_links \in Nat \ {0} /\ IsFiniteSet(Quads) /\ Links = 0 .. num_links - 1
    BY LinksAssumption, SidesFinite DEF Links
  <2>2. QED
    BY <1>2, <1>6, <2>1, ArbitrateOk DEF x
<1>9. /\ x.from \in Queues(Links, PacketType) /\ x.to \in Queues(Quads, PacketType)
      /\ x.busy \in [Quads -> -1 .. 17] /\ x.age \in [Links -> 0 .. MaxAge]
      /\ AgesMatch(x.age, x.from, Links) /\ Short(x.to, Quads) /\ QuadRouted(x.to)
  BY <1>7, <1>8 DEF Crossed, XbarOk, XbarType
<1>10. /\ u \in StateType /\ u.lead = t.lead
       /\ u.link_req_queues_ = x.from /\ u.quad_req_queues_ = x.to
       /\ u.quad_busy_ = x.busy /\ u.link_age_counter_ = x.age
       /\ u.link_resp_queues_ = t.link_resp_queues_ /\ u.quad_resp_queues_ = t.quad_resp_queues_
       /\ u.resp_lookup_table_ = t.resp_lookup_table_ /\ u.callbacks = t.callbacks
       /\ u.quad_age_counter_ = t.quad_age_counter_ /\ u.ctrls_ = t.ctrls_
  BY <1>3, <1>4, <1>9 DEF StateType
<1>11. Short(x.from, Links)
  <2> SUFFICES ASSUME NEW l \in Links PROVE Len(x.from[l]) <= xbar_queue_depth
    BY DEF Short
  <2> DEFINE new == Len(x.from[l])
             old == Len(t.link_req_queues_[l])
  <2>1. new <= old
    BY <1>7, <1>8 DEF Crossed
  <2>2. old <= xbar_queue_depth
    BY <1>4 DEF QueuesOk, Short
  <2>3. new \in Nat /\ old \in Nat /\ xbar_queue_depth \in Nat
    BY <1>5, <1>9, LinksAssumption DEF Queues
  <2> HIDE DEF new, old
  <2>4. new <= xbar_queue_depth
    BY <2>1, <2>2, <2>3
  <2>5. QED
    BY <2>4 DEF new
<1>12. QueuesOk(u)
  BY <1>4, <1>9, <1>10, <1>11 DEF QueuesOk
<1>13. Paired(u)
  <2> SUFFICES ASSUME NEW a \in Addr PROVE Len(u.resp_lookup_table_[a]) = OnTheWay(u, a)
    BY DEF Paired
  <2>1. OfAddr(a) \in Kinds
    BY DEF Kinds
  <2>2. Num(x.from, OfAddr(a)) + Num(x.to, OfAddr(a))
          = Num(t.link_req_queues_, OfAddr(a)) + Num(t.quad_req_queues_, OfAddr(a))
    BY <1>7, <1>8, <2>1 DEF Crossed, Conserved
  <2>3. Len(t.resp_lookup_table_[a]) = OnTheWay(t, a)
    BY <1>4 DEF Paired
  <2>4. OnTheWay(u, a) = OnTheWay(t, a)
    BY <1>10, <2>2 DEF OnTheWay
  <2>5. QED
    BY <1>10, <2>3, <2>4
<1>14. Sound(u)
  BY <1>4, <1>10, <1>12, <1>13 DEF Sound
<1>15. SameDue(t, u)
  BY <1>10 DEF SameDue, Due
<1>16. SameDue(s, u)
  BY <1>1, <1>15 DEF SameDue
<1>17. QED
  BY <1>1, <1>10, <1>14, <1>16 DEF u

(* Link l hands its first response to the CPU, and these are like t.       *)
HandsOut(s, l) == s.link_resp_queues_[l] # <<>> /\ Head(s.link_resp_queues_[l]).wait = 0

HandedOut(s, t) ==
    {l \in Links : /\ HandsOut(s, l)
                   /\ Head(s.link_resp_queues_[l]).addr = t.addr
                   /\ Head(s.link_resp_queues_[l]).is_write = t.is_write}

(* What leaves a link is counted among the callbacks.                      *)
LEMMA ToCPUOk ==
    ASSUME NEW s, Sound(s)
    PROVE  LET u == ToCPU(s)
           IN  /\ Sound(u) /\ SameDue(s, u) /\ u.lead = s.lead /\ u.ctrls_ = s.ctrls_
               /\ u.logic_clk_ = s.logic_clk_
<1> DEFINE u == ToCPU(s)
           Q == s.link_resp_queues_
           R == [l \in Links |-> IF HandsOut(s, l) THEN Tail(Q[l]) ELSE Q[l]]
           C == [t \in Transactions |-> s.callbacks[t] + Cardinality(HandedOut(s, t))]
           G == {l \in Links : HandsOut(s, l)}
<1>1. s \in StateType /\ QueuesOk(s) /\ VaultRouted(s.ctrls_) /\ Paired(s)
  BY DEF Sound
<1>2. u = [s EXCEPT !.link_resp_queues_ = R, !.callbacks = C]
  BY DEF ToCPU, HandsOut, HandedOut
<1>3. Q \in Queues(Links, PacketType) /\ s.callbacks \in [Transactions -> Nat]
  BY <1>1, StateFields
<1>4. /\ \A l \in G : l \in Links /\ Q[l] # <<>> /\ R[l] = Tail(Q[l])
      /\ \A l \in Links \ G : R[l] = Q[l]
  BY DEF HandsOut
<1>5. \A l \in Links : Q[l] \in Seq(PacketType)
  BY <1>3 DEF Queues
<1>6. G \in SUBSET Links /\ IsFiniteSet(G)
  BY SidesFinite, FS_Subset
<1>7. \A t \in Transactions : HandedOut(s, t) = FirstAmong(Q, G, OfKind(t))
  <2> SUFFICES ASSUME NEW t \in Transactions PROVE HandedOut(s, t) = FirstAmong(Q, G, OfKind(t))
    OBVIOUS
  <2>1. \A l \in G : Head(Q[l]) \in PacketType
    BY <1>4, <1>5
  <2>2. \A l \in G : Head(Q[l]) \in OfKind(t)
                       <=> Head(Q[l]).addr = t.addr /\ Head(Q[l]).is_write = t.is_write
    BY <2>1 DEF OfKind, Parcels
  <2>3. QED
    BY <2>2 DEF HandedOut, FirstAmong
<1>8. \A t \in Transactions : Cardinality(HandedOut(s, t)) \in Nat /\ IsFiniteSet(HandedOut(s, t))
  <2> SUFFICES ASSUME NEW t \in Transactions
               PROVE  Cardinality(HandedOut(s, t)) \in Nat /\ IsFiniteSet(HandedOut(s, t))
    OBVIOUS
  <2>1. HandedOut(s, t) \in SUBSET Links
    BY DEF HandedOut
  <2>2. QED
    BY <2>1, SidesFinite, FS_Subset, FS_CardinalityType
<1>9. C \in [Transactions -> Nat] /\ \A t \in Transactions :
                                       C[t] = s.callbacks[t] + Cardinality(HandedOut(s, t))
  BY <1>3, <1>8
<1>10. \A l \in Links : /\ R[l] \in Seq(PacketType) /\ Len(Q[l]) \in Nat
                        /\ Len(R[l]) <= Len(Q[l]) /\ Len(R[l]) \in Nat
  <2> SUFFICES ASSUME NEW l \in Links
               PROVE  /\ R[l] \in Seq(PacketType) /\ Len(Q[l]) \in Nat
                      /\ Len(R[l]) <= Len(Q[l]) /\ Len(R[l]) \in Nat
    OBVIOUS
  <2> HIDE DEF R, Q
  <2>1. CASE l \in G
    <3>1. Q[l] # <<>> /\ R[l] = Tail(Q[l])
      BY <1>4, <2>1
    <3> HIDE DEF G
    <3>2. QED
      BY <1>5, <3>1
  <2>2. CASE l \notin G
    <3>1. R[l] = Q[l] /\ Q[l] \in Seq(PacketType)
      BY <1>4, <1>5, <2>2
    <3> HIDE DEF G
    <3>2. QED
      BY <3>1
  <2>3. QED
    BY <2>1, <2>2
<1>11. R \in Queues(Links, PacketType)
  BY <1>10 DEF Queues
<1> HIDE DEF u, R, C, Q
<1>12. Short(R, Links)
  <2> SUFFICES ASSUME NEW l \in Links PROVE Len(R[l]) <= xbar_queue_depth
    BY DEF Short
  <2>1. Len(Q[l]) <= xbar_queue_depth
    BY <1>1 DEF QueuesOk, Short, Q
  <2>2. Len(R[l]) <= Len(Q[l]) /\ Len(R[l]) \in Nat /\ Len(Q[l]) \in Nat
    BY <1>10
  <2>3. QED
    BY <2>1, <2>2, LinksAssumption
<1>13. /\ u \in StateType /\ u.link_resp_queues_ = R /\ u.callbacks = C
       /\ u.lead = s.lead /\ u.logic_clk_ = s.logic_clk_ /\ u.ctrls_ = s.ctrls_
       /\ u.link_req_queues_ = s.link_req_queues_ /\ u.quad_req_queues_ = s.quad_req_queues_
       /\ u.quad_resp_queues_ = s.quad_resp_queues_
       /\ u.resp_lookup_table_ = s.resp_lookup_table_
       /\ u.link_age_counter_ = s.link_age_counter_ /\ u.quad_age_counter_ = s.quad_age_counter_
  BY <1>1, <1>2, <1>9, <1>11 DEF StateType
<1>14. QueuesOk(u)
  BY <1>1, <1>12, <1>13 DEF QueuesOk
<1>15. Paired(u)
  BY <1>1, <1>13 DEF Paired, OnTheWay
<1>16. ASSUME NEW t \in Transactions PROVE Due(u, t) = Due(s, t)
  <2> DEFINE M == OfKind(t)
             X == FirstAmong(Q, G, M)
  <2>1. IsFiniteSet(Pos(Q, M)) /\ Num(s.quad_resp_queues_, M) \in Nat
        /\ Num(s.resp_lookup_table_, M) \in Nat
    BY <1>1, CountsFinite, TableFinite, StateFields DEF Q, QueuesOk
  <2>2. Num(Q, M) = Num(R, M) + Cardinality(X)
    <3> HIDE DEF G, M
    <3>1. QED
      BY <1>3, <1>4, <1>6, <1>11, <2>1, CountPop
  <2>3. C[t] = s.callbacks[t] + Cardinality(X) /\ s.callbacks[t] \in Nat /\ Cardinality(X) \in Nat
    BY <1>3, <1>7, <1>8, <1>9
  <2>4. Num(R, M) \in Nat
    BY <1>11, SidesFinite, SideCounts
  <2> HIDE DEF M, X
  <2>5. /\ Due(u, t) = Num(s.resp_lookup_table_, M) + Num(s.quad_resp_queues_, M)
                       + Num(R, M) + C[t]
        /\ Due(s, t) = Num(s.resp_lookup_table_, M) + Num(s.quad_resp_queues_, M)
                       + Num(Q, M) + s.callbacks[t]
    BY <1>13 DEF Due, M, Q
  <2>6. QED
    BY <2>1, <2>2, <2>3, <2>4, <2>5
<1>17. QED
  BY <1>1, <1>13, <1>14, <1>15, <1>16 DEF Sound, SameDue, u

LEMMA DrainResponsesOk ==
    ASSUME NEW s, Sound(s)
    PROVE  LET u == DrainResponses(s)
           IN  Sound(u) /\ SameDue(s, u) /\ u.lead = s.lead /\ u.ctrls_ = s.ctrls_
<1> DEFINE t == ToCPU(s)
           z == [requests |-> FALSE,
                 from |-> t.quad_resp_queues_, to |-> t.link_resp_queues_,
                 busy |-> Drained(t.link_busy_), age |-> t.quad_age_counter_]
           x == Arbitrate(s.logic_clk_, z)
           u == DrainResponses(s)
<1>1. Sound(t) /\ SameDue(s, t) /\ t.lead = s.lead /\ t.ctrls_ = s.ctrls_
  BY ToCPUOk
<1>2. s.logic_clk_ \in Nat
  <2>1. s.logic_clk_ \in 0 .. LogicPeriod - 1
    BY StateFields DEF Sound
  <2>2. LogicPeriod \in Int
    BY LinksAssumption DEF LogicPeriod
  <2>3. QED
    BY <2>1, <2>2
<1>3. u = [t EXCEPT !.quad_resp_queues_ = x.from, !.link_resp_queues_ = x.to,
                    !.link_busy_ = x.busy, !.quad_age_counter_ = x.age]
  BY DEF DrainResponses
<1> HIDE DEF t, u
<1>4. t \in StateType /\ QueuesOk(t) /\ VaultRouted(t.ctrls_) /\ Paired(t)
  BY <1>1 DEF Sound
<1>5. /\ t.quad_resp_queues_ \in Queues(Quads, PacketType)
      /\ t.link_resp_queues_ \in Queues(Links, PacketType)
      /\ t.link_busy_ \in [Links -> -1 .. 17] /\ t.quad_age_counter_ \in [Quads -> 0 .. MaxAge]
  BY <1>4, StateFields
<1>6. XbarOk(z, Quads, Links)
  <2>1. Drained(t.link_busy_) \in [Links -> -1 .. 17]
    BY <1>5, DrainedType
  <2>2. z \in XbarType(Quads, Links)
    BY <1>5, <2>1 DEF XbarType
  <2>3. QED
    BY <1>4, <2>2 DEF XbarOk, QueuesOk
<1>7. z.from = t.quad_resp_queues_ /\ z.to = t.link_resp_queues_ /\ z.requests = FALSE
  OBVIOUS
<1> HIDE DEF z, x
<1>8. Crossed(z, x, Quads, Links)
  <2> DEFINE n == 4
  <2>1. n \in Nat \ {0} /\ IsFiniteSet(Links) /\ Quads = 0 .. n - 1
    BY SidesFinite DEF Quads
  <2> HIDE DEF n
  <2>2. QED
    BY <1>2, <1>6, <2>1, ArbitrateOk DEF x
<1>9. /\ x.from \in Queues(Quads, PacketType) /\ x.to \in Queues(Links, PacketType)
      /\ x.busy \in [Links -> -1 .. 17] /\ x.age \in [Quads -> 0 .. MaxAge]
      /\ AgesMatch(x.age, x.from, Quads) /\ Short(x.to, Links)
  BY <1>7, <1>8 DEF Crossed, XbarOk, XbarType
<1>10. /\ u \in StateType /\ u.lead = t.lead /\ u.ctrls_ = t.ctrls_
       /\ u.quad_resp_queues_ = x.from /\ u.link_resp_queues_ = x.to
       /\ u.quad_age_counter_ = x.age /\ u.link_age_counter_ = t.link_age_counter_
       /\ u.link_req_queues_ = t.link_req_queues_ /\ u.quad_req_queues_ = t.quad_req_queues_
       /\ u.resp_lookup_table_ = t.resp_lookup_table_ /\ u.callbacks = t.callbacks
  BY <1>3, <1>4, <1>9 DEF StateType
<1>11. QueuesOk(u)
  BY <1>4, <1>9, <1>10 DEF QueuesOk
<1>12. Paired(u)
  BY <1>4, <1>10 DEF Paired, OnTheWay
<1>13. Sound(u)
  BY <1>4, <1>10, <1>11, <1>12 DEF Sound
<1>14. ASSUME NEW r \in Transactions PROVE Due(u, r) = Due(t, r)
  <2> DEFINE M == OfKind(r)
  <2>1. M \in Kinds
    BY DEF Kinds
  <2>2. Num(x.from, M) + Num(x.to, M) = Num(t.quad_resp_queues_, M) + Num(t.link_resp_queues_, M)
    BY <1>7, <1>8, <2>1 DEF Crossed, Conserved
  <2>3. /\ Num(x.from, M) \in Nat /\ Num(x.to, M) \in Nat
        /\ Num(t.quad_resp_queues_, M) \in Nat /\ Num(t.link_resp_queues_, M) \in Nat
    BY <1>5, <1>9, SidesFinite, SideCounts
  <2>4. Num(t.resp_lookup_table_, M) \in Nat /\ t.callbacks[r] \in Nat
    BY <1>4, TableFinite, StateFields DEF QueuesOk
  <2> HIDE DEF M
  <2>5. /\ Due(u, r) = Num(t.resp_lookup_table_, M) + Num(x.from, M) + Num(x.to, M)
                       + t.callbacks[r]
        /\ Due(t, r) = Num(t.resp_lookup_table_, M) + Num(t.quad_resp_queues_, M)
                       + Num(t.link_resp_queues_, M) + t.callbacks[r]
    BY <1>10 DEF Due, M
  <2>6. QED
    BY <2>2, <2>3, <2>4, <2>5
<1>15. SameDue(s, u)
  BY <1>1, <1>14 DEF SameDue
<1>16. QED
  BY <1>1, <1>10, <1>13, <1>15 DEF u

-----------------------------------------------------------------------------
(* The DRAM cycle: the vaults return what is done.                         *)

(* The transactions of address a in the vaults whose place is not in D.    *)
Kept(s, D, a) == Pos(s.ctrls_, OfAddr(a)) \ D

(* From s, the responses to the transactions at the places in D were sent. *)
Sent(s, u, D) ==
    /\ u \in StateType /\ QueuesOk(u) /\ SameDue(s, u)
    /\ u.lead = s.lead /\ u.ctrls_ = s.ctrls_ /\ u.full = s.full
    /\ u.link_req_queues_ = s.link_req_queues_ /\ u.quad_req_queues_ = s.quad_req_queues_
    /\ \A a \in Addr : Len(u.resp_lookup_table_[a])
                         = Num(s.link_req_queues_, OfAddr(a)) + Num(s.quad_req_queues_, OfAddr(a))
                           + Cardinality(Kept(s, D, a))

(* A transaction more is returned: VaultCallback finds its response.       *)
LEMMA CallbackStep ==
    ASSUME NEW s, Sound(s), NEW u, NEW D, Sent(s, u, D),
           NEW v \in Vaults, NEW i \in 1 .. Len(s.ctrls_[v]), <<v, i>> \notin D
    PROVE  Sent(s, VaultCallback(u, s.ctrls_[v][i].addr), D \cup {<<v, i>>})
<1> DEFINE b == s.ctrls_[v][i].addr
           z == <<v, i>>
           E == D \cup {z}
           q == QuadOf(b)
           T == u.resp_lookup_table_
           Q == u.quad_resp_queues_
           resp == Head(T[b])
           T1 == [T EXCEPT ![b] = Tail(@)]
           Q1 == [Q EXCEPT ![q] = Append(@, resp)]
           age == [u.quad_age_counter_ EXCEPT ![q] = 1]
           w == VaultCallback(u, b)
<1>1. /\ s \in StateType /\ u \in StateType /\ QueuesOk(u) /\ SameDue(s, u)
      /\ s.ctrls_ \in Queues(Vaults, EntryType)
      /\ T \in Queues(Addr, PacketType) /\ Q \in Queues(Quads, PacketType)
      /\ u.quad_age_counter_ \in [Quads -> 0 .. MaxAge] /\ TableRouted(T)
  BY StateFields DEF Sound, Sent, QueuesOk
<1>2. s.ctrls_[v] \in Seq(EntryType) /\ s.ctrls_[v][i] \in EntryType
  <2>1. s.ctrls_[v] \in Seq(EntryType)
    BY <1>1 DEF Queues
  <2>2. QED
    BY <2>1
<1>3. b \in Addr /\ q \in Quads
  <2>1. b \in Addr
    BY <1>2 DEF EntryType
  <2>2. QED
    BY <2>1, QuadType
<1>4. \A a \in Addr : (z \in Pos(s.ctrls_, OfAddr(a)) <=> a = b)
  <2> SUFFICES ASSUME NEW a \in Addr PROVE z \in Pos(s.ctrls_, OfAddr(a)) <=> a = b
    OBVIOUS
  <2>1. z \in Pos(s.ctrls_, OfAddr(a)) <=> s.ctrls_[v][i] \in OfAddr(a)
    BY <1>1, InPos
  <2>2. s.ctrls_[v][i] \in OfAddr(a) <=> b = a
    BY <1>2 DEF OfAddr, Parcels
  <2>3. QED
    BY <2>1, <2>2
<1>5. \A a \in Addr : IsFiniteSet(Kept(s, D, a)) /\ Cardinality(Kept(s, D, a)) \in Nat
  <2> SUFFICES ASSUME NEW a \in Addr PROVE IsFiniteSet(Kept(s, D, a))
    BY FS_CardinalityType
  <2>1. IsFiniteSet(Pos(s.ctrls_, OfAddr(a)))
    BY <1>1, CountsFinite
  <2>2. Kept(s, D, a) \in SUBSET Pos(s.ctrls_, OfAddr(a))
    BY DEF Kept
  <2>3. QED
    BY <2>1, <2>2, FS_Subset
<1>6. \A a \in Addr : /\ a = b => Cardinality(Kept(s, E, a)) = Cardinality(Kept(s, D, a)) - 1
                      /\ a # b => Kept(s, E, a) = Kept(s, D, a)
  <2> SUFFICES ASSUME NEW a \in Addr
               PROVE  /\ a = b => Cardinality(Kept(s, E, a)) = Cardinality(Kept(s, D, a)) - 1
                      /\ a # b => Kept(s, E, a) = Kept(s, D, a)
    OBVIOUS
  <2>1. CASE a = b
    <3>1. z \in Kept(s, D, a) /\ Kept(s, E, a) = Kept(s, D, a) \ {z}
      BY <1>4, <2>1 DEF Kept
    <3> HIDE DEF E, z
    <3>2. Cardinality(Kept(s, D, a) \ {z}) = Cardinality(Kept(s, D, a)) - 1
      BY <1>5, <3>1, FS_RemoveElement
    <3>3. QED
      BY <2>1, <3>1, <3>2
  <2>2. CASE a # b
    BY <1>4, <2>2 DEF Kept
  <2>3. QED
    BY <2>1, <2>2
<1>7. Cardinality(Kept(s, D, b)) # 0
  <2>1. z \in Kept(s, D, b)
    BY <1>3, <1>4 DEF Kept
  <2>2. QED
    BY <1>3, <1>5, <2>1, FS_EmptySet
<1> HIDE DEF b
<1>8. T[b] # <<>> /\ T[b] \in Seq(PacketType) /\ resp \in PacketType /\ resp.addr = b
  <2>1. T[b] \in Seq(PacketType)
    BY <1>1, <1>3 DEF Queues
  <2>2. Len(T[b]) = Num(s.link_req_queues_, OfAddr(b)) + Num(s.quad_req_queues_, OfAddr(b))
                      + Cardinality(Kept(s, D, b))
    BY <1>3 DEF Sent
  <2>3. Num(s.link_req_queues_, OfAddr(b)) \in Nat /\ Num(s.quad_req_queues_, OfAddr(b)) \in Nat
    BY <1>1, CountsFinite
  <2>4. Cardinality(Kept(s, D, b)) \in Nat
    BY <1>3, <1>5
  <2>5. Len(T[b]) > 0
    <3> DEFINE n == Cardinality(Kept(s, D, b))
               k == Num(s.link_req_queues_, OfAddr(b))
               m == Num(s.quad_req_queues_, OfAddr(b))
               len == Len(T[b])
    <3>1. n \in Nat /\ k \in Nat /\ m \in Nat /\ n # 0 /\ len = k + m + n
      BY <1>7, <2>2, <2>3, <2>4
    <3> HIDE DEF n, k, m, len
    <3>2. len > 0
      BY <3>1
    <3>3. QED
      BY <3>2 DEF len
  <2>6. T[b] # <<>> /\ Head(T[b]) = T[b][1] /\ 1 \in 1 .. Len(T[b]) /\ Head(T[b]) \in PacketType
    BY <2>1, <2>5
  <2>7. QED
    BY <1>1, <1>3, <2>1, <2>6 DEF TableRouted
<1>9. w = [u EXCEPT !.resp_lookup_table_ = T1, !.quad_resp_queues_ = Q1,
                    !.quad_age_counter_ = age]
  BY DEF VaultCallback
<1> HIDE DEF q, resp
<1>10. /\ T1 \in Queues(Addr, PacketType) /\ T1[b] = Tail(T[b])
       /\ \A a \in Addr : a # b => T1[a] = T[a]
  <2>1. Tail(T[b]) \in Seq(PacketType)
    BY <1>8
  <2>2. QED
    BY <1>1, <1>3, <2>1 DEF Queues
<1>11. /\ Q1 \in Queues(Quads, PacketType) /\ Q1[q] = Append(Q[q], resp)
       /\ \A k \in Quads : k # q => Q1[k] = Q[k]
  <2>1. Q[q] \in Seq(PacketType)
    BY <1>1, <1>3 DEF Queues
  <2>2. QED
    BY <1>1, <1>3, <1>8, <2>1 DEF Queues
<1>12. /\ age \in [Quads -> 0 .. MaxAge] /\ age[q] = 1
       /\ \A k \in Quads : k # q => age[k] = u.quad_age_counter_[k]
  <2>1. 1 \in 0 .. MaxAge
    BY LinksAssumption DEF MaxAge
  <2>2. QED
    BY <1>1, <1>3, <2>1
<1> HIDE DEF T1, Q1, age, w
<1>13. /\ w \in StateType /\ w.resp_lookup_table_ = T1 /\ w.quad_resp_queues_ = Q1
       /\ w.quad_age_counter_ = age
       /\ w.lead = u.lead /\ w.ctrls_ = u.ctrls_ /\ w.full = u.full
       /\ w.link_req_queues_ = u.link_req_queues_ /\ w.quad_req_queues_ = u.quad_req_queues_
       /\ w.link_resp_queues_ = u.link_resp_queues_ /\ w.callbacks = u.callbacks
       /\ w.link_age_counter_ = u.link_age_counter_
  BY <1>1, <1>9, <1>10, <1>11, <1>12 DEF StateType
<1>14. TableRouted(T1)
  <2> SUFFICES ASSUME NEW a \in Addr, NEW j \in 1 .. Len(T1[a]) PROVE T1[a][j].addr = a
    BY DEF TableRouted
  <2>1. CASE a = b
    <3>1. Len(T1[b]) = Len(T[b]) - 1 /\ Len(T[b]) \in Nat
          /\ \A k \in 1 .. Len(T1[b]) : T1[b][k] = T[b][k + 1]
      BY <1>8, <1>10
    <3>2. j + 1 \in 1 .. Len(T[b]) /\ T1[b][j] = T[b][j + 1]
      BY <2>1, <3>1
    <3>3. QED
      BY <1>1, <1>3, <2>1, <3>2 DEF TableRouted
  <2>2. CASE a # b
    BY <1>1, <1>10, <2>2 DEF TableRouted
  <2>3. QED
    BY <2>1, <2>2
<1>15. AgesMatch(age, Q1, Quads)
  <2> SUFFICES ASSUME NEW k \in Quads PROVE age[k] > 0 <=> Q1[k] # <<>>
    BY DEF AgesMatch
  <2>1. CASE k = q
    <3>1. Q[q] \in Seq(PacketType)
      BY <1>1, <1>3 DEF Queues
    <3>2. Q1[q] # <<>>
      BY <1>8, <1>11, <3>1
    <3>3. age[q] > 0
      BY <1>12
    <3>4. QED
      BY <2>1, <3>2, <3>3
  <2>2. CASE k # q
    BY <1>1, <1>11, <1>12, <2>2 DEF QueuesOk, AgesMatch
  <2>3. QED
    BY <2>1, <2>2
<1>16. QueuesOk(w)
  BY <1>1, <1>13, <1>14, <1>15 DEF QueuesOk
<1>17. ASSUME NEW t \in Transactions PROVE Due(w, t) = Due(u, t)
  <2> DEFINE M == OfKind(t)
  <2>1. /\ IsFiniteSet(Pos(T, M)) /\ IsFiniteSet(Pos(Q, M)) /\ Num(Q, M) \in Nat
        /\ Num(u.link_resp_queues_, M) \in Nat /\ u.callbacks[t] \in Nat
    BY <1>1, CountsFinite, TableFinite, StateFields
  <2>2. Num(T1, M) \in Nat
    BY <1>10, <1>14, TableFinite
  <2> HIDE DEF T, Q, M
  <2>3. Num(T, M) = Num(T1, M) + (IF resp \in M THEN 1 ELSE 0)
    BY <1>1, <1>3, <1>8, <1>10, <2>1, PopOne DEF resp
  <2>4. Num(Q1, M) = Num(Q, M) + (IF resp \in M THEN 1 ELSE 0)
    BY <1>1, <1>3, <1>8, <1>11, <2>1, PushOne
  <2>5. /\ Due(w, t) = Num(T1, M) + Num(Q1, M) + Num(u.link_resp_queues_, M) + u.callbacks[t]
        /\ Due(u, t) = Num(T, M) + Num(Q, M) + Num(u.link_resp_queues_, M) + u.callbacks[t]
    BY <1>13 DEF Due, M, T, Q
  <2>6. QED
    BY <2>1, <2>2, <2>3, <2>4, <2>5
<1>18. SameDue(s, w)
  BY <1>1, <1>17 DEF SameDue
<1>19. ASSUME NEW a \in Addr
       PROVE  Len(T1[a]) = Num(s.link_req_queues_, OfAddr(a)) + Num(s.quad_req_queues_, OfAddr(a))
                             + Cardinality(Kept(s, E, a))
  <2>1. Len(T[a]) = Num(s.link_req_queues_, OfAddr(a)) + Num(s.quad_req_queues_, OfAddr(a))
                      + Cardinality(Kept(s, D, a))
    BY DEF Sent
  <2>2. Num(s.link_req_queues_, OfAddr(a)) \in Nat /\ Num(s.quad_req_queues_, OfAddr(a)) \in Nat
    BY <1>1, CountsFinite
  <2> HIDE DEF E
  <2>3. CASE a = b
    <3>1. Len(T1[b]) = Len(T[b]) - 1
      BY <1>8, <1>10
    <3>2. Cardinality(Kept(s, E, a)) = Cardinality(Kept(s, D, a)) - 1
      BY <1>6, <2>3
    <3> HIDE DEF T
    <3>3. QED
      BY <1>5, <2>1, <2>2, <2>3, <3>1, <3>2
  <2>4. CASE a # b
    BY <1>6, <1>10, <2>1, <2>4
  <2>5. QED
    BY <2>3, <2>4
<1>20. Sent(s, w, E)
  <2> HIDE DEF E, T, Q
  <2>1. /\ u.lead = s.lead /\ u.ctrls_ = s.ctrls_ /\ u.full = s.full
        /\ u.link_req_queues_ = s.link_req_queues_ /\ u.quad_req_queues_ = s.quad_req_queues_
    BY DEF Sent
  <2>2. QED
    BY <1>13, <1>16, <1>18, <1>19, <2>1 DEF Sent
<1>21. QED
  BY <1>20 DEF w, b

(* The first m places that vault v returns in this order.                  *)
Places(v, order, m) ==
    {z \in Vaults \X Nat : z[1] = v /\ \E j \in 1 .. m : z[2] = order[j]}

(* The vault's whole loop.                                                 *)
LEMMA FromVaultOk ==
    ASSUME NEW s, Sound(s), NEW u, NEW D, Sent(s, u, D), NEW v \in Vaults,
           NEW order \in Seq(1 .. Len(s.ctrls_[v])),
           \A i, j \in 1 .. Len(order) : order[i] = order[j] => i = j,
           \A j \in 1 .. Len(order) : <<v, order[j]>> \notin D
    PROVE  Sent(s, FromVault(u, s.ctrls_[v], order), D \cup Places(v, order, Len(order)))
<1> DEFINE n == Len(order)
           P(i) == D \cup Places(v, order, i)
           S == [i \in 0 .. n |-> {w \in StateType : Sent(s, w, P(i))}]
           addr(i) == s.ctrls_[v][order[i]].addr
           T == StateType \X (1 .. n)
           F == [z \in T |-> VaultCallback(z[1], addr(z[2]))]
           Turn(g) == [i \in 0 .. n |-> IF i = 0 THEN u ELSE VaultCallback(g[i - 1], addr(i))]
<1>1. n \in Nat /\ \A i \in 1 .. n : order[i] \in 1 .. Len(s.ctrls_[v])
  OBVIOUS
<1>2. u \in S[0]
  <2>1. P(0) = D
    BY DEF Places
  <2>2. u \in StateType
    BY DEF Sent
  <2> HIDE DEF P
  <2>3. QED
    BY <1>1, <2>1, <2>2
<1> HIDE DEF n
<1>3. \A i \in 1 .. n : \A w \in S[i - 1] : w \in StateType /\ VaultCallback(w, addr(i)) \in S[i]
  <2> SUFFICES ASSUME NEW i \in 1 .. n, NEW w \in S[i - 1]
               PROVE  w \in StateType /\ VaultCallback(w, addr(i)) \in S[i]
    OBVIOUS
  <2> DEFINE k == order[i]
             B == P(i - 1)
             y == VaultCallback(w, addr(i))
  <2>1. i - 1 \in 0 .. n /\ i \in 0 .. n
    BY <1>1
  <2>2. w \in StateType /\ Sent(s, w, B)
    BY <2>1
  <2>3. k \in 1 .. Len(s.ctrls_[v])
    BY <1>1
  <2>4. <<v, k>> \notin B
    <3> SUFFICES ASSUME <<v, k>> \in Places(v, order, i - 1) PROVE FALSE
      BY DEF n
    <3>1. PICK j \in 1 .. i - 1 : k = order[j]
      BY DEF Places
    <3>2. j \in 1 .. n /\ j # i /\ order[i] = order[j]
      BY <1>1, <3>1
    <3>3. QED
      BY <3>2 DEF n
  <2>5. B \cup {<<v, k>>} = P(i)
    <3> DEFINE X == Places(v, order, i - 1) \cup {<<v, k>>}
               Y == Places(v, order, i)
    <3>1. \A z \in X : z = <<z[1], z[2]>>
      BY DEF Places
    <3>2. \A z \in Y : z = <<z[1], z[2]>>
      BY DEF Places
    <3>3. k \in Nat
      BY <2>3
    <3>4. ASSUME NEW a, NEW c PROVE <<a, c>> \in X <=> <<a, c>> \in Y
      <4>1. <<a, c>> \in Y <=> a = v /\ c \in Nat /\ \E j \in 1 .. i : c = order[j]
        BY DEF Places
      <4>2. <<a, c>> \in Places(v, order, i - 1)
              <=> a = v /\ c \in Nat /\ \E j \in 1 .. i - 1 : c = order[j]
        BY DEF Places
      <4>3. \A j : j \in 1 .. i <=> j \in 1 .. i - 1 \/ j = i
        BY <1>1
      <4>4. QED
        BY <3>3, <4>1, <4>2, <4>3
    <3> HIDE DEF X, Y
    <3>5. X = Y
      BY <3>1, <3>2, <3>4, SamePairs
    <3>6. QED
      BY <3>5 DEF X, Y
  <2> HIDE DEF B, k
  <2>6. Sent(s, VaultCallback(w, s.ctrls_[v][k].addr), B \cup {<<v, k>>})
    BY <2>2, <2>3, <2>4, CallbackStep
  <2>7. Sent(s, y, P(i))
    BY <2>5, <2>6 DEF k
  <2> HIDE DEF y, P
  <2>8. y \in StateType
    BY <2>7 DEF Sent
  <2>9. y \in S[i]
    BY <2>1, <2>7, <2>8
  <2>10. QED
    BY <2>2, <2>9 DEF y
<1>4. \A w \in S[n] : Sent(s, w, P(n))
  BY <1>1
<1> HIDE DEF S, P, addr
<1>5. \E f : f = Turn(f)
  <2>1. \A i \in 1 .. n : \A w \in S[i - 1] : F[<<w, i>>] = VaultCallback(w, addr(i))
    BY <1>3
  <2> HIDE DEF F
  <2>2. Passes(n, S, F)
    <3> SUFFICES ASSUME NEW turn \in 1 .. n, NEW old \in S[turn - 1]
                 PROVE  F[<<old, turn>>] \in S[turn]
      BY DEF Passes
    <3>1. QED
      BY <1>3, <2>1
  <2>3. PICK f : Run(f, n, u, S, F)
    BY <1>1, <1>2, <2>2, LoopRuns
  <2>4. f = [i \in 0 .. n |-> f[i]] /\ f[0] = u
    BY <2>3 DEF Run
  <2>5. ASSUME NEW i \in 1 .. n PROVE f[i] = VaultCallback(f[i - 1], addr(i))
    <3>1. i - 1 \in 0 .. n
      BY <1>1
    <3>2. f[i - 1] \in S[i - 1] /\ f[i] = F[<<f[i - 1], i>>]
      BY <2>3, <3>1 DEF Run
    <3>3. QED
      BY <2>1, <3>2
  <2>6. ASSUME NEW i \in 0 .. n PROVE f[i] = IF i = 0 THEN u ELSE VaultCallback(f[i - 1], addr(i))
    <3>1. i = 0 \/ (i # 0 /\ i \in 1 .. n)
      BY <1>1
    <3>2. QED
      BY <2>4, <2>5, <3>1
  <2>7. f = Turn(f)
    BY <2>4, <2>6
  <2>8. QED
    BY <2>7
<1> DEFINE sent == CHOOSE f : f = Turn(f)
<1>6. sent = Turn(sent)
  BY <1>5
<1>7. FromVault(u, s.ctrls_[v], order) = sent[n]
  BY DEF FromVault, n, addr
<1> HIDE DEF sent
<1>8. sent[0] = u /\ \A i \in 1 .. n : sent[i] = VaultCallback(sent[i - 1], addr(i))
  BY <1>1, <1>6
<1>9. Keeps(sent, n, S)
  BY <1>3, <1>8 DEF Keeps
<1>10. \A i \in 0 .. n : sent[i] \in S[i]
  BY <1>1, <1>2, <1>8, <1>9, LoopKeeps
<1>11. Sent(s, sent[n], P(n))
  <2>1. n \in 0 .. n
    BY <1>1
  <2>2. QED
    BY <1>4, <1>10, <2>1
<1>12. QED
  BY <1>7, <1>11 DEF n, P

(* What the vaults return: positions, each one once.                       *)
DoneOk(s, done) ==
    \A v \in Vaults : /\ done[v] \in Seq(1 .. Len(s.ctrls_[v]))
                      /\ \A i, j \in 1 .. Len(done[v]) : done[v][i] = done[v][j] => i = j

(* The places the first m vaults return.                                   *)
Gone(done, m) ==
    {z \in Vaults \X Nat : z[1] < m /\ \E j \in 1 .. Len(done[z[1]]) : z[2] = done[z[1]][j]}

(* The loop over the vaults.                                               *)
LEMMA FromVaultsOk ==
    ASSUME NEW s, Sound(s), NEW done, DoneOk(s, done)
    PROVE  Sent(s, FromVaults(s, done), Gone(done, channels))
<1> DEFINE S == [m \in 0 .. channels |-> {w \in StateType : Sent(s, w, Gone(done, m))}]
           Step(w, m) == FromVault(w, s.ctrls_[m - 1], done[m - 1])
           T == StateType \X (1 .. channels)
           F == [z \in T |-> Step(z[1], z[2])]
           Turn(g) == [m \in 0 .. channels |-> IF m = 0 THEN s ELSE Step(g[m - 1], m)]
<1>1. channels \in Nat
  BY LinksAssumption
<1>2. s \in S[0]
  <2>1. Gone(done, 0) = {}
    <3> SUFFICES ASSUME NEW z \in Gone(done, 0) PROVE FALSE
      OBVIOUS
    <3>1. z[1] \in Vaults /\ z[1] < 0
      BY DEF Gone
    <3>2. QED
      BY <1>1, <3>1 DEF Vaults
  <2>2. \A a \in Addr : Kept(s, Gone(done, 0), a) = Pos(s.ctrls_, OfAddr(a))
    BY <2>1 DEF Kept
  <2>3. s \in StateType /\ QueuesOk(s) /\ Paired(s)
    BY DEF Sound
  <2>4. Sent(s, s, Gone(done, 0))
    BY <2>2, <2>3 DEF Sent, SameDue, Paired, OnTheWay, Num
  <2>5. QED
    BY <1>1, <2>3, <2>4
<1>3. \A m \in 1 .. channels : \A w \in S[m - 1] : w \in StateType /\ Step(w, m) \in S[m]
  <2> SUFFICES ASSUME NEW m \in 1 .. channels, NEW w \in S[m - 1]
               PROVE  w \in StateType /\ Step(w, m) \in S[m]
    OBVIOUS
  <2> DEFINE v == m - 1
             B == Gone(done, v)
             order == done[v]
             y == FromVault(w, s.ctrls_[v], order)
  <2>1. v \in 0 .. channels /\ m \in 0 .. channels /\ v \in Vaults /\ v \in Nat /\ m = v + 1
    BY <1>1 DEF Vaults
  <2>2. w \in StateType /\ Sent(s, w, B)
    BY <2>1
  <2>3. /\ order \in Seq(1 .. Len(s.ctrls_[v]))
        /\ \A i, j \in 1 .. Len(order) : order[i] = order[j] => i = j
    BY <2>1 DEF DoneOk
  <2> HIDE DEF v
  <2>4. \A j \in 1 .. Len(order) : <<v, order[j]>> \notin B
    BY <2>1 DEF Gone
  <2>5. B \cup Places(v, order, Len(order)) = Gone(done, m)
    <3> DEFINE X == B \cup Places(v, order, Len(order))
               Y == Gone(done, m)
    <3>1. \A z \in X : z = <<z[1], z[2]>>
      BY DEF Places, Gone
    <3>2. \A z \in Y : z = <<z[1], z[2]>>
      BY DEF Gone
    <3>3. ASSUME NEW a, NEW c PROVE <<a, c>> \in X <=> <<a, c>> \in Y
      <4>1. <<a, c>> \in Y <=> /\ a \in Vaults /\ c \in Nat /\ a < m
                               /\ \E j \in 1 .. Len(done[a]) : c = done[a][j]
        BY DEF Gone
      <4>2. <<a, c>> \in B <=> /\ a \in Vaults /\ c \in Nat /\ a < v
                               /\ \E j \in 1 .. Len(done[a]) : c = done[a][j]
        BY DEF Gone
      <4>3. <<a, c>> \in Places(v, order, Len(order))
              <=> /\ a = v /\ c \in Nat
                  /\ \E j \in 1 .. Len(order) : c = order[j]
        BY <2>1 DEF Places
      <4>4. a \in Vaults => (a < m <=> a < v \/ a = v)
        BY <1>1, <2>1 DEF Vaults
      <4>5. QED
        BY <2>1, <4>1, <4>2, <4>3, <4>4
    <3> HIDE DEF X, Y
    <3>4. X = Y
      BY <3>1, <3>2, <3>3, SamePairs
    <3>5. QED
      BY <3>4 DEF X, Y
  <2> HIDE DEF B, order
  <2>6. Sent(s, y, B \cup Places(v, order, Len(order)))
    BY <2>1, <2>2, <2>3, <2>4, FromVaultOk
  <2> HIDE DEF y
  <2>7. Sent(s, y, Gone(done, m))
    BY <2>5, <2>6
  <2>8. y \in StateType
    BY <2>7 DEF Sent
  <2>9. y \in S[m]
    BY <2>1, <2>7, <2>8
  <2>10. QED
    BY <2>2, <2>9 DEF y, v, order
<1>4. \A w \in S[channels] : Sent(s, w, Gone(done, channels))
  BY <1>1
<1> HIDE DEF S, Step
<1>5. \E f : f = Turn(f)
  <2>1. \A m \in 1 .. channels : \A w \in S[m - 1] : F[<<w, m>>] = Step(w, m)
    BY <1>3
  <2> HIDE DEF F
  <2>2. Passes(channels, S, F)
    <3> SUFFICES ASSUME NEW turn \in 1 .. channels, NEW old \in S[turn - 1]
                 PROVE  F[<<old, turn>>] \in S[turn]
      BY DEF Passes
    <3>1. QED
      BY <1>3, <2>1
  <2>3. PICK f : Run(f, channels, s, S, F)
    BY <1>1, <1>2, <2>2, LoopRuns
  <2>4. f = [m \in 0 .. channels |-> f[m]] /\ f[0] = s
    BY <2>3 DEF Run
  <2>5. ASSUME NEW m \in 1 .. channels PROVE f[m] = Step(f[m - 1], m)
    <3>1. m - 1 \in 0 .. channels
      BY <1>1
    <3>2. f[m - 1] \in S[m - 1] /\ f[m] = F[<<f[m - 1], m>>]
      BY <2>3, <3>1 DEF Run
    <3>3. QED
      BY <2>1, <3>2
  <2>6. ASSUME NEW m \in 0 .. channels PROVE f[m] = IF m = 0 THEN s ELSE Step(f[m - 1], m)
    <3>1. m = 0 \/ (m # 0 /\ m \in 1 .. channels)
      BY <1>1
    <3>2. QED
      BY <2>4, <2>5, <3>1
  <2>7. f = Turn(f)
    BY <2>4, <2>6
  <2>8. QED
    BY <2>7
<1> DEFINE sent == CHOOSE f : f = Turn(f)
<1>6. sent = Turn(sent)
  BY <1>5
<1>7. FromVaults(s, done) = sent[channels]
  BY DEF FromVaults, Step
<1> HIDE DEF sent
<1>8. sent[0] = s /\ \A m \in 1 .. channels : sent[m] = Step(sent[m - 1], m)
  BY <1>1, <1>6
<1>9. Keeps(sent, channels, S)
  BY <1>3, <1>8 DEF Keeps
<1>10. \A m \in 0 .. channels : sent[m] \in S[m]
  BY <1>1, <1>2, <1>8, <1>9, LoopKeeps
<1>11. QED
  BY <1>1, <1>4, <1>7, <1>10

(* The first i positions without those in order.                           *)
Rest(order, i) == {k \in 1 .. i : k \notin Range(order)}

(* f takes the positions of the queue rest to those in R where the same    *)
(* addresses are in entries.                                               *)
Matches(f, rest, entries, R) ==
    /\ f \in [1 .. Len(rest) -> R]
    /\ \A j, k \in 1 .. Len(rest) : f[j] = f[k] => j = k
    /\ \A r \in R : \E j \in 1 .. Len(rest) : f[j] = r
    /\ \A j \in 1 .. Len(rest) : rest[j].addr = entries[f[j]].addr

(* An entry more that stays.                                               *)
LEMMA RemainingStep ==
    ASSUME NEW entries \in Seq(EntryType), NEW order, NEW i \in 1 .. Len(entries),
           i \notin Range(order), NEW rest \in Seq(EntryType), NEW e \in EntryType,
           e.addr = entries[i].addr,
           \E f : Matches(f, rest, entries, Rest(order, i - 1))
    PROVE  \E f : Matches(f, Append(rest, e), entries, Rest(order, i))
<1>1. PICK f : Matches(f, rest, entries, Rest(order, i - 1))
  OBVIOUS
<1> DEFINE n == Len(rest)
           w == Append(rest, e)
           g == [j \in 1 .. n + 1 |-> IF j = n + 1 THEN i ELSE f[j]]
           R == Rest(order, i - 1)
           R1 == Rest(order, i)
<1>2. /\ n \in Nat /\ Len(w) = n + 1 /\ w[n + 1] = e /\ \A j \in 1 .. n : w[j] = rest[j]
  OBVIOUS
<1>3. R1 = R \cup {i} /\ i \notin R
  BY DEF Rest
<1>4. /\ \A j \in 1 .. n : f[j] \in R
      /\ \A j, k \in 1 .. n : f[j] = f[k] => j = k
      /\ \A r \in R : \E j \in 1 .. n : f[j] = r
      /\ \A j \in 1 .. n : rest[j].addr = entries[f[j]].addr
  BY <1>1 DEF Matches
<1>5. /\ \A j \in 1 .. n : j # n + 1 /\ j \in 1 .. n + 1 /\ g[j] = f[j]
      /\ g[n + 1] = i /\ n + 1 \in 1 .. n + 1
      /\ \A j \in 1 .. n + 1 : j \in 1 .. n \/ j = n + 1
  BY <1>2
<1>6. DOMAIN g = 1 .. n + 1 /\ g = [j \in 1 .. n + 1 |-> g[j]]
  OBVIOUS
<1> HIDE DEF n, w, g, R, R1
<1>7. \A j \in 1 .. n + 1 : g[j] \in R1
  BY <1>3, <1>4, <1>5
<1>8. g \in [1 .. n + 1 -> R1]
  BY <1>6, <1>7
<1>9. \A j, k \in 1 .. n + 1 : g[j] = g[k] => j = k
  <2> SUFFICES ASSUME NEW j \in 1 .. n + 1, NEW k \in 1 .. n + 1, g[j] = g[k] PROVE j = k
    OBVIOUS
  <2>1. CASE j \in 1 .. n /\ k \in 1 .. n
    BY <1>4, <1>5, <2>1
  <2>2. CASE j = n + 1 /\ k \in 1 .. n
    BY <1>3, <1>4, <1>5, <2>2
  <2>3. CASE j \in 1 .. n /\ k = n + 1
    BY <1>3, <1>4, <1>5, <2>3
  <2>4. QED
    BY <1>5, <2>1, <2>2, <2>3
<1>10. \A r \in R1 : \E j \in 1 .. n + 1 : g[j] = r
  BY <1>3, <1>4, <1>5
<1>11. \A j \in 1 .. n + 1 : w[j].addr = entries[g[j]].addr
  BY <1>2, <1>4, <1>5
<1>12. Matches(g, w, entries, R1)
  BY <1>2, <1>8, <1>9, <1>10, <1>11 DEF Matches
<1>13. QED
  BY <1>12 DEF w, R1

(* What Remaining keeps.                                                   *)
LEMMA RemainingOk ==
    ASSUME NEW entries \in Seq(EntryType), NEW order
    PROVE  LET rest == Remaining(entries, order)
           IN  /\ rest \in Seq(EntryType)
               /\ \E f : Matches(f, rest, entries, Rest(order, Len(entries)))
<1> DEFINE n == Len(entries)
           S == [i \in 0 .. n |-> {w \in Seq(EntryType) :
                                     \E f : Matches(f, w, entries, Rest(order, i))}]
           next(i) == [entries[i] EXCEPT !.wait = @ - 1]
           Step(w, i) == IF i \in Range(order) THEN w ELSE Append(w, next(i))
           T == Seq(EntryType) \X (1 .. n)
           F == [z \in T |-> Step(z[1], z[2])]
           Turn(g) == [i \in 0 .. n |-> IF i = 0 THEN <<>> ELSE Step(g[i - 1], i)]
<1>1. n \in Nat
  OBVIOUS
<1>2. <<>> \in S[0]
  <2> DEFINE none == <<>>
             f == [j \in 1 .. 0 |-> 0]
  <2>1. none \in Seq(EntryType) /\ Len(none) = 0
    OBVIOUS
  <2>2. Rest(order, 0) = {}
    BY DEF Rest
  <2>3. Matches(f, none, entries, {})
    BY <2>1 DEF Matches
  <2> HIDE DEF none, f
  <2>4. \E m : Matches(m, none, entries, Rest(order, 0))
    BY <2>2, <2>3
  <2>5. none \in S[0]
    BY <1>1, <2>1, <2>4
  <2>6. QED
    BY <2>5 DEF none
<1> HIDE DEF n
<1>3. \A i \in 1 .. n : \A w \in S[i - 1] : w \in Seq(EntryType) /\ Step(w, i) \in S[i]
  <2> SUFFICES ASSUME NEW i \in 1 .. n, NEW w \in S[i - 1]
               PROVE  w \in Seq(EntryType) /\ Step(w, i) \in S[i]
    OBVIOUS
  <2>1. i - 1 \in 0 .. n /\ i \in 0 .. n
    BY <1>1
  <2>2. w \in Seq(EntryType) /\ \E f : Matches(f, w, entries, Rest(order, i - 1))
    BY <2>1
  <2>3. CASE i \in Range(order)
    <3>1. Rest(order, i) = Rest(order, i - 1)
      BY <1>1, <2>3 DEF Rest
    <3>2. Step(w, i) = w
      BY <2>3
    <3>3. QED
      BY <2>1, <2>2, <3>1, <3>2
  <2>4. CASE i \notin Range(order)
    <3> DEFINE e == next(i)
               y == Append(w, e)
    <3>1. entries[i] \in EntryType /\ i \in 1 .. Len(entries)
      BY DEF n
    <3>2. e \in EntryType /\ e.addr = entries[i].addr
      BY <3>1, EntryWaitIsNoKind
    <3> HIDE DEF e
    <3>3. \E f : Matches(f, y, entries, Rest(order, i))
      BY <2>2, <2>4, <3>1, <3>2, RemainingStep
    <3>4. y \in Seq(EntryType)
      BY <2>2, <3>2
    <3> HIDE DEF y
    <3>5. y \in S[i]
      BY <2>1, <3>3, <3>4
    <3>6. Step(w, i) = y
      BY <2>4 DEF y, e
    <3>7. QED
      BY <2>2, <3>5, <3>6
  <2>5. QED
    BY <2>3, <2>4
<1>4. \A w \in S[n] : w \in Seq(EntryType) /\ \E f : Matches(f, w, entries, Rest(order, n))
  BY <1>1
<1> HIDE DEF S, Step
<1>5. \E f : f = Turn(f)
  <2>1. \A i \in 1 .. n : \A w \in S[i - 1] : F[<<w, i>>] = Step(w, i)
    BY <1>3
  <2> HIDE DEF F
  <2>2. Passes(n, S, F)
    <3> SUFFICES ASSUME NEW turn \in 1 .. n, NEW old \in S[turn - 1]
                 PROVE  F[<<old, turn>>] \in S[turn]
      BY DEF Passes
    <3>1. QED
      BY <1>3, <2>1
  <2>3. PICK f : Run(f, n, <<>>, S, F)
    BY <1>1, <1>2, <2>2, LoopRuns
  <2>4. f = [i \in 0 .. n |-> f[i]] /\ f[0] = <<>>
    BY <2>3 DEF Run
  <2>5. ASSUME NEW i \in 1 .. n PROVE f[i] = Step(f[i - 1], i)
    <3>1. i - 1 \in 0 .. n
      BY <1>1
    <3>2. f[i - 1] \in S[i - 1] /\ f[i] = F[<<f[i - 1], i>>]
      BY <2>3, <3>1 DEF Run
    <3>3. QED
      BY <2>1, <3>2
  <2>6. ASSUME NEW i \in 0 .. n PROVE f[i] = IF i = 0 THEN <<>> ELSE Step(f[i - 1], i)
    <3>1. i = 0 \/ (i # 0 /\ i \in 1 .. n)
      BY <1>1
    <3>2. QED
      BY <2>4, <2>5, <3>1
  <2>7. f = Turn(f)
    BY <2>4, <2>6
  <2>8. QED
    BY <2>7
<1> DEFINE left == CHOOSE f : f = Turn(f)
<1>6. left = Turn(left)
  BY <1>5
<1>7. Remaining(entries, order) = left[n]
  BY DEF Remaining, Step, n
<1> HIDE DEF left
<1>8. left[0] = <<>> /\ \A i \in 1 .. n : left[i] = Step(left[i - 1], i)
  BY <1>1, <1>6
<1>9. Keeps(left, n, S)
  BY <1>3, <1>8 DEF Keeps
<1>10. \A i \in 0 .. n : left[i] \in S[i]
  BY <1>1, <1>2, <1>8, <1>9, LoopKeeps
<1>11. left[n] \in Seq(EntryType) /\ \E f : Matches(f, left[n], entries, Rest(order, n))
  <2>1. n \in 0 .. n
    BY <1>1
  <2>2. QED
    BY <1>4, <1>10, <2>1
<1>12. QED
  BY <1>7, <1>11 DEF n

(* B is what the vaults, which held C, have left when done is returned.    *)
Left(B, C, done) ==
    \A v \in Vaults : /\ done[v] \in Seq(Nat)
                      /\ \E f : Matches(f, B[v], C[v], Rest(done[v], Len(C[v])))

(* What the vaults keep is what they have not returned.                    *)
LEMMA KeptCount ==
    ASSUME NEW C \in Queues(Vaults, EntryType), NEW B \in Queues(Vaults, EntryType), NEW done,
           Left(B, C, done), NEW a \in Addr
    PROVE  Num(B, OfAddr(a)) = Cardinality(Pos(C, OfAddr(a)) \ Gone(done, channels))
<1> DEFINE M == OfAddr(a)
           A == Pos(B, M)
           Z == Pos(C, M) \ Gone(done, channels)
           fs == [v \in Vaults |-> CHOOSE f : Matches(f, B[v], C[v], Rest(done[v], Len(C[v])))]
           to(z) == <<z[1], fs[z[1]][z[2]]>>
           g == [z \in A |-> to(z)]
<1>1. \A v \in Vaults : Matches(fs[v], B[v], C[v], Rest(done[v], Len(C[v])))
  BY DEF Left
<1>15. \A v \in Vaults : done[v] \in Seq(Nat)
  BY DEF Left
<1> HIDE DEF fs
<1>2. \A k, i : <<k, i>> \in A <=> k \in Vaults /\ i \in 1 .. Len(B[k]) /\ B[k][i].addr = a
  <2> SUFFICES ASSUME NEW k, NEW i
               PROVE  <<k, i>> \in A <=> k \in Vaults /\ i \in 1 .. Len(B[k]) /\ B[k][i].addr = a
    OBVIOUS
  <2>1. <<k, i>> \in A <=> k \in Vaults /\ i \in 1 .. Len(B[k]) /\ B[k][i] \in M
    BY InPos
  <2>2. k \in Vaults /\ i \in 1 .. Len(B[k]) => (B[k][i] \in M <=> B[k][i].addr = a)
    BY DEF Queues, OfAddr, Parcels
  <2>3. QED
    BY <2>1, <2>2
<1>3. \A k, i : <<k, i>> \in Z <=> /\ k \in Vaults /\ i \in Rest(done[k], Len(C[k]))
                                   /\ C[k][i].addr = a
  <2> SUFFICES ASSUME NEW k, NEW i
               PROVE  <<k, i>> \in Z <=> /\ k \in Vaults /\ i \in Rest(done[k], Len(C[k]))
                                         /\ C[k][i].addr = a
    OBVIOUS
  <2>1. <<k, i>> \in Pos(C, M) <=> k \in Vaults /\ i \in 1 .. Len(C[k]) /\ C[k][i] \in M
    BY InPos
  <2>2. k \in Vaults /\ i \in 1 .. Len(C[k]) => (C[k][i] \in M <=> C[k][i].addr = a)
    BY DEF Queues, OfAddr, Parcels
  <2>3. <<k, i>> \in Gone(done, channels)
          <=> k \in Vaults /\ i \in Nat /\ \E j \in 1 .. Len(done[k]) : i = done[k][j]
    <3>1. k \in Vaults => k < channels
      BY LinksAssumption DEF Vaults
    <3>2. QED
      BY <3>1 DEF Gone
  <2>4. k \in Vaults => (i \in Range(done[k]) <=> \E j \in 1 .. Len(done[k]) : i = done[k][j])
    <3> SUFFICES ASSUME k \in Vaults
                 PROVE  i \in Range(done[k]) <=> \E j \in 1 .. Len(done[k]) : i = done[k][j]
      OBVIOUS
    <3>1. DOMAIN done[k] = 1 .. Len(done[k])
      BY <1>15
    <3>2. QED
      BY <3>1 DEF Range
  <2>5. k \in Vaults => Len(C[k]) \in Nat
    BY DEF Queues
  <2>6. QED
    BY <2>1, <2>2, <2>3, <2>4, <2>5 DEF Rest
<1>4. \A z \in A : z = <<z[1], z[2]>>
  BY InPos
<1>5. \A z \in Z : z = <<z[1], z[2]>>
  BY InPos
<1> HIDE DEF A, Z, M
<1>6. \A z \in A : /\ z[1] \in Vaults /\ z[2] \in 1 .. Len(B[z[1]]) /\ B[z[1]][z[2]].addr = a
                   /\ fs[z[1]][z[2]] \in Rest(done[z[1]], Len(C[z[1]]))
                   /\ B[z[1]][z[2]].addr = C[z[1]][fs[z[1]][z[2]]].addr
  <2> SUFFICES ASSUME NEW z \in A
               PROVE  /\ z[1] \in Vaults /\ z[2] \in 1 .. Len(B[z[1]]) /\ B[z[1]][z[2]].addr = a
                      /\ fs[z[1]][z[2]] \in Rest(done[z[1]], Len(C[z[1]]))
                      /\ B[z[1]][z[2]].addr = C[z[1]][fs[z[1]][z[2]]].addr
    OBVIOUS
  <2>1. z[1] \in Vaults /\ z[2] \in 1 .. Len(B[z[1]]) /\ B[z[1]][z[2]].addr = a
    BY <1>2, <1>4
  <2>2. QED
    BY <1>1, <2>1 DEF Matches
<1>7. \A z \in A : to(z) \in Z
  BY <1>3, <1>6
<1>8. \A y, z \in A : to(y) = to(z) => y = z
  <2> SUFFICES ASSUME NEW y \in A, NEW z \in A, to(y) = to(z) PROVE y = z
    OBVIOUS
  <2>1. y[1] = z[1] /\ fs[y[1]][y[2]] = fs[z[1]][z[2]]
    OBVIOUS
  <2>2. y[2] = z[2]
    BY <1>1, <1>6, <2>1 DEF Matches
  <2>3. QED
    BY <1>4, <2>1, <2>2
<1>9. \A z \in Z : \E y \in A : to(y) = z
  <2> SUFFICES ASSUME NEW z \in Z PROVE \E y \in A : to(y) = z
    OBVIOUS
  <2> DEFINE v == z[1]
  <2>1. z = <<v, z[2]>> /\ v \in Vaults /\ z[2] \in Rest(done[v], Len(C[v])) /\ C[v][z[2]].addr = a
    BY <1>3, <1>5
  <2> HIDE DEF v
  <2>7. Matches(fs[v], B[v], C[v], Rest(done[v], Len(C[v])))
    BY <1>1, <2>1
  <2>8. /\ \A r \in Rest(done[v], Len(C[v])) : \E j \in 1 .. Len(B[v]) : fs[v][j] = r
        /\ \A j \in 1 .. Len(B[v]) : B[v][j].addr = C[v][fs[v][j]].addr
    BY ONLY <2>7 DEF Matches
  <2>2. PICK j \in 1 .. Len(B[v]) : fs[v][j] = z[2]
    BY <2>1, <2>8
  <2>3. B[v][j].addr = a
    BY <2>1, <2>2, <2>8
  <2>4. <<v, j>> \in A
    BY <1>2, <2>1, <2>3
  <2>5. to(<<v, j>>) = z
    BY <2>1, <2>2
  <2>6. QED
    BY <2>4, <2>5
<1>10. g \in Bijection(A, Z)
  <2>1. g \in [A -> Z] /\ DOMAIN g = A /\ \A z \in A : g[z] = to(z)
    BY <1>7
  <2> HIDE DEF g, to
  <2>2. QED
    BY <1>8, <1>9, <2>1 DEF Bijection, Injection, Surjection, IsInjective
<1>11. ExistsBijection(A, Z)
  BY <1>10 DEF ExistsBijection
<1>12. IsFiniteSet(A)
  BY SideCounts, SidesFinite DEF A
<1>13. Cardinality(Z) = Cardinality(A)
  BY <1>11, <1>12, FS_Bijection
<1>14. QED
  BY <1>13 DEF Num, A, Z, M

(* The choices the model leaves to the vaults are positions, each once.    *)
LEMMA ReturnsOk ==
    ASSUME NEW s, s \in StateType, NEW done \in Returns(s)
    PROVE  DoneOk(s, done)
<1> SUFFICES ASSUME NEW v \in Vaults
             PROVE  /\ done[v] \in Seq(1 .. Len(s.ctrls_[v]))
                    /\ \A i, j \in 1 .. Len(done[v]) : done[v][i] = done[v][j] => i = j
  BY DEF DoneOk
<1> DEFINE order == done[v]
           entries == s.ctrls_[v]
<1>1. order \in ReturnOrders /\ MayReturn(entries, order)
  BY DEF Returns
<1>2. order \in SeqOf(1 .. VaultDepth, VaultDepth) /\ IsInjective(order)
  BY <1>1 DEF ReturnOrders
<1> HIDE DEF order, entries
<1>3. PICK m \in 0 .. VaultDepth : order \in [1 .. m -> 1 .. VaultDepth]
  BY <1>2 DEF SeqOf
<1>4. m \in Nat /\ DOMAIN order = 1 .. m
  BY <1>3, LinksAssumption
<1>5. \A i \in 1 .. m : order[i] \in DOMAIN entries
  BY <1>1, <1>4 DEF MayReturn, Range
<1>6. DOMAIN entries = 1 .. Len(entries)
  <2>1. s.ctrls_ \in Queues(Vaults, EntryType)
    BY StateFields
  <2>2. s.ctrls_[v] \in Seq(EntryType)
    BY <2>1 DEF Queues
  <2>3. QED
    BY <2>2 DEF entries
<1>7. order \in [1 .. m -> 1 .. Len(entries)]
  BY <1>3, <1>5, <1>6
<1>8. order \in Seq(1 .. Len(entries)) /\ Len(order) = m
  BY <1>4, <1>7
<1>9. \A i, j \in 1 .. m : order[i] = order[j] => i = j
  BY <1>2, <1>4 DEF IsInjective
<1>10. QED
  BY <1>8, <1>9 DEF order, entries

LEMMA DRAMClockTickOk ==
    ASSUME NEW s, Sound(s), NEW done, DoneOk(s, done), NEW full
    PROVE  LET u == DRAMClockTick(s, done, full)
           IN  Sound(u) /\ SameDue(s, u) /\ u.lead = s.lead
<1> DEFINE u == DRAMClockTick(s, done, full)
           w == FromVaults(s, done)
           C == s.ctrls_
           B == [v \in Vaults |-> Remaining(C[v], done[v])]
           new == [v \in Vaults |-> IF v \in full THEN s.full[v] + 1 ELSE 0]
           D == Gone(done, channels)
<1>1. Sent(s, w, D)
  BY FromVaultsOk
<1>2. u = [w EXCEPT !.ctrls_ = [v \in Vaults |-> Remaining(w.ctrls_[v], done[v])],
                    !.full = [v \in Vaults |-> IF v \in full THEN w.full[v] + 1 ELSE 0]]
  BY DEF DRAMClockTick
<1> HIDE DEF w, u, D
<1>3. /\ w \in StateType /\ QueuesOk(w) /\ SameDue(s, w)
      /\ w.lead = s.lead /\ w.ctrls_ = s.ctrls_ /\ w.full = s.full
      /\ w.link_req_queues_ = s.link_req_queues_ /\ w.quad_req_queues_ = s.quad_req_queues_
      /\ \A a \in Addr : Len(w.resp_lookup_table_[a])
                           = Num(s.link_req_queues_, OfAddr(a)) + Num(s.quad_req_queues_, OfAddr(a))
                             + Cardinality(Kept(s, D, a))
  BY <1>1 DEF Sent
<1>4. u = [w EXCEPT !.ctrls_ = B, !.full = new]
  BY <1>2, <1>3
<1>5. s \in StateType /\ VaultRouted(C) /\ C \in Queues(Vaults, EntryType) /\ s.full \in [Vaults -> Nat]
  BY StateFields DEF Sound
<1>6. \A v \in Vaults : /\ C[v] \in Seq(EntryType) /\ B[v] \in Seq(EntryType)
                        /\ \E f : Matches(f, B[v], C[v], Rest(done[v], Len(C[v])))
  <2> SUFFICES ASSUME NEW v \in Vaults
               PROVE  /\ C[v] \in Seq(EntryType) /\ B[v] \in Seq(EntryType)
                      /\ \E f : Matches(f, B[v], C[v], Rest(done[v], Len(C[v])))
    OBVIOUS
  <2>1. C[v] \in Seq(EntryType) /\ B[v] = Remaining(C[v], done[v])
    BY <1>5 DEF Queues
  <2> HIDE DEF C, B
  <2>2. /\ Remaining(C[v], done[v]) \in Seq(EntryType)
        /\ \E f : Matches(f, Remaining(C[v], done[v]), C[v], Rest(done[v], Len(C[v])))
    BY <2>1, RemainingOk
  <2>3. QED
    BY <2>1, <2>2
<1>7. B \in Queues(Vaults, EntryType)
  BY <1>6 DEF Queues
<1>8. new \in [Vaults -> Nat]
  BY <1>5
<1> HIDE DEF B, new
<1>9. /\ u \in StateType /\ u.ctrls_ = B /\ u.lead = w.lead
      /\ u.link_req_queues_ = w.link_req_queues_ /\ u.quad_req_queues_ = w.quad_req_queues_
      /\ u.link_resp_queues_ = w.link_resp_queues_ /\ u.quad_resp_queues_ = w.quad_resp_queues_
      /\ u.resp_lookup_table_ = w.resp_lookup_table_ /\ u.callbacks = w.callbacks
      /\ u.link_age_counter_ = w.link_age_counter_ /\ u.quad_age_counter_ = w.quad_age_counter_
  BY <1>3, <1>4, <1>7, <1>8 DEF StateType
<1>10. QueuesOk(u)
  BY <1>3, <1>9 DEF QueuesOk
<1>11. VaultRouted(B)
  <2> SUFFICES ASSUME NEW v \in Vaults, NEW j \in 1 .. Len(B[v])
               PROVE  GetChannel[B[v][j].addr] = v
    BY DEF VaultRouted
  <2>1. PICK f : Matches(f, B[v], C[v], Rest(done[v], Len(C[v])))
    BY <1>6
  <2>2. f[j] \in 1 .. Len(C[v]) /\ B[v][j].addr = C[v][f[j]].addr
    BY <2>1 DEF Matches, Rest
  <2>3. QED
    BY <1>5, <2>2 DEF VaultRouted
<1>12. Paired(u)
  <2> SUFFICES ASSUME NEW a \in Addr PROVE Len(u.resp_lookup_table_[a]) = OnTheWay(u, a)
    BY DEF Paired
  <2>1. \A v \in Vaults : done[v] \in Seq(Nat)
    <3> SUFFICES ASSUME NEW v \in Vaults PROVE done[v] \in Seq(Nat)
      OBVIOUS
    <3>1. done[v] \in Seq(1 .. Len(C[v])) /\ Len(C[v]) \in Nat
      BY <1>6 DEF DoneOk
    <3>2. QED
      BY <3>1
  <2> HIDE DEF C
  <2>2. Num(B, OfAddr(a)) = Cardinality(Kept(s, D, a))
    <3>1. Left(B, C, done)
      BY <1>6, <2>1 DEF Left
    <3>2. C \in Queues(Vaults, EntryType)
      BY <1>5
    <3>3. Num(B, OfAddr(a)) = Cardinality(Pos(C, OfAddr(a)) \ Gone(done, channels))
      BY <1>7, <3>1, <3>2, KeptCount
    <3>4. QED
      BY <3>3 DEF Kept, D, C
  <2>3. QED
    BY <1>3, <1>9, <2>2 DEF OnTheWay
<1>13. SameDue(s, u)
  BY <1>3, <1>9 DEF SameDue, Due
<1>14. QED
  BY <1>3, <1>9, <1>10, <1>11, <1>12, <1>13 DEF Sound, u

-----------------------------------------------------------------------------
(* The clocks.                                                             *)

LEMMA ClockRates ==
    /\ ps_per_dram_ = 800 /\ ps_per_logic_ \in 1 .. 800
    /\ LogicPeriod \in Nat /\ LogicPeriod > 0
<1> DEFINE per == 128 \div link_width
           rate == link_speed \div per
           ps == 1000000 \div rate
<1>1. link_width \in 1 .. 128 /\ link_speed \in Nat /\ rate > 0 /\ ps_per_logic_ > 0
  BY ClockAssumption
<1>2. per \in Nat /\ per > 0
  BY <1>1
<1>3. rate \in Int
  <2> HIDE DEF per
  <2>1. QED
    BY <1>1, <1>2
<1>4. ps \in Int
  <2> HIDE DEF rate
  <2>1. QED
    BY <1>1, <1>3
<1>5. ps_per_logic_ = IF ps > 800 THEN 800 ELSE ps
  BY DEF ps_per_logic_, ps_per_dram_
<1> HIDE DEF ps
<1>6. ps_per_logic_ \in 1 .. 800
  BY <1>1, <1>4, <1>5
<1>7. LogicPeriod \in Nat /\ LogicPeriod > 0
  BY LinksAssumption DEF LogicPeriod
<1>8. QED
  BY <1>6, <1>7 DEF ps_per_dram_

(* The packets of a queue come closer to its exit.                         *)
Closer(queue) ==
    [i \in DOMAIN queue |-> [queue[i] EXCEPT !.wait = IF @ > 0 THEN @ - 1 ELSE 0]]

CloserAll(Q, K) == [k \in K |-> Closer(Q[k])]

LEMMA CloserOk ==
    ASSUME NEW K, NEW Q \in Queues(K, PacketType)
    PROVE  LET R == CloserAll(Q, K)
           IN  /\ R \in Queues(K, PacketType)
               /\ \A k \in K : Len(R[k]) = Len(Q[k])
               /\ \A k \in K : \A i \in 1 .. Len(Q[k]) : R[k][i].addr = Q[k][i].addr
               /\ \A M \in Kinds : Num(R, M) = Num(Q, M)
<1> DEFINE R == CloserAll(Q, K)
           one(p) == [p EXCEPT !.wait = IF @ > 0 THEN @ - 1 ELSE 0]
<1>1. ASSUME NEW p \in PacketType
      PROVE  /\ one(p) \in PacketType /\ one(p).addr = p.addr
             /\ \A M \in Kinds : one(p) \in M <=> p \in M
  <2> DEFINE w == IF p.wait > 0 THEN p.wait - 1 ELSE 0
  <2>1. w \in Nat
    BY DEF PacketType
  <2>2. one(p) = [p EXCEPT !.wait = w]
    OBVIOUS
  <2> HIDE DEF w, one
  <2>3. QED
    BY <2>1, <2>2, WaitIsNoKind
<1>2. ASSUME NEW k \in K
      PROVE  /\ R[k] \in Seq(PacketType) /\ Len(R[k]) = Len(Q[k])
             /\ \A i \in 1 .. Len(Q[k]) : Q[k][i] \in PacketType /\ R[k][i] = one(Q[k][i])
  <2> DEFINE n == Len(Q[k])
  <2>1. Q[k] \in Seq(PacketType) /\ n \in Nat /\ DOMAIN Q[k] = 1 .. n
    BY DEF Queues
  <2>2. \A i \in 1 .. n : Q[k][i] \in PacketType
    BY <2>1
  <2> HIDE DEF n
  <2>3. R[k] = [i \in 1 .. n |-> one(Q[k][i])]
    BY <2>1 DEF CloserAll, Closer
  <2> HIDE DEF R, one
  <2>4. \A i \in 1 .. n : one(Q[k][i]) \in PacketType
    BY <1>1, <2>2
  <2>5. R[k] \in [1 .. n -> PacketType] /\ \A i \in 1 .. n : R[k][i] = one(Q[k][i])
    BY <2>3, <2>4
  <2>6. R[k] \in Seq(PacketType) /\ Len(R[k]) = n
    BY <2>1, <2>5
  <2>7. QED
    BY <2>2, <2>5, <2>6 DEF n
<1>3. R = [k \in K |-> R[k]]
  BY DEF CloserAll
<1> HIDE DEF R, one
<1>4. R \in Queues(K, PacketType)
  BY <1>2, <1>3 DEF Queues
<1>5. \A k \in K : \A i \in 1 .. Len(Q[k]) :
        R[k][i].addr = Q[k][i].addr /\ \A M \in Kinds : Q[k][i] \in M <=> R[k][i] \in M
  BY <1>1, <1>2
<1>6. \A M \in Kinds : Num(R, M) = Num(Q, M)
  <2> SUFFICES ASSUME NEW M \in Kinds PROVE Pos(R, M) = Pos(Q, M)
    BY DEF Num
  <2>1. \A k \in K : /\ Len(R[k]) = Len(Q[k])
                     /\ \A i \in 1 .. Len(Q[k]) : Q[k][i] \in M <=> R[k][i] \in M
    BY <1>2, <1>5
  <2>2. QED
    BY <1>4, <2>1, CountAlike
<1>7. QED
  BY <1>2, <1>4, <1>5, <1>6 DEF R

LEMMA LogicElapseOk ==
    ASSUME NEW s, Sound(s)
    PROVE  LET u == LogicElapse(s)
           IN  Sound(u) /\ SameDue(s, u) /\ u.lead = s.lead + ps_per_logic_
<1> DEFINE u == LogicElapse(s)
           Q == CloserAll(s.quad_req_queues_, Quads)
           L == CloserAll(s.link_resp_queues_, Links)
           clk == (s.logic_clk_ + 1) % LogicPeriod
           lead == s.lead + ps_per_logic_
<1>1. s \in StateType /\ QueuesOk(s) /\ VaultRouted(s.ctrls_) /\ Paired(s)
  BY DEF Sound
<1>2. u = [s EXCEPT !.quad_req_queues_ = Q, !.link_resp_queues_ = L,
                    !.logic_clk_ = clk, !.lead = lead]
  BY DEF LogicElapse, CloserAll, Closer
<1>3. /\ s.quad_req_queues_ \in Queues(Quads, PacketType)
      /\ s.link_resp_queues_ \in Queues(Links, PacketType)
      /\ s.logic_clk_ \in 0 .. LogicPeriod - 1 /\ s.lead \in Nat
  BY <1>1, StateFields
<1>4. clk \in 0 .. LogicPeriod - 1 /\ lead \in Nat
  BY <1>3, ClockRates
<1>5. /\ Q \in Queues(Quads, PacketType)
      /\ \A k \in Quads : Len(Q[k]) = Len(s.quad_req_queues_[k])
      /\ \A k \in Quads : \A i \in 1 .. Len(s.quad_req_queues_[k]) :
           Q[k][i].addr = s.quad_req_queues_[k][i].addr
      /\ \A M \in Kinds : Num(Q, M) = Num(s.quad_req_queues_, M)
  BY <1>3, CloserOk
<1>6. /\ L \in Queues(Links, PacketType)
      /\ \A k \in Links : Len(L[k]) = Len(s.link_resp_queues_[k])
      /\ \A M \in Kinds : Num(L, M) = Num(s.link_resp_queues_, M)
  BY <1>3, CloserOk
<1> HIDE DEF u, Q, L, clk, lead
<1>7. /\ u \in StateType /\ u.quad_req_queues_ = Q /\ u.link_resp_queues_ = L /\ u.lead = lead
      /\ u.link_req_queues_ = s.link_req_queues_ /\ u.quad_resp_queues_ = s.quad_resp_queues_
      /\ u.resp_lookup_table_ = s.resp_lookup_table_ /\ u.callbacks = s.callbacks
      /\ u.link_age_counter_ = s.link_age_counter_ /\ u.quad_age_counter_ = s.quad_age_counter_
      /\ u.ctrls_ = s.ctrls_
  BY <1>1, <1>2, <1>4, <1>5, <1>6 DEF StateType
<1>8. QuadRouted(Q) /\ Short(Q, Quads) /\ Short(L, Links)
  BY <1>1, <1>5, <1>6 DEF QueuesOk, QuadRouted, Short
<1>9. QueuesOk(u)
  BY <1>1, <1>7, <1>8 DEF QueuesOk
<1>10. Paired(u)
  <2> SUFFICES ASSUME NEW a \in Addr PROVE OnTheWay(u, a) = OnTheWay(s, a)
    BY <1>1, <1>7 DEF Paired
  <2>1. OfAddr(a) \in Kinds
    BY DEF Kinds
  <2>2. QED
    BY <1>5, <1>7, <2>1 DEF OnTheWay
<1>11. SameDue(s, u)
  <2> SUFFICES ASSUME NEW t \in Transactions PROVE Due(u, t) = Due(s, t)
    BY DEF SameDue
  <2>1. OfKind(t) \in Kinds
    BY DEF Kinds
  <2>2. QED
    BY <1>6, <1>7, <2>1 DEF Due
<1>12. QED
  BY <1>1, <1>7, <1>9, <1>10, <1>11 DEF Sound, u, lead

LEMMA LogicTickOk ==
    ASSUME NEW s, Sound(s)
    PROVE  LET u == LogicTick(s)
           IN  Sound(u) /\ SameDue(s, u) /\ u.lead = s.lead + ps_per_logic_
<1> DEFINE t == DrainResponses(s)
           r == DrainRequests(t)
           u == LogicElapse(r)
<1>1. Sound(t) /\ SameDue(s, t) /\ t.lead = s.lead
  BY DrainResponsesOk
<1> HIDE DEF t
<1>2. Sound(r) /\ SameDue(t, r) /\ r.lead = t.lead
  BY <1>1, DrainRequestsOk
<1> HIDE DEF r
<1>3. Sound(u) /\ SameDue(r, u) /\ u.lead = r.lead + ps_per_logic_
  BY <1>2, LogicElapseOk
<1> HIDE DEF u
<1>4. SameDue(s, u)
  BY <1>1, <1>2, <1>3 DEF SameDue
<1>5. QED
  BY <1>1, <1>2, <1>3, <1>4 DEF LogicTick, t, r, u

(* Several logic cycles.                                                   *)
LEMMA LogicTicksOk ==
    ASSUME NEW s, Sound(s), NEW n \in Nat
    PROVE  LET u == LogicTicks(s, n)
           IN  Sound(u) /\ SameDue(s, u) /\ u.lead = s.lead + n * ps_per_logic_
<1> DEFINE p == ps_per_logic_
           S == [i \in 0 .. n |-> {w \in StateType : /\ Sound(w) /\ SameDue(s, w)
                                                     /\ w.lead = s.lead + i * p}]
           T == StateType \X (1 .. n)
           F == [z \in T |-> LogicTick(z[1])]
           Turn(g) == [i \in 0 .. n |-> IF i = 0 THEN s ELSE LogicTick(g[i - 1])]
<1>1. p \in Nat /\ s \in StateType /\ s.lead \in Nat
  BY ClockRates, StateFields DEF Sound
<1> HIDE DEF p
<1>2. s \in S[0]
  <2>1. SameDue(s, s) /\ s.lead = s.lead + 0 * p
    BY <1>1 DEF SameDue
  <2>2. QED
    BY <1>1, <2>1
<1>3. \A i \in 1 .. n : \A w \in S[i - 1] : w \in StateType /\ LogicTick(w) \in S[i]
  <2> SUFFICES ASSUME NEW i \in 1 .. n, NEW w \in S[i - 1]
               PROVE  w \in StateType /\ LogicTick(w) \in S[i]
    OBVIOUS
  <2> DEFINE u == LogicTick(w)
  <2>1. i - 1 \in 0 .. n /\ i \in 0 .. n /\ i \in Nat
    OBVIOUS
  <2>2. w \in StateType /\ Sound(w) /\ SameDue(s, w) /\ w.lead = s.lead + (i - 1) * p
    BY <2>1
  <2>3. Sound(u) /\ SameDue(w, u) /\ u.lead = w.lead + p
    BY <2>2, LogicTickOk DEF p
  <2> HIDE DEF u
  <2>4. (i - 1) * p + p = i * p /\ (i - 1) * p \in Int
    BY <1>1, <2>1
  <2>5. u.lead = s.lead + i * p
    BY <1>1, <2>2, <2>3, <2>4
  <2>6. u \in StateType /\ SameDue(s, u)
    BY <2>2, <2>3 DEF Sound, SameDue
  <2>7. u \in S[i]
    BY <2>1, <2>3, <2>5, <2>6
  <2>8. QED
    BY <2>2, <2>7 DEF u
<1>4. \A w \in S[n] : Sound(w) /\ SameDue(s, w) /\ w.lead = s.lead + n * p
  <2>1. n \in 0 .. n
    OBVIOUS
  <2>2. QED
    BY <2>1
<1> HIDE DEF S
<1>5. \E f : f = Turn(f)
  <2>1. \A i \in 1 .. n : \A w \in S[i - 1] : F[<<w, i>>] = LogicTick(w)
    BY <1>3
  <2> HIDE DEF F
  <2>2. Passes(n, S, F)
    <3> SUFFICES ASSUME NEW turn \in 1 .. n, NEW old \in S[turn - 1]
                 PROVE  F[<<old, turn>>] \in S[turn]
      BY DEF Passes
    <3>1. QED
      BY <1>3, <2>1
  <2>3. PICK f : Run(f, n, s, S, F)
    BY <1>2, <2>2, LoopRuns
  <2>4. f = [i \in 0 .. n |-> f[i]] /\ f[0] = s
    BY <2>3 DEF Run
  <2>5. ASSUME NEW i \in 1 .. n PROVE f[i] = LogicTick(f[i - 1])
    <3>1. i - 1 \in 0 .. n
      OBVIOUS
    <3>2. f[i - 1] \in S[i - 1] /\ f[i] = F[<<f[i - 1], i>>]
      BY <2>3, <3>1 DEF Run
    <3>3. QED
      BY <2>1, <3>2
  <2>6. ASSUME NEW i \in 0 .. n PROVE f[i] = IF i = 0 THEN s ELSE LogicTick(f[i - 1])
    <3>1. i = 0 \/ (i # 0 /\ i \in 1 .. n)
      OBVIOUS
    <3>2. QED
      BY <2>4, <2>5, <3>1
  <2>7. f = Turn(f)
    BY <2>4, <2>6
  <2>8. QED
    BY <2>7
<1> DEFINE run == CHOOSE f : f = Turn(f)
<1>6. run = Turn(run)
  BY <1>5
<1>7. LogicTicks(s, n) = run[n]
  BY DEF LogicTicks
<1> HIDE DEF run
<1>8. run[0] = s /\ \A i \in 1 .. n : run[i] = LogicTick(run[i - 1])
  BY <1>6
<1>9. Keeps(run, n, S)
  BY <1>3, <1>8 DEF Keeps
<1>10. \A i \in 0 .. n : run[i] \in S[i]
  BY <1>2, <1>8, <1>9, LoopKeeps
<1>11. run[n] \in S[n]
  <2>1. n \in 0 .. n
    OBVIOUS
  <2>2. QED
    BY <1>10, <2>1
<1>12. QED
  BY <1>4, <1>7, <1>11 DEF p

(* The logic cycles of a DRAM cycle bring the logic clock to the first     *)
(* cycle that starts after it.                                             *)
LEMMA CyclesCover ==
    ASSUME NEW p \in Nat \ {0}, NEW k \in Nat
    PROVE  LET n == (k + p - 1) \div p
           IN  n \in Nat /\ n * p - k \in 0 .. p - 1
<1> DEFINE m == k + p - 1
           n == m \div p
           r == m % p
<1>1. m \in Nat
  OBVIOUS
<1> HIDE DEF m
<1>2. n \in Nat /\ r \in 0 .. p - 1
  BY <1>1
<1>3. m = p * n + r
  BY <1>1
<1> HIDE DEF n, r
<1>4. p * n = n * p /\ n * p \in Nat
  BY <1>2
<1>5. n * p - k \in 0 .. p - 1
  <2> DEFINE x == n * p
  <2>1. x \in Nat /\ m = x + r
    BY <1>3, <1>4
  <2> HIDE DEF x
  <2>2. x - k \in 0 .. p - 1
    BY <1>2, <2>1 DEF m
  <2>3. QED
    BY <2>2 DEF x
<1>6. QED
  BY <1>2, <1>5 DEF n, m

(* ClockTick: what is due stays due or is handed out, and the logic clock  *)
(* stays less than one of its cycles ahead.                                *)
LEMMA HMCClockTickOk ==
    ASSUME NEW s, Sound(s), s.lead \in 0 .. ps_per_logic_ - 1,
           NEW done, DoneOk(s, done), NEW full
    PROVE  LET u == HMCClockTick(s, done, full)
           IN  Sound(u) /\ SameDue(s, u) /\ u.lead \in 0 .. ps_per_logic_ - 1
<1> DEFINE p == ps_per_logic_
           first == IF s.lead = 0
                    THEN LogicElapse(DrainRequests(DRAMClockTick(DrainResponses(s), done, full)))
                    ELSE DRAMClockTick(s, done, full)
           ticks == (ps_per_dram_ - first.lead + ps_per_logic_ - 1) \div ps_per_logic_
           w == LogicTicks(first, ticks)
           lead == w.lead - ps_per_dram_
           u == HMCClockTick(s, done, full)
<1>1. p \in 1 .. 800 /\ ps_per_dram_ = 800
  BY ClockRates
<1>2. Sound(first) /\ SameDue(s, first) /\ first.lead \in 1 .. p
  <2>1. CASE s.lead = 0
    <3> DEFINE t == DrainResponses(s)
               d == DRAMClockTick(t, done, full)
               r == DrainRequests(d)
               e == LogicElapse(r)
    <3>1. Sound(t) /\ SameDue(s, t) /\ t.lead = s.lead /\ t.ctrls_ = s.ctrls_
      BY DrainResponsesOk
    <3> HIDE DEF t
    <3>2. DoneOk(t, done)
      BY <3>1 DEF DoneOk
    <3>3. Sound(d) /\ SameDue(t, d) /\ d.lead = t.lead
      BY <3>1, <3>2, DRAMClockTickOk
    <3> HIDE DEF d
    <3>4. Sound(r) /\ SameDue(d, r) /\ r.lead = d.lead
      BY <3>3, DrainRequestsOk
    <3> HIDE DEF r
    <3>5. Sound(e) /\ SameDue(r, e) /\ e.lead = r.lead + p
      BY <3>4, LogicElapseOk
    <3>6. first = e
      BY <2>1 DEF e, r, d, t
    <3> HIDE DEF e, first, p
    <3>7. SameDue(s, e)
      BY <3>1, <3>3, <3>4, <3>5 DEF SameDue
    <3>8. e.lead = p
      BY <1>1, <2>1, <3>1, <3>3, <3>4, <3>5
    <3>9. QED
      BY <1>1, <3>5, <3>6, <3>7, <3>8
  <2>2. CASE s.lead # 0
    <3> DEFINE d == DRAMClockTick(s, done, full)
    <3>1. Sound(d) /\ SameDue(s, d) /\ d.lead = s.lead
      BY DRAMClockTickOk
    <3>2. first = d
      BY <2>2
    <3> HIDE DEF d, first
    <3>3. s.lead \in 1 .. p
      BY <1>1, <2>2
    <3>4. QED
      BY <3>1, <3>2, <3>3
  <2>3. QED
    BY <2>1, <2>2
<1>3. u = [w EXCEPT !.lead = lead]
  BY DEF HMCClockTick
<1> HIDE DEF first, u
<1>4. ticks \in Nat /\ ticks * p - (800 - first.lead) \in 0 .. p - 1
  <2> DEFINE k == 800 - first.lead
  <2>1. k \in Nat /\ p \in Nat \ {0} /\ ticks = (k + p - 1) \div p
    BY <1>1, <1>2
  <2> HIDE DEF k, p, ticks
  <2>2. ticks \in Nat /\ ticks * p - k \in 0 .. p - 1
    BY <2>1, CyclesCover
  <2>3. QED
    BY <2>2 DEF k
<1> HIDE DEF ticks
<1>5. Sound(w) /\ SameDue(first, w) /\ w.lead = first.lead + ticks * p
  BY <1>2, <1>4, LogicTicksOk
<1> HIDE DEF w
<1>6. lead \in 0 .. p - 1 /\ lead \in Nat
  <2> DEFINE x == ticks * p
  <2>1. x \in Int
    BY <1>1, <1>4
  <2> HIDE DEF x, p
  <2>2. x - (800 - first.lead) \in 0 .. p - 1 /\ w.lead = first.lead + x
    BY <1>4, <1>5 DEF x
  <2>3. QED
    BY <1>1, <1>2, <2>1, <2>2
<1> HIDE DEF lead, p
<1>7. w \in StateType
  BY <1>5 DEF Sound
<1>8. /\ u \in StateType /\ u.lead = lead /\ u.ctrls_ = w.ctrls_ /\ u.callbacks = w.callbacks
      /\ u.link_req_queues_ = w.link_req_queues_ /\ u.quad_req_queues_ = w.quad_req_queues_
      /\ u.link_resp_queues_ = w.link_resp_queues_ /\ u.quad_resp_queues_ = w.quad_resp_queues_
      /\ u.resp_lookup_table_ = w.resp_lookup_table_
      /\ u.link_age_counter_ = w.link_age_counter_ /\ u.quad_age_counter_ = w.quad_age_counter_
  BY <1>3, <1>6, <1>7 DEF StateType
<1>9. Sound(u)
  BY <1>5, <1>8 DEF Sound, QueuesOk, Paired, OnTheWay
<1>10. SameDue(s, u)
  BY <1>2, <1>5, <1>8 DEF SameDue, Due
<1>11. QED
  BY <1>6, <1>8, <1>9, <1>10 DEF u, p

-----------------------------------------------------------------------------
(* The operations.                                                         *)

(* The responses like t that are still in the system.                      *)
Waiting(s, t) ==
    Num(s.resp_lookup_table_, OfKind(t)) + Num(s.quad_resp_queues_, OfKind(t))
    + Num(s.link_resp_queues_, OfKind(t))

LEMMA WaitingType ==
    ASSUME NEW s, Sound(s), NEW t \in Transactions
    PROVE  /\ Waiting(s, t) \in Nat /\ s.callbacks[t] \in Nat
           /\ Due(s, t) = Waiting(s, t) + s.callbacks[t]
<1>1. s \in StateType /\ TableRouted(s.resp_lookup_table_)
  BY DEF Sound, QueuesOk
<1>2. s.callbacks[t] \in Nat /\ s.resp_lookup_table_ \in Queues(Addr, PacketType)
  BY <1>1, StateFields
<1>3. Num(s.resp_lookup_table_, OfKind(t)) \in Nat
  BY <1>1, <1>2, TableFinite
<1>4. Num(s.quad_resp_queues_, OfKind(t)) \in Nat /\ Num(s.link_resp_queues_, OfKind(t)) \in Nat
  BY <1>1, CountsFinite
<1>5. QED
  BY <1>2, <1>3, <1>4 DEF Due, Waiting

LEMMA NoCallbacksOk ==
    ASSUME NEW s, Sound(s)
    PROVE  LET u == NoCallbacks(s)
           IN  /\ Sound(u) /\ u.lead = s.lead /\ u.ctrls_ = s.ctrls_
               /\ u.next_link_ = s.next_link_ /\ u.link_req_queues_ = s.link_req_queues_
               /\ u.callbacks = [t \in Transactions |-> 0]
               /\ \A t \in Transactions : Waiting(u, t) = Waiting(s, t)
<1> DEFINE u == NoCallbacks(s)
           none == [t \in Transactions |-> 0]
<1>1. s \in StateType /\ none \in [Transactions -> Nat]
  BY DEF Sound
<1>2. u = [s EXCEPT !.callbacks = none]
  BY DEF NoCallbacks
<1> HIDE DEF u, none
<1>3. /\ u \in StateType /\ u.callbacks = none /\ u.ctrls_ = s.ctrls_ /\ u.lead = s.lead
      /\ u.link_req_queues_ = s.link_req_queues_ /\ u.quad_req_queues_ = s.quad_req_queues_
      /\ u.link_resp_queues_ = s.link_resp_queues_ /\ u.quad_resp_queues_ = s.quad_resp_queues_
      /\ u.resp_lookup_table_ = s.resp_lookup_table_ /\ u.next_link_ = s.next_link_
      /\ u.link_age_counter_ = s.link_age_counter_ /\ u.quad_age_counter_ = s.quad_age_counter_
  BY <1>1, <1>2 DEF StateType
<1>4. Sound(u)
  BY <1>3 DEF Sound, QueuesOk, Paired, OnTheWay
<1>5. \A t \in Transactions : Waiting(u, t) = Waiting(s, t)
  BY <1>3 DEF Waiting
<1>6. QED
  BY <1>3, <1>4, <1>5 DEF u, none

(* The round robin reaches every link.                                     *)
LEMMA LinksReached ==
    ASSUME NEW next \in Links, NEW l \in Links
    PROVE  \E j \in Links : (next + j) % num_links = l
<1> DEFINE n == num_links
<1>1. n \in Nat \ {0} /\ next \in 0 .. n - 1 /\ l \in 0 .. n - 1
  BY LinksAssumption DEF Links
<1> HIDE DEF n
<1>2. CASE next <= l
  <2> DEFINE j == l - next
  <2>1. j \in 0 .. n - 1 /\ next + j = l /\ l % n = l
    BY <1>1, <1>2
  <2> HIDE DEF j
  <2>2. QED
    BY <2>1 DEF Links, n
<1>3. CASE next > l
  <2> DEFINE j == l - next + n
  <2>1. j \in 0 .. n - 1 /\ next + j = l + n
    BY <1>1, <1>3
  <2>2. (l + n) % n = l
    BY <1>1
  <2> HIDE DEF j
  <2>3. QED
    BY <2>1, <2>2 DEF Links, n
<1>4. QED
  BY <1>1, <1>2, <1>3

(* A request enters on a link with room, and its response in the table.    *)
LEMMA InsertReqToLinkOk ==
    ASSUME NEW s, Sound(s), NEW t \in Transactions, NEW link \in Links,
           HasRoom(s.link_req_queues_[link])
    PROVE  LET u == InsertReqToLink(s, t, link)
           IN  /\ Sound(u) /\ u.lead = s.lead /\ u.callbacks = s.callbacks
               /\ \A r \in Transactions :
                    Waiting(u, r) = Waiting(s, r) + (IF r = t THEN 1 ELSE 0)
<1> DEFINE u == InsertReqToLink(s, t, link)
           p == Packet(t, link)
           b == t.addr
           Q == s.link_req_queues_
           T == s.resp_lookup_table_
           Q1 == [Q EXCEPT ![link] = Append(@, p)]
           T1 == [T EXCEPT ![b] = Append(@, p)]
           age == [s.link_age_counter_ EXCEPT ![link] = 1]
<1>1. /\ s \in StateType /\ QueuesOk(s) /\ VaultRouted(s.ctrls_) /\ Paired(s)
      /\ Q \in Queues(Links, PacketType) /\ T \in Queues(Addr, PacketType)
      /\ s.link_age_counter_ \in [Links -> 0 .. MaxAge] /\ TableRouted(T)
  BY StateFields DEF Sound, QueuesOk
<1>2. p \in PacketType /\ p.addr = b /\ p.is_write = t.is_write /\ b \in Addr
  BY DEF Packet, PacketType, Transactions
<1>3. u = [s EXCEPT !.link_req_queues_ = Q1, !.resp_lookup_table_ = T1, !.link_age_counter_ = age]
  BY DEF InsertReqToLink
<1> HIDE DEF p, u, b
<1>4. /\ Q1 \in Queues(Links, PacketType) /\ Q1[link] = Append(Q[link], p)
      /\ \A k \in Links : k # link => Q1[k] = Q[k]
  BY <1>1, <1>2 DEF Queues
<1>5. /\ T1 \in Queues(Addr, PacketType) /\ T1[b] = Append(T[b], p)
      /\ \A a \in Addr : a # b => T1[a] = T[a]
  BY <1>1, <1>2 DEF Queues
<1>6. /\ age \in [Links -> 0 .. MaxAge] /\ age[link] = 1
      /\ \A k \in Links : k # link => age[k] = s.link_age_counter_[k]
  <2>1. 1 \in 0 .. MaxAge
    BY LinksAssumption DEF MaxAge
  <2>2. QED
    BY <1>1, <2>1
<1>7. /\ Q[link] \in Seq(PacketType) /\ T[b] \in Seq(PacketType)
  BY <1>1, <1>2 DEF Queues
<1> HIDE DEF Q1, T1, age
<1>8. /\ u \in StateType /\ u.link_req_queues_ = Q1 /\ u.resp_lookup_table_ = T1
      /\ u.link_age_counter_ = age /\ u.lead = s.lead /\ u.callbacks = s.callbacks
      /\ u.ctrls_ = s.ctrls_ /\ u.quad_req_queues_ = s.quad_req_queues_
      /\ u.link_resp_queues_ = s.link_resp_queues_ /\ u.quad_resp_queues_ = s.quad_resp_queues_
      /\ u.quad_age_counter_ = s.quad_age_counter_
  BY <1>1, <1>3, <1>4, <1>5, <1>6 DEF StateType
<1>9. /\ Len(Q1[link]) = Len(Q[link]) + 1 /\ Len(Q[link]) \in Nat /\ Q1[link] # <<>>
      /\ Len(T1[b]) = Len(T[b]) + 1 /\ Len(T[b]) \in Nat /\ T1[b][Len(T[b]) + 1] = p
      /\ \A i \in 1 .. Len(T[b]) : T1[b][i] = T[b][i]
  BY <1>2, <1>4, <1>5, <1>7
<1>10. Short(Q1, Links)
  <2>1. Len(Q[link]) < xbar_queue_depth /\ xbar_queue_depth \in Nat
    BY LinksAssumption DEF HasRoom
  <2>2. Short(Q, Links)
    BY <1>1 DEF QueuesOk
  <2>3. QED
    BY <1>4, <1>9, <2>1, <2>2 DEF Short
<1>11. AgesMatch(age, Q1, Links)
  <2> SUFFICES ASSUME NEW k \in Links PROVE age[k] > 0 <=> Q1[k] # <<>>
    BY DEF AgesMatch
  <2>1. CASE k = link
    <3>1. age[link] > 0
      BY <1>6
    <3>2. QED
      BY <1>9, <2>1, <3>1
  <2>2. CASE k # link
    BY <1>1, <1>4, <1>6, <2>2 DEF QueuesOk, AgesMatch
  <2>3. QED
    BY <2>1, <2>2
<1>12. TableRouted(T1)
  <2> SUFFICES ASSUME NEW a \in Addr, NEW j \in 1 .. Len(T1[a]) PROVE T1[a][j].addr = a
    BY DEF TableRouted
  <2>1. CASE a = b
    <3>1. j \in 1 .. Len(T[b]) \/ j = Len(T[b]) + 1
      BY <1>9, <2>1
    <3>2. CASE j \in 1 .. Len(T[b])
      <4>1. T1[b][j] = T[b][j]
        BY <1>9, <3>2
      <4>2. T[b][j].addr = b
        BY <1>1, <1>2, <3>2 DEF TableRouted
      <4>3. QED
        BY <2>1, <4>1, <4>2
    <3>3. CASE j = Len(T[b]) + 1
      BY <1>2, <1>9, <2>1, <3>3
    <3>4. QED
      BY <3>1, <3>2, <3>3
  <2>2. CASE a # b
    BY <1>1, <1>5, <2>2 DEF TableRouted
  <2>3. QED
    BY <2>1, <2>2
<1>13. QueuesOk(u)
  BY <1>1, <1>8, <1>10, <1>11, <1>12 DEF QueuesOk
<1>14. Paired(u)
  <2> SUFFICES ASSUME NEW a \in Addr PROVE Len(T1[a]) = OnTheWay(u, a)
    BY <1>8 DEF Paired
  <2> DEFINE M == OfAddr(a)
             one == IF p \in M THEN 1 ELSE 0
  <2>1. /\ IsFiniteSet(Pos(Q, M)) /\ Num(Q, M) \in Nat /\ Num(s.quad_req_queues_, M) \in Nat
        /\ Num(s.ctrls_, M) \in Nat
    BY <1>1, CountsFinite
  <2>2. p \in M <=> a = b
    BY <1>2 DEF OfAddr, Parcels
  <2>3. Len(T[a]) = Num(Q, M) + Num(s.quad_req_queues_, M) + Num(s.ctrls_, M)
    BY <1>1 DEF Paired, OnTheWay
  <2>4. OnTheWay(u, a) = Num(Q1, M) + Num(s.quad_req_queues_, M) + Num(s.ctrls_, M)
    BY <1>8 DEF OnTheWay
  <2> HIDE DEF M, Q
  <2>5. Num(Q1, M) = Num(Q, M) + one
    BY <1>1, <1>2, <1>4, <2>1, PushOne
  <2>6. Len(T1[a]) = Len(T[a]) + one
    <3>1. CASE a = b
      BY <1>9, <2>2, <3>1
    <3>2. CASE a # b
      <4> DEFINE len == Len(T[a])
      <4>1. len \in Nat /\ Len(T1[a]) = len
        BY <1>1, <1>5, <3>2 DEF Queues
      <4>2. one = 0
        BY <2>2, <3>2
      <4> HIDE DEF len, one
      <4>3. Len(T1[a]) = len + one
        BY <4>1, <4>2
      <4>4. QED
        BY <4>3 DEF len
    <3>3. QED
      BY <3>1, <3>2
  <2>7. one \in Nat
    OBVIOUS
  <2> HIDE DEF one, T
  <2>8. QED
    BY <2>1, <2>3, <2>4, <2>5, <2>6, <2>7
<1>15. ASSUME NEW r \in Transactions
       PROVE  Waiting(u, r) = Waiting(s, r) + (IF r = t THEN 1 ELSE 0)
  <2> DEFINE M == OfKind(r)
  <2>1. /\ IsFiniteSet(Pos(T, M)) /\ Num(T, M) \in Nat
        /\ Num(s.link_resp_queues_, M) \in Nat /\ Num(s.quad_resp_queues_, M) \in Nat
    BY <1>1, CountsFinite, TableFinite
  <2>2. p \in M <=> r = t
    <3>1. p \in M <=> b = r.addr /\ t.is_write = r.is_write
      BY <1>2 DEF OfKind, Parcels
    <3>2. b = r.addr /\ t.is_write = r.is_write <=> r = t
      BY DEF Transactions, b
    <3>3. QED
      BY <3>1, <3>2
  <2>5. /\ Waiting(s, r) = Num(T, M) + Num(s.quad_resp_queues_, M) + Num(s.link_resp_queues_, M)
        /\ Waiting(u, r) = Num(T1, M) + Num(s.quad_resp_queues_, M) + Num(s.link_resp_queues_, M)
    BY <1>8 DEF Waiting
  <2> HIDE DEF M, T
  <2>4. Num(T1, M) = Num(T, M) + (IF p \in M THEN 1 ELSE 0)
    BY <1>1, <1>2, <1>5, <2>1, PushOne
  <2>6. QED
    BY <2>1, <2>2, <2>4, <2>5
<1>16. QED
  BY <1>1, <1>8, <1>13, <1>14, <1>15 DEF Sound, u

LEMMA InsertHMCReqOk ==
    ASSUME NEW s, Sound(s), NEW t \in Transactions, WillAcceptTransaction(s)
    PROVE  LET u == InsertHMCReq(s, t)
           IN  /\ Sound(u) /\ u.lead = s.lead /\ u.callbacks = s.callbacks
               /\ \A r \in Transactions :
                    Waiting(u, r) = Waiting(s, r) + (IF r = t THEN 1 ELSE 0)
<1> DEFINE Link(k) == (s.next_link_ + k) % num_links
           J == {j \in Links : HasRoom(s.link_req_queues_[Link(j)])}
           k == Min(J)
           link == Link(k)
           w == InsertReqToLink(s, t, link)
           next == IterateNextLink(link)
           u == InsertHMCReq(s, t)
<1>1. s \in StateType /\ s.next_link_ \in Links /\ num_links \in Nat \ {0}
  BY LinksAssumption, StateFields DEF Sound
<1>2. J \in SUBSET Nat
  BY <1>1 DEF Links
<1>3. J # {}
  <2>1. PICK l \in Links : HasRoom(s.link_req_queues_[l])
    BY DEF WillAcceptTransaction
  <2>2. PICK j \in Links : Link(j) = l
    BY <1>1, LinksReached
  <2>3. j \in J
    BY <2>1, <2>2
  <2>4. QED
    BY <2>3
<1>4. k \in J
  <2> HIDE DEF J
  <2>1. QED
    BY <1>2, <1>3, MinIsLeast
<1>5. u = [w EXCEPT !.next_link_ = next]
  BY DEF InsertHMCReq
<1>6. k \in Links /\ HasRoom(s.link_req_queues_[link])
  BY <1>4
<1> HIDE DEF k, J
<1>7. link \in Links
  <2>1. s.next_link_ + k \in Nat
    BY <1>1, <1>6 DEF Links
  <2>2. QED
    BY <1>1, <2>1 DEF Links
<1> HIDE DEF link
<1>8. next \in Links
  <2>1. link + 1 \in Nat
    BY <1>1, <1>7 DEF Links
  <2>2. QED
    BY <1>1, <2>1 DEF Links, IterateNextLink
<1>9. /\ Sound(w) /\ w.lead = s.lead /\ w.callbacks = s.callbacks
      /\ \A r \in Transactions : Waiting(w, r) = Waiting(s, r) + (IF r = t THEN 1 ELSE 0)
  BY <1>6, <1>7, InsertReqToLinkOk
<1> HIDE DEF w, u, next
<1>10. w \in StateType
  BY <1>9 DEF Sound
<1>11. /\ u \in StateType /\ u.lead = w.lead /\ u.ctrls_ = w.ctrls_ /\ u.callbacks = w.callbacks
       /\ u.link_req_queues_ = w.link_req_queues_ /\ u.quad_req_queues_ = w.quad_req_queues_
       /\ u.link_resp_queues_ = w.link_resp_queues_ /\ u.quad_resp_queues_ = w.quad_resp_queues_
       /\ u.resp_lookup_table_ = w.resp_lookup_table_
       /\ u.link_age_counter_ = w.link_age_counter_ /\ u.quad_age_counter_ = w.quad_age_counter_
  BY <1>5, <1>8, <1>10 DEF StateType
<1>12. Sound(u)
  BY <1>9, <1>11 DEF Sound, QueuesOk, Paired, OnTheWay
<1>13. \A r \in Transactions : Waiting(u, r) = Waiting(w, r)
  BY <1>11 DEF Waiting
<1>14. QED
  BY <1>9, <1>11, <1>12, <1>13 DEF u

-----------------------------------------------------------------------------
(* The counts of the specification.                                        *)

(* CountIn counts positions.                                               *)
LEMMA CountInIs ==
    ASSUME NEW K, NEW S \in SUBSET Parcels, NEW Q \in Queues(K, S), NEW t
    PROVE  CountIn(Q, t) = Num(Q, OfKind(t))
<1> DEFINE Like(p) == p.addr = t.addr /\ p.is_write = t.is_write
           X == UNION {{<<k, i>> : i \in {j \in DOMAIN Q[k] : Like(Q[k][j])}} : k \in DOMAIN Q}
           Y == Pos(Q, OfKind(t))
<1>1. DOMAIN Q = K /\ \A k \in K : Q[k] \in Seq(S) /\ DOMAIN Q[k] = 1 .. Len(Q[k])
  BY DEF Queues
<1>2. \A k \in K : \A i \in 1 .. Len(Q[k]) : Q[k][i] \in OfKind(t) <=> Like(Q[k][i])
  BY <1>1 DEF OfKind
<1>3. \A k, i : <<k, i>> \in Y <=> k \in K /\ i \in 1 .. Len(Q[k]) /\ Q[k][i] \in OfKind(t)
  BY InPos
<1>4. \A k, i : <<k, i>> \in X <=> k \in K /\ i \in 1 .. Len(Q[k]) /\ Like(Q[k][i])
  BY <1>1
<1>5. \A z \in X : z = <<z[1], z[2]>>
  OBVIOUS
<1>6. \A z \in Y : z = <<z[1], z[2]>>
  BY InPos
<1>7. \A k, i : <<k, i>> \in X <=> <<k, i>> \in Y
  <2> HIDE DEF X, Y, Like
  <2>1. QED
    BY <1>2, <1>3, <1>4
<1>8. X = Y
  <2> HIDE DEF X, Y
  <2>1. QED
    BY <1>5, <1>6, <1>7, SamePairs
<1>9. QED
  BY <1>8 DEF CountIn, Num

(* So does CountAt.                                                        *)
LEMMA CountAtIs ==
    ASSUME NEW K, NEW S \in SUBSET Parcels, NEW Q \in Queues(K, S), NEW a
    PROVE  CountAt(Q, a) = Num(Q, OfAddr(a))
<1> DEFINE X == UNION {{<<k, i>> : i \in {j \in DOMAIN Q[k] : Q[k][j].addr = a}} : k \in DOMAIN Q}
           Y == Pos(Q, OfAddr(a))
<1>1. DOMAIN Q = K /\ \A k \in K : Q[k] \in Seq(S) /\ DOMAIN Q[k] = 1 .. Len(Q[k])
  BY DEF Queues
<1>2. \A k \in K : \A i \in 1 .. Len(Q[k]) : Q[k][i] \in OfAddr(a) <=> Q[k][i].addr = a
  BY <1>1 DEF OfAddr
<1>3. \A k, i : <<k, i>> \in Y <=> k \in K /\ i \in 1 .. Len(Q[k]) /\ Q[k][i] \in OfAddr(a)
  BY InPos
<1>4. \A k, i : <<k, i>> \in X <=> k \in K /\ i \in 1 .. Len(Q[k]) /\ Q[k][i].addr = a
  BY <1>1
<1>5. \A z \in X : z = <<z[1], z[2]>>
  OBVIOUS
<1>6. \A z \in Y : z = <<z[1], z[2]>>
  BY InPos
<1>7. \A k, i : <<k, i>> \in X <=> <<k, i>> \in Y
  <2> HIDE DEF X, Y
  <2>1. QED
    BY <1>2, <1>3, <1>4
<1>8. X = Y
  <2> HIDE DEF X, Y
  <2>1. QED
    BY <1>5, <1>6, <1>7, SamePairs
<1>9. QED
  BY <1>8 DEF CountAt, Num

-----------------------------------------------------------------------------
(* The theorems.                                                           *)

(* The inductive invariant: every packet is where its address or its link  *)
(* belongs, the table pairs with the requests on their way, and the logic  *)
(* clock is less than a cycle ahead of the DRAM clock.                     *)
HmcInv == Sound(hmc) /\ hmc.lead \in 0 .. ps_per_logic_ - 1

LEMMA InitSound == Init => HmcInv /\ \A t \in Transactions : Waiting(hmc, t) = 0
<1> SUFFICES ASSUME Init PROVE HmcInv /\ \A t \in Transactions : Waiting(hmc, t) = 0
  OBVIOUS
<1>1. hmc = NewHMC
  BY DEF Init
<1>2. /\ hmc.lead = 0 /\ hmc.logic_clk_ = 0 /\ hmc.next_link_ = 0
      /\ hmc.resp_lookup_table_ = [a \in Addr |-> <<>>]
      /\ hmc.link_req_queues_ = [l \in Links |-> <<>>]
      /\ hmc.link_resp_queues_ = [l \in Links |-> <<>>]
      /\ hmc.quad_req_queues_ = [q \in Quads |-> <<>>]
      /\ hmc.quad_resp_queues_ = [q \in Quads |-> <<>>]
      /\ hmc.link_age_counter_ = [l \in Links |-> 0]
      /\ hmc.quad_age_counter_ = [q \in Quads |-> 0]
      /\ hmc.ctrls_ = [v \in Vaults |-> <<>>]
  BY <1>1 DEF NewHMC
<1>3. MaxAge \in Nat /\ 0 \in Links /\ 0 \in 0 .. LogicPeriod - 1
  BY LinksAssumption, ClockRates DEF MaxAge, Links
<1>4. /\ [a \in Addr |-> <<>>] \in Queues(Addr, PacketType)
      /\ [l \in Links |-> <<>>] \in Queues(Links, PacketType)
      /\ [q \in Quads |-> <<>>] \in Queues(Quads, PacketType)
      /\ [v \in Vaults |-> <<>>] \in Queues(Vaults, EntryType)
  BY DEF Queues
<1>5. /\ [l \in Links |-> 0] \in [Links -> -1 .. 17] /\ [q \in Quads |-> 0] \in [Quads -> -1 .. 17]
      /\ [l \in Links |-> 0] \in [Links -> 0 .. MaxAge]
      /\ [q \in Quads |-> 0] \in [Quads -> 0 .. MaxAge]
      /\ [v \in Vaults |-> 0] \in [Vaults -> Nat]
      /\ [t \in Transactions |-> 0] \in [Transactions -> Nat]
  BY <1>3
<1>6. hmc \in StateType
  BY <1>1, <1>3, <1>4, <1>5 DEF NewHMC, StateType
<1>7. QueuesOk(hmc)
  <2>1. Len(<<>>) = 0 /\ 0 <= xbar_queue_depth /\ ~(0 > 0)
    BY LinksAssumption
  <2>2. /\ \A l \in Links : /\ hmc.link_req_queues_[l] = <<>> /\ hmc.link_resp_queues_[l] = <<>>
                            /\ hmc.link_age_counter_[l] = 0
        /\ \A q \in Quads : /\ hmc.quad_req_queues_[q] = <<>> /\ hmc.quad_resp_queues_[q] = <<>>
                            /\ hmc.quad_age_counter_[q] = 0
        /\ \A a \in Addr : hmc.resp_lookup_table_[a] = <<>>
    BY <1>2
  <2>3. Short(hmc.link_req_queues_, Links) /\ Short(hmc.quad_req_queues_, Quads)
        /\ Short(hmc.link_resp_queues_, Links)
    BY <2>1, <2>2 DEF Short
  <2>4. AgesMatch(hmc.link_age_counter_, hmc.link_req_queues_, Links)
        /\ AgesMatch(hmc.quad_age_counter_, hmc.quad_resp_queues_, Quads)
    BY <2>1, <2>2 DEF AgesMatch
  <2>5. QuadRouted(hmc.quad_req_queues_) /\ TableRouted(hmc.resp_lookup_table_)
    BY <2>2 DEF QuadRouted, TableRouted
  <2>6. QED
    BY <2>3, <2>4, <2>5 DEF QueuesOk
<1>8. VaultRouted(hmc.ctrls_)
  BY <1>2 DEF VaultRouted
<1>9. ASSUME NEW K, NEW Q, Q = [k \in K |-> <<>>], NEW M PROVE Num(Q, M) = 0
  <2>1. Pos(Q, M) = {}
    BY <1>9 DEF Pos
  <2>2. QED
    BY <2>1, FS_EmptySet DEF Num
<1>10. Paired(hmc)
  <2> SUFFICES ASSUME NEW a \in Addr PROVE Len(hmc.resp_lookup_table_[a]) = OnTheWay(hmc, a)
    BY DEF Paired
  <2>1. /\ Num(hmc.link_req_queues_, OfAddr(a)) = 0 /\ Num(hmc.quad_req_queues_, OfAddr(a)) = 0
        /\ Num(hmc.ctrls_, OfAddr(a)) = 0
    BY <1>2, <1>9
  <2>2. Len(hmc.resp_lookup_table_[a]) = 0
    BY <1>2
  <2>3. QED
    BY <2>1, <2>2 DEF OnTheWay
<1>11. \A t \in Transactions : Waiting(hmc, t) = 0
  <2> SUFFICES ASSUME NEW t \in Transactions PROVE Waiting(hmc, t) = 0
    OBVIOUS
  <2>1. /\ Num(hmc.resp_lookup_table_, OfKind(t)) = 0 /\ Num(hmc.quad_resp_queues_, OfKind(t)) = 0
        /\ Num(hmc.link_resp_queues_, OfKind(t)) = 0
    BY <1>2, <1>9
  <2>2. QED
    BY <2>1 DEF Waiting
<1>12. hmc.lead \in 0 .. ps_per_logic_ - 1
  BY <1>2, ClockRates
<1>13. QED
  BY <1>6, <1>7, <1>8, <1>10, <1>11, <1>12 DEF HmcInv, Sound

(* A request is added: it is due, and nothing is handed out.               *)
LEMMA AddTransactionStep ==
    ASSUME HmcInv, NEW t \in Requests, AddTransaction(t)
    PROVE  /\ HmcInv' /\ hmc'.callbacks = [r \in Transactions |-> 0]
           /\ \A r \in Transactions :
                Waiting(hmc', r) = Waiting(hmc, r) + (IF r = t THEN 1 ELSE 0)
<1> DEFINE s == NoCallbacks(hmc)
           u == InsertHMCReq(s, t)
<1>1. t \in Transactions /\ Sound(hmc) /\ hmc.lead \in 0 .. ps_per_logic_ - 1
  BY LinksAssumption DEF HmcInv
<1>2. hmc' = u /\ WillAcceptTransaction(hmc)
  BY DEF AddTransaction
<1>3. /\ Sound(s) /\ s.lead = hmc.lead /\ s.link_req_queues_ = hmc.link_req_queues_
      /\ s.callbacks = [r \in Transactions |-> 0]
      /\ \A r \in Transactions : Waiting(s, r) = Waiting(hmc, r)
  BY <1>1, NoCallbacksOk
<1> HIDE DEF s
<1>4. WillAcceptTransaction(s)
  BY <1>2, <1>3 DEF WillAcceptTransaction
<1>5. /\ Sound(u) /\ u.lead = s.lead /\ u.callbacks = s.callbacks
      /\ \A r \in Transactions : Waiting(u, r) = Waiting(s, r) + (IF r = t THEN 1 ELSE 0)
  BY <1>1, <1>3, <1>4, InsertHMCReqOk
<1> HIDE DEF u
<1>6. HmcInv'
  BY <1>1, <1>2, <1>3, <1>5 DEF HmcInv
<1>7. QED
  BY <1>2, <1>3, <1>5, <1>6

(* A cycle: what is handed out was due, and is no longer.                  *)
LEMMA ClockTickStep ==
    ASSUME HmcInv, ClockTick
    PROVE  /\ HmcInv'
           /\ \A t \in Transactions : /\ hmc'.callbacks[t] \in Nat /\ Waiting(hmc', t) \in Nat
                                      /\ Waiting(hmc', t) + hmc'.callbacks[t] = Waiting(hmc, t)
<1> DEFINE s == NoCallbacks(hmc)
<1>1. Sound(hmc) /\ hmc.lead \in 0 .. ps_per_logic_ - 1
  BY DEF HmcInv
<1>2. PICK done \in Returns(hmc), full \in SUBSET MayBeFull(hmc) :
        hmc' = HMCClockTick(NoCallbacks(hmc), done, full)
  BY DEF ClockTick
<1> DEFINE u == HMCClockTick(s, done, full)
<1>3. DoneOk(hmc, done)
  <2>1. hmc \in StateType
    BY <1>1 DEF Sound
  <2>2. QED
    BY <2>1, ReturnsOk
<1>4. /\ Sound(s) /\ s.lead = hmc.lead /\ s.ctrls_ = hmc.ctrls_
      /\ s.callbacks = [t \in Transactions |-> 0]
      /\ \A t \in Transactions : Waiting(s, t) = Waiting(hmc, t)
  BY <1>1, NoCallbacksOk
<1>5. hmc' = u
  BY <1>2
<1> HIDE DEF s
<1>6. DoneOk(s, done)
  BY <1>3, <1>4 DEF DoneOk
<1>7. Sound(u) /\ SameDue(s, u) /\ u.lead \in 0 .. ps_per_logic_ - 1
  BY <1>1, <1>4, <1>6, HMCClockTickOk
<1> HIDE DEF u
<1>8. HmcInv'
  BY <1>5, <1>7 DEF HmcInv
<1>9. ASSUME NEW t \in Transactions
      PROVE  /\ u.callbacks[t] \in Nat /\ Waiting(u, t) \in Nat
             /\ Waiting(u, t) + u.callbacks[t] = Waiting(hmc, t)
  <2>1. /\ Waiting(u, t) \in Nat /\ u.callbacks[t] \in Nat
        /\ Due(u, t) = Waiting(u, t) + u.callbacks[t]
    BY <1>7, WaitingType
  <2>2. Waiting(s, t) \in Nat /\ Due(s, t) = Waiting(s, t) + s.callbacks[t] /\ s.callbacks[t] = 0
    BY <1>4, WaitingType
  <2>3. Due(u, t) = Due(s, t)
    BY <1>7 DEF SameDue
  <2>4. Waiting(s, t) = Waiting(hmc, t)
    BY <1>4
  <2>5. QED
    BY <2>1, <2>2, <2>3, <2>4
<1>10. QED
  BY <1>5, <1>8, <1>9

LEMMA NextSound == HmcInv /\ [Next]_vars => HmcInv'
<1> SUFFICES ASSUME HmcInv, [Next]_vars PROVE HmcInv'
  OBVIOUS
<1>1. ASSUME NEW t \in Requests, AddTransaction(t) PROVE HmcInv'
  BY <1>1, AddTransactionStep
<1>2. CASE ClockTick
  BY <1>2, ClockTickStep
<1>3. CASE UNCHANGED vars
  BY <1>3 DEF vars, HmcInv
<1>4. QED
  BY <1>1, <1>2, <1>3 DEF Next

LEMMA AlwaysSound == Spec => []HmcInv
<1>1. Init => HmcInv
  BY InitSound
<1>2. QED
  BY <1>1, NextSound, PTL DEF Spec

(* Queues, counters and clocks stay within their bounds: HasRoom is asked  *)
(* wherever a packet enters one of the bounded queues, and the logic clock *)
(* never falls a cycle behind or runs a cycle ahead in ClockTick.          *)
THEOREM HmcTypeCorrect == Spec => []TypeOK
<1>1. HmcInv => TypeOK
  <2> SUFFICES ASSUME HmcInv PROVE TypeOK
    OBVIOUS
  <2>1. Sound(hmc) /\ hmc \in StateType /\ QueuesOk(hmc) /\ hmc.lead \in 0 .. ps_per_logic_ - 1
    BY DEF HmcInv, Sound
  <2>2. /\ hmc.logic_clk_ \in 0 .. LogicPeriod - 1 /\ hmc.next_link_ \in Links
        /\ hmc.link_busy_ \in [Links -> -1 .. 17] /\ hmc.quad_busy_ \in [Quads -> -1 .. 17]
        /\ hmc.link_age_counter_ \in [Links -> 0 .. MaxAge]
        /\ hmc.quad_age_counter_ \in [Quads -> 0 .. MaxAge]
    BY <2>1, StateFields
  <2>3. QED
    BY <2>1, <2>2 DEF TypeOK, QueuesOk, Short
<1>2. QED
  BY <1>1, AlwaysSound, PTL

(* The arbiters of the crossbar never take the first packet of an empty    *)
(* queue and never pass over a queue that holds one.                       *)
THEOREM HmcAgesMatch == Spec => []AgesMatchQueues
<1>1. HmcInv => AgesMatchQueues
  BY DEF HmcInv, Sound, QueuesOk, AgesMatch, AgesMatchQueues
<1>2. QED
  BY <1>1, AlwaysSound, PTL

(* VaultCallback always finds a response under the address of a returned   *)
(* transaction, and no response is left over.                              *)
THEOREM HmcResponses == Spec => []EveryRequestHasResponse
<1>1. HmcInv => EveryRequestHasResponse
  <2> SUFFICES ASSUME HmcInv, NEW a \in Addr
               PROVE  Len(hmc.resp_lookup_table_[a])
                        = CountAt(hmc.link_req_queues_, a) + CountAt(hmc.quad_req_queues_, a)
                          + CountAt(hmc.ctrls_, a)
    BY DEF EveryRequestHasResponse
  <2>1. hmc \in StateType /\ Paired(hmc)
    BY DEF HmcInv, Sound
  <2>2. PacketType \in SUBSET Parcels /\ EntryType \in SUBSET Parcels
    BY DEF Parcels
  <2>3. /\ hmc.link_req_queues_ \in Queues(Links, PacketType)
        /\ hmc.quad_req_queues_ \in Queues(Quads, PacketType)
        /\ hmc.ctrls_ \in Queues(Vaults, EntryType)
    BY <2>1, StateFields
  <2>4. /\ CountAt(hmc.link_req_queues_, a) = Num(hmc.link_req_queues_, OfAddr(a))
        /\ CountAt(hmc.quad_req_queues_, a) = Num(hmc.quad_req_queues_, OfAddr(a))
        /\ CountAt(hmc.ctrls_, a) = Num(hmc.ctrls_, OfAddr(a))
    BY <2>2, <2>3, CountAtIs
  <2>5. QED
    BY <2>1, <2>4 DEF Paired, OnTheWay
<1>2. QED
  BY <1>1, AlwaysSound, PTL

(* What MemoryService sees.                                                *)
AllOutstanding == [t \in Transactions |-> Outstanding(t)]

LEMMA OutstandingIs ==
    ASSUME NEW s \in StateType, NEW t
    PROVE  /\ CountIn(s.resp_lookup_table_, t) + CountIn(s.quad_resp_queues_, t)
              + CountIn(s.link_resp_queues_, t) = Waiting(s, t)
<1>1. PacketType \in SUBSET Parcels
  BY DEF Parcels
<1>2. /\ s.resp_lookup_table_ \in Queues(Addr, PacketType)
      /\ s.quad_resp_queues_ \in Queues(Quads, PacketType)
      /\ s.link_resp_queues_ \in Queues(Links, PacketType)
  BY StateFields
<1>3. /\ CountIn(s.resp_lookup_table_, t) = Num(s.resp_lookup_table_, OfKind(t))
      /\ CountIn(s.quad_resp_queues_, t) = Num(s.quad_resp_queues_, OfKind(t))
      /\ CountIn(s.link_resp_queues_, t) = Num(s.link_resp_queues_, OfKind(t))
  BY <1>1, <1>2, CountInIs
<1>4. QED
  BY <1>3 DEF Waiting

(* For every number of links and vaults the HMC memory system implements   *)
(* MemoryService: each accepted request is handed to a callback exactly    *)
(* once, with its own address and direction, and stays outstanding until   *)
(* then; the look-up by address alone, the two crossings of the crossbar   *)
(* and the order in which vaults return lose and duplicate nothing.        *)
THEOREM HmcImplementsService == Spec => ImplementsService
<1>1. Init => Service!Init
  <2> SUFFICES ASSUME Init PROVE Service!Init
    OBVIOUS
  <2>1. HmcInv /\ \A t \in Transactions : Waiting(hmc, t) = 0
    BY InitSound
  <2>2. hmc \in StateType
    BY <2>1 DEF HmcInv, Sound
  <2>3. \A t \in Transactions : Outstanding(t) = 0
    BY <2>1, <2>2, OutstandingIs DEF Outstanding
  <2>4. hmc.callbacks = [t \in Transactions |-> 0]
    BY DEF Init, NewHMC
  <2>5. QED
    BY <2>3, <2>4 DEF Service!Init, Service!Nothing
<1>2. HmcInv /\ [Next]_vars => [Service!Next]_<<AllOutstanding, hmc.callbacks>>
  <2> SUFFICES ASSUME HmcInv, [Next]_vars
               PROVE  Service!Next \/ UNCHANGED <<AllOutstanding, hmc.callbacks>>
    OBVIOUS
  <2>1. hmc \in StateType /\ hmc' \in StateType
    BY NextSound DEF HmcInv, Sound
  <2>2. \A t \in Transactions : /\ AllOutstanding[t] = Waiting(hmc, t)
                                /\ Waiting(hmc, t) \in Nat
    BY <2>1, OutstandingIs, WaitingType DEF AllOutstanding, Outstanding, HmcInv
  <2>3. AllOutstanding' = [t \in Transactions |-> Waiting(hmc', t)]
    BY <2>1, OutstandingIs DEF AllOutstanding, Outstanding
  <2>4. AllOutstanding = [t \in Transactions |-> AllOutstanding[t]]
    BY DEF AllOutstanding
  <2>5. ASSUME NEW t \in Requests, AddTransaction(t) PROVE Service!Next
    <3>1. /\ hmc'.callbacks = [r \in Transactions |-> 0]
          /\ \A r \in Transactions :
               Waiting(hmc', r) = Waiting(hmc, r) + (IF r = t THEN 1 ELSE 0)
      BY <2>5, AddTransactionStep
    <3>2. t \in Transactions
      BY LinksAssumption
    <3> DEFINE new == [AllOutstanding EXCEPT ![t] = AllOutstanding[t] + 1]
    <3>3. new = [r \in Transactions |-> new[r]]
      BY <2>4
    <3>4. \A r \in Transactions : new[r] = Waiting(hmc', r)
      BY <2>2, <2>4, <3>1, <3>2
    <3> HIDE DEF new
    <3>5. AllOutstanding' = new
      BY <2>3, <3>3, <3>4
    <3>6. Service!Accept(t)
      BY <3>1, <3>5 DEF Service!Accept, Service!Nothing, AllOutstanding, new
    <3>7. QED
      BY <3>2, <3>6 DEF Service!Next
  <2>6. CASE ClockTick
    <3>1. \A t \in Transactions : /\ hmc'.callbacks[t] \in Nat /\ Waiting(hmc', t) \in Nat
                                  /\ Waiting(hmc', t) + hmc'.callbacks[t] = Waiting(hmc, t)
      BY <2>6, ClockTickStep
    <3>2. \A t \in Transactions : /\ hmc'.callbacks[t] \in 0 .. AllOutstanding[t]
                                  /\ Waiting(hmc', t) = AllOutstanding[t] - hmc'.callbacks[t]
      BY <2>2, <3>1
    <3>3. AllOutstanding' = [t \in Transactions |-> AllOutstanding[t] - hmc'.callbacks[t]]
      BY <2>3, <3>2
    <3>4. Service!Cycle
      BY <3>2, <3>3 DEF Service!Cycle, AllOutstanding
    <3>5. QED
      BY <3>4 DEF Service!Next
  <2>7. CASE UNCHANGED vars
    BY <2>7 DEF vars, AllOutstanding, Outstanding
  <2>8. QED
    BY <2>5, <2>6, <2>7 DEF Next
<1>3. QED
  BY <1>1, <1>2, AlwaysSound, PTL DEF Spec, ImplementsService, Service!Spec, AllOutstanding
=============================================================================
