-------------------------- MODULE SignaturesProofs --------------------------
(***************************************************************************)
(* Theorems about Signatures, for any keys and texts: exactly what was     *)
(* written is accepted.  Both sides write one line for one content, and    *)
(* the content can be read off the line.                                   *)
(***************************************************************************)
EXTENDS Signatures, FiniteSetTheorems, SequenceTheorems, WellFoundedInduction, TLAPS

-----------------------------------------------------------------------------
(* Fields in the order of their keys *)

IsFields(C) ==
    /\ IsFiniteSet(C)
    /\ \A f \in C : f[1] \in Int
    /\ \A f, g \in C : f[1] = g[1] => f = g

Rank(C, f) == Cardinality({g \in C : g[1] <= f[1]})

Ascending(order) == \A i, j \in DOMAIN order : i < j => order[i][1] < order[j][1]

\* A field with a greater key has a greater rank, and each rank has a field.
LEMMA Ranks ==
    ASSUME NEW C, IsFields(C)
    PROVE  /\ Cardinality(C) \in Nat
           /\ \A f \in C : Rank(C, f) \in 1..Cardinality(C)
           /\ \A f, g \in C : f[1] < g[1] => Rank(C, f) < Rank(C, g)
           /\ \A i \in 1..Cardinality(C) : \E f \in C : Rank(C, f) = i
<1> DEFINE n == Cardinality(C)
           To(f) == {g \in C : g[1] <= f[1]}
           rank == [f \in C |-> Rank(C, f)]
<1>1. IsFiniteSet(C) /\ n \in Nat
  BY FS_CardinalityType DEF IsFields
<1>2. ASSUME NEW f \in C
      PROVE  /\ IsFiniteSet(To(f)) /\ To(f) \in SUBSET C /\ f \in To(f)
             /\ Rank(C, f) \in 1..n
  <2>1. To(f) \in SUBSET C /\ f \in To(f)
    BY DEF IsFields
  <2>2. IsFiniteSet(To(f)) /\ Cardinality(To(f)) <= n
    BY <1>1, <2>1, FS_Subset
  <2>3. Cardinality(To(f)) \in Nat /\ Cardinality(To(f)) # 0
    BY <2>1, <2>2, FS_CardinalityType, FS_EmptySet
  <2> QED
    BY <1>1, <2>1, <2>2, <2>3 DEF Rank
<1>3. ASSUME NEW f \in C PROVE Rank(C, f) \in 1..n /\ Rank(C, f) \in Int
  <2>1. Rank(C, f) \in 1..n
    BY <1>2
  <2> QED
    BY <1>1, <2>1
<1>4. ASSUME NEW f \in C, NEW g \in C, f[1] < g[1]
      PROVE  Rank(C, f) < Rank(C, g)
  <2>1. To(f) \in SUBSET To(g) /\ g \notin To(f)
    BY <1>4 DEF IsFields
  <2>2. IsFiniteSet(To(g)) /\ g \in To(g)
    BY <1>2
  <2>3. Cardinality(To(f)) <= Cardinality(To(g)) /\ Cardinality(To(f)) # Cardinality(To(g))
    BY <2>1, <2>2, FS_Subset
  <2>4. Rank(C, f) \in Int /\ Rank(C, g) \in Int
    BY <1>3
  <2> QED
    BY <2>3, <2>4 DEF Rank
<1>5. rank \in Injection(C, 1..n)
  <2>1. rank \in [C -> 1..n]
    BY <1>3
  <2>2. ASSUME NEW f \in C, NEW g \in C, rank[f] = rank[g] PROVE f = g
    <3>1. f[1] \in Int /\ g[1] \in Int /\ Rank(C, f) \in Int /\ Rank(C, f) = Rank(C, g)
      BY <1>3, <2>2 DEF IsFields
    <3>2. ~(f[1] < g[1]) /\ ~(g[1] < f[1])
      BY <1>4, <3>1
    <3> QED
      BY <3>1, <3>2 DEF IsFields
  <2> QED
    BY <2>1, <2>2 DEF Injection, IsInjective
<1>6. IsFiniteSet(1..n) /\ Cardinality(1..n) = n
  BY <1>1, FS_Interval
<1>7. rank \in Surjection(C, 1..n)
  BY <1>5, <1>6, FS_Injection
<1>8. \A i \in 1..n : \E f \in C : Rank(C, f) = i
  BY <1>7 DEF Surjection
<1> QED
  BY <1>1, <1>3, <1>4, <1>8

\* In an ascending sequence of all fields every field is at its rank.
LEMMA PlaceIsRank ==
    ASSUME NEW C, IsFields(C), NEW order \in SetToSeqs(C), Ascending(order)
    PROVE  /\ \A i \in 1..Cardinality(C) : Rank(C, order[i]) = i
           /\ \A f \in C : order[Rank(C, f)] = f
<1> DEFINE n == Cardinality(C)
<1>1. n \in Nat /\ IsFiniteSet(C)
  BY Ranks DEF IsFields
<1>2. order \in [1..n -> C] /\ \A i, j \in 1..n : i # j => order[i] # order[j]
  BY DEF SetToSeqs
<1>3. order \in Injection(1..n, C)
  BY <1>2 DEF Injection, IsInjective
<1>4. Cardinality(1..n) = n
  BY <1>1, FS_Interval
<1>5. order \in Surjection(1..n, C)
  BY <1>1, <1>3, <1>4, FS_Injection
<1>6. ASSUME NEW i \in 1..n PROVE Rank(C, order[i]) = i
  <2> DEFINE T == {g \in C : g[1] <= order[i][1]}
             part == [m \in 1..i |-> order[m]]
  <2>1. \A m \in 1..n : order[m][1] \in Int
    BY <1>2 DEF IsFields
  <2>2. \A m \in 1..n : m <= i <=> order[m][1] <= order[i][1]
    <3> TAKE m \in 1..n
    <3>1. m < i => order[m][1] < order[i][1]
      BY <1>2 DEF Ascending
    <3>2. i < m => order[i][1] < order[m][1]
      BY <1>2 DEF Ascending
    <3> QED
      BY <2>1, <3>1, <3>2, <1>1
  <2>3. part \in [1..i -> T]
    BY <1>1, <1>2, <2>2
  <2>4. \A a, b \in 1..i : part[a] = part[b] => a = b
    BY <1>1, <1>2
  <2>5. \A g \in T : \E m \in 1..i : part[m] = g
    <3> TAKE g \in T
    <3>1. PICK m \in 1..n : order[m] = g
      BY <1>5 DEF Surjection
    <3> QED
      BY <1>1, <2>2, <3>1
  <2>6. part \in Bijection(1..i, T)
    BY <2>3, <2>4, <2>5 DEF Bijection, Injection, Surjection, IsInjective
  <2>7. IsFiniteSet(1..i) /\ Cardinality(1..i) = i
    BY <1>1, FS_Interval
  <2>8. Cardinality(T) = i
    BY <2>6, <2>7, FS_Bijection DEF ExistsBijection
  <2> QED
    BY <2>8 DEF Rank
<1>7. ASSUME NEW f \in C PROVE order[Rank(C, f)] = f
  <2>1. PICK i \in 1..n : order[i] = f
    BY <1>5 DEF Surjection
  <2> QED
    BY <1>6, <2>1
<1> QED
  BY <1>6, <1>7

\* So there is one, and InOrder is it.
LEMMA OneOrder ==
    ASSUME NEW C, IsFields(C)
    PROVE  /\ InOrder(C) \in SetToSeqs(C) /\ Ascending(InOrder(C))
           /\ \A order \in SetToSeqs(C) : Ascending(order) => order = InOrder(C)
<1> DEFINE n == Cardinality(C)
           o == [i \in 1..n |-> CHOOSE f \in C : Rank(C, f) = i]
<1>1. \A i \in 1..n : o[i] \in C /\ Rank(C, o[i]) = i
  BY Ranks
<1>2. o \in SetToSeqs(C)
  BY <1>1 DEF SetToSeqs
<1>3. Ascending(o)
  <2> SUFFICES ASSUME NEW i \in 1..n, NEW j \in 1..n, i < j PROVE o[i][1] < o[j][1]
    BY DEF Ascending
  <2>1. o[i][1] \in Int /\ o[j][1] \in Int
    BY <1>1 DEF IsFields
  <2>2. ~(o[j][1] < o[i][1])
    BY <1>1, Ranks
  <2>3. o[j][1] # o[i][1]
    BY <1>1 DEF IsFields
  <2> QED
    BY <2>1, <2>2, <2>3
<1>4. InOrder(C) = CHOOSE order \in SetToSeqs(C) : Ascending(order)
  BY DEF InOrder, Ascending
<1>5. InOrder(C) \in SetToSeqs(C) /\ Ascending(InOrder(C))
  BY <1>2, <1>3, <1>4
<1>6. ASSUME NEW a \in SetToSeqs(C), NEW b \in SetToSeqs(C), Ascending(a), Ascending(b)
      PROVE  a = b
  <2>1. a \in [1..n -> C] /\ b \in [1..n -> C]
    BY DEF SetToSeqs
  <2>2. \A i \in 1..n : a[i] = b[i]
    <3> TAKE i \in 1..n
    <3>1. Rank(C, a[i]) = i /\ a[i] \in C
      BY <1>6, <2>1, PlaceIsRank
    <3>2. b[Rank(C, a[i])] = a[i]
      BY <1>6, <3>1, PlaceIsRank
    <3> QED
      BY <3>1, <3>2
  <2>3. n \in Nat
    BY Ranks
  <2> QED
    BY <2>1, <2>2, <2>3
<1> QED
  BY <1>5, <1>6

\* Keys and their values as fields, the keys of K in their order, and their fields in
\* that order.
FieldsOf(K, v) == {<<k, v[k]>> : k \in K}
Runs(keys, K, n) ==
    /\ keys \in [1..n -> K]
    /\ \A i, j \in 1..n : i < j => keys[i] < keys[j]
    /\ \A k \in K : \E i \in 1..n : keys[i] = k
Row(keys, v, n) == [i \in 1..n |-> <<keys[i], v[keys[i]]>>]

\* What the service makes of its sorted keys is in that order too.
LEMMA KeysInOrder ==
    ASSUME NEW object, NEW K \in SUBSET Int, IsFiniteSet(K), NEW v,
           NEW C, C = FieldsOf(K, v), NEW n, n = Cardinality(K),
           NEW keys, keys = Sorted(object, K)
    PROVE  /\ IsFields(C) /\ Cardinality(C) = n /\ n \in Nat
           /\ Runs(keys, K, n) /\ InOrder(C) = Row(keys, v, n)
<1> USE DEF FieldsOf
<1> DEFINE Rising(order) == \A i, j \in DOMAIN order : i < j => order[i] < order[j]
           field == [k \in K |-> <<k, v[k]>>]
           row == [i \in 1..n |-> <<keys[i], v[keys[i]]>>]
           first == [i \in 1..n |-> InOrder(C)[i][1]]
<1>1. field \in Bijection(K, C)
  BY DEF Bijection, Injection, Surjection, IsInjective
<1>2. IsFiniteSet(C) /\ Cardinality(C) = n /\ n \in Nat
  BY <1>1, FS_Bijection, FS_CardinalityType DEF ExistsBijection
<1>3. IsFields(C)
  BY <1>2 DEF IsFields
<1>4. /\ InOrder(C) \in [1..n -> C]
      /\ \A i, j \in 1..n : i < j => InOrder(C)[i][1] < InOrder(C)[j][1]
  <2>1. InOrder(C) \in SetToSeqs(C) /\ Ascending(InOrder(C))
    BY <1>3, OneOrder
  <2>2. InOrder(C) \in [1..n -> C]
    BY <1>2, <2>1 DEF SetToSeqs
  <2> QED
    BY <2>1, <2>2 DEF Ascending
<1>5. \A f \in C : f[1] \in K
  OBVIOUS
<1>6. first \in SetToSeqs(K) /\ Rising(first)
  <2>1. first \in [1..n -> K]
    BY <1>4, <1>5
  <2>2. \A i, j \in 1..n : i < j => first[i] < first[j]
    BY <1>4
  <2>3. \A i \in 1..n : first[i] \in Int
    BY <2>1
  <2>4. \A i, j \in 1..n : i # j => first[i] # first[j]
    BY <2>2, <2>3, <1>2
  <2> QED
    BY <2>1, <2>2, <2>4 DEF SetToSeqs
<1>7. keys \in SetToSeqs(K) /\ Rising(keys)
  BY <1>6 DEF Sorted
<1>8. /\ keys \in [1..n -> K] /\ \A i, j \in 1..n : i < j => keys[i] < keys[j]
      /\ \A i, j \in 1..n : i # j => keys[i] # keys[j]
  BY <1>7 DEF SetToSeqs
<1>9. row \in SetToSeqs(C) /\ Ascending(row)
  <2>1. row \in [1..n -> C]
    BY <1>8
  <2>2. \A i, j \in 1..n : i # j => row[i] # row[j]
    BY <1>8
  <2>3. row \in SetToSeqs(C)
    <3> HIDE DEF row
    <3>1. Cardinality(C) = n
      BY <1>2
    <3> QED
      BY <2>1, <2>2, <3>1 DEF SetToSeqs
  <2>4. Ascending(row)
    BY <1>8 DEF Ascending
  <2> QED
    BY <2>3, <2>4
<1>10. row = InOrder(C)
  BY <1>3, <1>9, OneOrder
<1>11. ASSUME NEW k \in K PROVE \E i \in 1..n : keys[i] = k
  <2>1. <<k, v[k]>> \in C
    OBVIOUS
  <2>2. PICK i \in 1..n : InOrder(C)[i] = <<k, v[k]>>
    <3>1. InOrder(C) \in SetToSeqs(C) /\ Ascending(InOrder(C))
      BY <1>3, OneOrder
    <3>2. InOrder(C)[Rank(C, <<k, v[k]>>)] = <<k, v[k]>>
      BY <1>3, <2>1, <3>1, PlaceIsRank
    <3>3. Rank(C, <<k, v[k]>>) \in 1..n
      BY <1>2, <1>3, <2>1, Ranks
    <3> QED
      BY <3>2, <3>3
  <2>3. <<keys[i], v[keys[i]]>> = <<k, v[k]>>
    BY <1>10, <2>2
  <2> QED
    BY <2>3
<1> QED
  BY <1>2, <1>3, <1>8, <1>10, <1>11 DEF Runs, Row

-----------------------------------------------------------------------------
(* Lines of parts with an & between them *)

At(parts, k) == IF k % 2 = 1 THEN parts[(k + 1) \div 2] ELSE And
Line(parts, l) == [k \in 1..l |-> At(parts, k)]

\* A line is continued by what comes next in it.
LEMMA LineGoesOn ==
    ASSUME NEW parts, NEW l \in Nat, NEW X, NEW s \in Seq(X),
           \A k \in 1..Len(s) : s[k] = At(parts, l + k)
    PROVE  Line(parts, l) \o s = Line(parts, l + Len(s))
<1> DEFINE j == Len(s)
           S == {At(parts, k) : k \in 1..l + j}
<1>1. j \in Nat /\ s \in [1..j -> X]
  OBVIOUS
<1>2. s \in Seq(S)
  <2>1. \A k \in 1..j : s[k] \in S
    BY <1>1
  <2> QED
    BY <1>1, <2>1
<1>3. Line(parts, l) \in Seq(S) /\ Len(Line(parts, l)) = l
  BY <1>1 DEF Line
<1>4. Line(parts, l + j) \in Seq(S) /\ Len(Line(parts, l + j)) = l + j
  BY <1>1 DEF Line
<1>5. /\ Line(parts, l) \o s \in Seq(S) /\ Len(Line(parts, l) \o s) = l + j
      /\ \A k \in 1..l + j : (Line(parts, l) \o s)[k] =
                                 IF k <= l THEN Line(parts, l)[k] ELSE s[k - l]
  <2> HIDE DEF j, S
  <2> PICK r : r = Line(parts, l)
    OBVIOUS
  <2>1. /\ r \o s \in Seq(S) /\ Len(r \o s) = Len(r) + Len(s)
        /\ \A k \in 1..Len(r) + Len(s) : (r \o s)[k] = IF k <= Len(r) THEN r[k] ELSE s[k - Len(r)]
    BY <1>2, <1>3, ConcatProperties
  <2> QED
    BY <1>3, <2>1 DEF j
<1>6. \A k \in 1..l + j : (Line(parts, l) \o s)[k] = Line(parts, l + j)[k]
  <2> TAKE k \in 1..l + j
  <2>1. CASE k <= l
    BY <1>1, <1>5, <2>1 DEF Line
  <2>2. CASE k > l
    <3>1. k - l \in 1..j /\ l + (k - l) = k
      BY <1>1, <2>2
    <3>2. s[k - l] = At(parts, k)
      BY <3>1
    <3> QED
      BY <1>1, <1>5, <2>2, <3>2 DEF Line
  <2>3. k \in Int /\ (k <= l \/ k > l)
    BY <1>1
  <2> QED
    BY <2>1, <2>2, <2>3
<1> HIDE DEF j, S
<1>7. Line(parts, l) \o s = Line(parts, l + j)
  BY <1>4, <1>5, <1>6, SeqEqual
<1> QED
  BY <1>7 DEF j

\* A set of numbers that is not empty has a least one.
LEMMA LeastNumber ==
    ASSUME NEW A \in SUBSET Nat, A # {}
    PROVE  \E m \in A : \A k \in A : m <= k
<1>1. PICK R : R = OpToRel(<, Nat)
  OBVIOUS
<1>2. \A k, m \in Nat : k < m => <<k, m>> \in R
  BY <1>1 DEF OpToRel
<1>3. IsWellFoundedOn(R, Nat)
  BY <1>1, NatLessThanWellFounded
<1>4. PICK m \in A : \A k \in A : ~(<<k, m>> \in R)
  BY <1>3, WFMin
<1>5. ASSUME NEW k \in A PROVE m <= k
  <2>1. k \in Nat /\ m \in Nat /\ ~(k < m)
    BY <1>2, <1>4
  <2> QED
    BY <2>1
<1> QED
  BY <1>5

Solves(f, seqs, n) == f = [i \in 1..n |-> IF i = 1 THEN seqs[i] ELSE f[i - 1] \o seqs[i]]

\* The recursion of FlattenSeq has a solution.
LEMMA FlatteningExists ==
    ASSUME NEW seqs, NEW n \in Nat
    PROVE  \E f : Solves(f, seqs, n)
<1> DEFINE A == {m \in Nat : ~\E f : Solves(f, seqs, m)}
<1> SUFFICES ASSUME A # {} PROVE FALSE
  OBVIOUS
<1>1. PICK m \in A : \A k \in A : m <= k
  BY LeastNumber
<1>2. CASE m = 0
  <2>1. Solves([i \in 1..0 |-> 0], seqs, 0)
    BY DEF Solves
  <2> QED
    BY <1>2, <2>1
<1>3. CASE m # 0
  <2>1. m \in Nat /\ m - 1 \in Nat /\ m - 1 \notin A
    BY <1>1, <1>3
  <2>2. PICK g : Solves(g, seqs, m - 1)
    BY <2>1
  <2> DEFINE f == [i \in 1..m |-> IF i = 1 THEN seqs[i]
                                  ELSE IF i = m THEN g[m - 1] \o seqs[m] ELSE g[i]]
  <2>3. \A i \in 1..m : f[i] = IF i = 1 THEN seqs[i] ELSE f[i - 1] \o seqs[i]
    <3> TAKE i \in 1..m
    <3>1. \A k \in 1..m - 1 : g[k] = IF k = 1 THEN seqs[k] ELSE g[k - 1] \o seqs[k]
      BY <2>2 DEF Solves
    <3>2. \A k \in 1..m - 1 : f[k] = g[k]
      BY <2>1, <3>1
    <3>3. CASE i = m /\ i # 1
      <4>1. f[m] = g[m - 1] \o seqs[m]
        BY <3>3
      <4>2. m - 1 \in 1..m - 1
        BY <2>1, <3>3
      <4>3. f[m - 1] = g[m - 1]
        BY <3>2, <4>2
      <4> QED
        BY <3>3, <4>1, <4>3
    <3>4. CASE i < m /\ i # 1
      <4>1. i \in 1..m - 1 /\ i - 1 \in 1..m - 1
        BY <2>1, <3>4
      <4>2. f[i] = g[i - 1] \o seqs[i]
        BY <3>1, <3>2, <3>4, <4>1
      <4> QED
        BY <3>2, <3>4, <4>1, <4>2
    <3> QED
      BY <3>3, <3>4
  <2>4. Solves(f, seqs, m)
    BY <2>3 DEF Solves
  <2> QED
    BY <2>4
<1> QED
  BY <1>2, <1>3

\* f[i] is the first i of the sequences, put together one by one.
PutTogether(f, seqs, n) ==
    /\ f[1] = seqs[1]
    /\ \A i \in 2..n : f[i] = f[i - 1] \o seqs[i]

\* FlattenSeq puts its sequences together.
LEMMA Flattening ==
    ASSUME NEW seqs, NEW n \in Nat \ {0}, Len(seqs) = n
    PROVE  \E f : PutTogether(f, seqs, n) /\ FlattenSeq(seqs) = f[n]
<1>1. FlattenSeq(seqs) = (CHOOSE g : Solves(g, seqs, n))[n]
  BY DEF FlattenSeq, Solves
<1>2. PICK f : f = CHOOSE g : Solves(g, seqs, n)
  OBVIOUS
<1>3. Solves(f, seqs, n)
  BY <1>2, FlatteningExists
<1>4. \A i \in 1..n : f[i] = IF i = 1 THEN seqs[i] ELSE f[i - 1] \o seqs[i]
  BY <1>3 DEF Solves
<1>5. f[1] = seqs[1]
  BY <1>4
<1>6. ASSUME NEW i \in 2..n PROVE f[i] = f[i - 1] \o seqs[i]
  <2>1. i \in 1..n /\ i # 1
    OBVIOUS
  <2> QED
    BY <1>4, <2>1
<1>7. PutTogether(f, seqs, n)
  BY <1>5, <1>6 DEF PutTogether
<1> QED
  BY <1>1, <1>2, <1>7

\* Parts and separators alternate.
LEMMA Alternate ==
    ASSUME NEW parts, NEW m \in Nat
    PROVE  At(parts, 2 * m + 1) = parts[m + 1] /\ At(parts, 2 * m + 2) = And
<1>1. (2 * m + 1) % 2 = 1 /\ (2 * m + 1 + 1) \div 2 = m + 1 /\ (2 * m + 2) % 2 = 0
  OBVIOUS
<1> QED
  BY <1>1 DEF At

\* So a line may go on by a part with its separator before or behind it, or without.
LEMMA OnePartMore ==
    ASSUME NEW parts, NEW m \in Nat
    PROVE  /\ Line(parts, 2 * m + 1) \o <<And, parts[m + 2]>> = Line(parts, 2 * m + 3)
           /\ Line(parts, 2 * m) \o <<parts[m + 1], And>> = Line(parts, 2 * m + 2)
           /\ Line(parts, 2 * m) \o <<parts[m + 1]>> = Line(parts, 2 * m + 1)
<1>1. /\ At(parts, 2 * m + 1) = parts[m + 1] /\ At(parts, 2 * m + 2) = And
      /\ At(parts, 2 * m + 3) = parts[m + 2]
  <2>1. m + 1 \in Nat /\ 2 * (m + 1) + 1 = 2 * m + 3 /\ m + 1 + 1 = m + 2
    OBVIOUS
  <2>2. At(parts, 2 * (m + 1) + 1) = parts[m + 1 + 1]
    BY <2>1, Alternate
  <2>3. At(parts, 2 * m + 3) = parts[m + 2]
    BY <2>1, <2>2
  <2> QED
    BY <2>3, Alternate
<1> PICK X : X = {And, parts[m + 1], parts[m + 2]}
  OBVIOUS
<1>2. ASSUME NEW s, s = <<And, parts[m + 2]>>
      PROVE  Line(parts, 2 * m + 1) \o s = Line(parts, 2 * m + 3)
  <2>1. s \in Seq(X) /\ Len(s) = 2 /\ \A k \in 1..Len(s) : s[k] = At(parts, 2 * m + 1 + k)
    BY <1>1, <1>2
  <2> PICK l \in Nat : l = 2 * m + 1
    OBVIOUS
  <2>2. Line(parts, l) \o s = Line(parts, l + Len(s))
    BY <2>1, LineGoesOn
  <2> QED
    BY <2>1, <2>2
<1>3. ASSUME NEW s, s = <<parts[m + 1], And>>
      PROVE  Line(parts, 2 * m) \o s = Line(parts, 2 * m + 2)
  <2>1. s \in Seq(X) /\ Len(s) = 2 /\ \A k \in 1..Len(s) : s[k] = At(parts, 2 * m + k)
    BY <1>1, <1>3
  <2> PICK l \in Nat : l = 2 * m
    OBVIOUS
  <2>2. Line(parts, l) \o s = Line(parts, l + Len(s))
    BY <2>1, LineGoesOn
  <2> QED
    BY <2>1, <2>2
<1>4. ASSUME NEW s, s = <<parts[m + 1]>>
      PROVE  Line(parts, 2 * m) \o s = Line(parts, 2 * m + 1)
  <2>1. s \in Seq(X) /\ Len(s) = 1 /\ \A k \in 1..Len(s) : s[k] = At(parts, 2 * m + k)
    BY <1>1, <1>4
  <2> PICK l \in Nat : l = 2 * m
    OBVIOUS
  <2>2. Line(parts, l) \o s = Line(parts, l + Len(s))
    BY <2>1, LineGoesOn
  <2> QED
    BY <2>1, <2>2
<1> QED
  BY <1>2, <1>3, <1>4

\* What Joined makes is a line.
LEMMA JoinedIsLine ==
    ASSUME NEW n \in Nat, NEW T, NEW parts \in [1..n -> T]
    PROVE  Joined(parts) = Line(parts, 2 * n - 1)
<1> DEFINE pieces == [i \in 1..n |-> IF i = 1 THEN <<parts[i]>> ELSE <<And, parts[i]>>]
<1>1. Joined(parts) = FlattenSeq(pieces) /\ Len(pieces) = n
  BY DEF Joined
<1>2. CASE n = 0
  <2>1. FlattenSeq(pieces) = pieces
    BY <1>1, <1>2 DEF FlattenSeq
  <2>2. pieces = Line(parts, 2 * n - 1)
    BY <1>2 DEF Line
  <2> QED
    BY <1>1, <2>1, <2>2
<1>3. CASE n # 0
  <2>1. PICK f : PutTogether(f, pieces, n) /\ FlattenSeq(pieces) = f[n]
    <3> HIDE DEF pieces
    <3> QED
      BY <1>1, <1>3, Flattening
  <2> DEFINE A == {i \in 1..n : f[i] # Line(parts, 2 * i - 1)}
  <2>2. ASSUME A # {} PROVE FALSE
    <3>1. PICK i \in A : \A k \in A : i <= k
      <4>1. A \subseteq Nat
        OBVIOUS
      <4> QED
        BY <2>2, <4>1, LeastNumber
    <3>2. CASE i = 1
      <4>1. f[1] = <<parts[1]>>
        BY <1>3, <2>1 DEF PutTogether
      <4>2. At(parts, 1) = parts[1]
        BY DEF At
      <4>3. Line(parts, 1) = <<parts[1]>>
        BY <4>2 DEF Line
      <4> QED
        BY <3>2, <4>1, <4>3
    <3>3. CASE i # 1
      <4> PICK m \in Nat : i = m + 2
        BY <3>3
      <4>1. f[m + 1] = Line(parts, 2 * m + 1)
        <5>1. m + 1 \in 1..n /\ m + 1 \notin A /\ 2 * (m + 1) - 1 = 2 * m + 1
          BY <3>1
        <5> QED
          BY <5>1
      <4>2. pieces[m + 2] = <<And, parts[m + 2]>>
        BY <3>1
      <4>3. f[i] = f[i - 1] \o pieces[i]
        <5>1. i \in 2..n
          BY <3>1, <3>3
        <5> HIDE DEF pieces
        <5> QED
          BY <2>1, <5>1 DEF PutTogether
      <4>4. i - 1 = m + 1 /\ 2 * m + 3 = 2 * i - 1
        OBVIOUS
      <4>5. Line(parts, 2 * m + 1) \o <<And, parts[m + 2]>> = Line(parts, 2 * m + 3)
        BY OnePartMore
      <4>6. f[i] = Line(parts, 2 * i - 1)
        BY <4>1, <4>2, <4>3, <4>4, <4>5
      <4> QED
        BY <4>6
    <3> QED
      BY <3>2, <3>3
  <2> QED
    BY <1>1, <1>3, <2>1, <2>2
<1> QED
  BY <1>2, <1>3

\* The fields can be read off their line, with an & at its end or without.
LEMMA LineTells ==
    ASSUME NEW C, IsFields(C), And \notin C, NEW l,
           l \in {2 * Cardinality(C) - 1, 2 * Cardinality(C)}
    PROVE  {Line(InOrder(C), l)[k] : k \in 1..l} \ {And} = C
<1> DEFINE n == Cardinality(C)
<1>1. n \in Nat
  BY Ranks
<1>2. PICK order : order = InOrder(C)
  OBVIOUS
<1>3. /\ order \in [1..n -> C]
      /\ \A f \in C : Rank(C, f) \in 1..n /\ order[Rank(C, f)] = f
  BY <1>2, OneOrder, PlaceIsRank, Ranks DEF SetToSeqs
<1>4. ASSUME NEW k \in 1..l PROVE At(order, k) = And \/ At(order, k) \in C
  <2>1. k % 2 = 1 => (k + 1) \div 2 \in 1..n
    BY <1>1
  <2> QED
    BY <1>3, <2>1 DEF At
<1>5. ASSUME NEW f \in C PROVE \E k \in 1..l : At(order, k) = f
  <2> DEFINE m == Rank(C, f) - 1
  <2>0. m \in Nat /\ m + 1 \in 1..n /\ Rank(C, f) = m + 1
    BY <1>1, <1>3
  <2> HIDE DEF m
  <2>1. 2 * m + 1 \in 1..l
    BY <1>1, <2>0
  <2>2. At(order, 2 * m + 1) = f
    BY <1>3, <2>0, Alternate
  <2> QED
    BY <2>1, <2>2
<1>6. \A k \in 1..l : Line(order, l)[k] = At(order, k)
  BY DEF Line
<1> HIDE DEF n
<1>7. {Line(order, l)[k] : k \in 1..l} \ {And} = C
  BY <1>4, <1>5, <1>6
<1> QED
  BY <1>2, <1>7

-----------------------------------------------------------------------------
(* The loop that passes over empty values *)

\* How many of the places P there are up to i.
UpTo(P, i) == Cardinality(P \cap (1..i))

\* The fields of a loop have ascending keys; those of the places P come in the order
\* of the places; each of them makes a piece, with an & unless it is the last.
Climbs(field, n) ==
    /\ \A m \in 1..n : field[m][1] \in Int
    /\ \A i, j \in 1..n : i < j => field[i][1] < field[j][1]
Of(field, P) == {field[m] : m \in P}
InPlaces(order, field, P) == \A i \in P : order[UpTo(P, i)] = field[i]
ArePieces(pieces, field, P, n) ==
    \A i \in 1..n : pieces[i] = IF i \notin P THEN << >>
                                ELSE IF i < n THEN <<field[i], And>> ELSE <<field[i]>>

\* Each place adds one or none.
LEMMA PlacesAdd ==
    ASSUME NEW P, NEW i \in Nat
    PROVE  /\ IsFiniteSet(P \cap (1..i)) /\ UpTo(P, i) \in Nat
           /\ UpTo(P, 0) = 0
           /\ UpTo(P, i + 1) = IF i + 1 \in P THEN UpTo(P, i) + 1 ELSE UpTo(P, i)
<1>1. IsFiniteSet(P \cap (1..i)) /\ UpTo(P, i) \in Nat
  <2>1. IsFiniteSet(1..i) /\ P \cap (1..i) \in SUBSET (1..i)
    BY FS_Interval
  <2> QED
    BY <2>1, FS_Subset, FS_CardinalityType DEF UpTo
<1>2. UpTo(P, 0) = 0
  <2>1. P \cap (1..0) = {}
    OBVIOUS
  <2> QED
    BY <2>1, FS_EmptySet DEF UpTo
<1>3. CASE i + 1 \notin P
  <2>1. P \cap (1..i + 1) = P \cap (1..i)
    BY <1>3
  <2> QED
    BY <1>1, <1>2, <1>3, <2>1 DEF UpTo
<1>4. CASE i + 1 \in P
  <2>1. P \cap (1..i + 1) = (P \cap (1..i)) \cup {i + 1} /\ i + 1 \notin P \cap (1..i)
    BY <1>4
  <2>2. UpTo(P, i + 1) = UpTo(P, i) + 1
    BY <1>1, <2>1, FS_AddElement DEF UpTo
  <2> QED
    BY <1>1, <1>2, <1>4, <2>2
<1> QED
  BY <1>3, <1>4

\* The field of a place is, in the order of the fields of P, the one with its number.
LEMMA PlacesInOrder ==
    ASSUME NEW n \in Nat, NEW field, Climbs(field, n),
           NEW P \in SUBSET (1..n), NEW C, C = Of(field, P)
    PROVE  /\ IsFields(C) /\ Cardinality(C) = UpTo(P, n)
           /\ InPlaces(InOrder(C), field, P)
<1> USE DEF Climbs, Of, InPlaces
<1> DEFINE FieldsTo(i) == {field[m] : m \in P \cap (1..i)}
<1>1. \A a, b \in 1..n : (field[a][1] <= field[b][1] <=> a <= b) /\ (field[a][1] = field[b][1] => a = b)
  <2> TAKE a \in 1..n, b \in 1..n
  <2>1. a < b => field[a][1] < field[b][1]
    OBVIOUS
  <2>2. b < a => field[b][1] < field[a][1]
    OBVIOUS
  <2>3. field[a][1] \in Int /\ field[b][1] \in Int /\ a \in Int /\ b \in Int
    OBVIOUS
  <2> QED
    BY <2>1, <2>2, <2>3
<1>2. ASSUME NEW i \in 0..n
      PROVE  IsFiniteSet(FieldsTo(i)) /\ Cardinality(FieldsTo(i)) = UpTo(P, i)
  <2> DEFINE part == [m \in P \cap (1..i) |-> field[m]]
  <2>1. part \in Bijection(P \cap (1..i), FieldsTo(i))
    <3>1. part \in [P \cap (1..i) -> FieldsTo(i)]
      OBVIOUS
    <3>2. \A a, b \in P \cap (1..i) : part[a] = part[b] => a = b
      BY <1>1
    <3> QED
      BY <3>1, <3>2 DEF Bijection, Injection, Surjection, IsInjective
  <2>2. i \in Nat
    OBVIOUS
  <2>3. IsFiniteSet(P \cap (1..i))
    BY <2>2, PlacesAdd
  <2> QED
    BY <2>1, <2>3, FS_Bijection DEF ExistsBijection, UpTo
<1>3. C = FieldsTo(n)
  OBVIOUS
<1>4. IsFiniteSet(C) /\ Cardinality(C) = UpTo(P, n)
  <2>1. n \in 0..n
    OBVIOUS
  <2> HIDE DEF FieldsTo
  <2> QED
    BY <1>2, <1>3, <2>1
<1>5. IsFields(C)
  <2>1. \A f, g \in C : f[1] = g[1] => f = g
    BY <1>1
  <2> QED
    BY <1>4, <2>1 DEF IsFields
<1>6. ASSUME NEW i \in P
      PROVE  InOrder(C)[UpTo(P, i)] = field[i]
  <2>1. i \in 1..n /\ field[i] \in C
    OBVIOUS
  <2>2. {f \in C : f[1] <= field[i][1]} = FieldsTo(i)
    <3>1. \A m \in P : field[m][1] <= field[i][1] <=> m \in P \cap (1..i)
      BY <1>1
    <3> QED
      BY <3>1
  <2>3. Rank(C, field[i]) = UpTo(P, i)
    <3>1. i \in 0..n
      BY <2>1
    <3> HIDE DEF FieldsTo
    <3> QED
      BY <1>2, <2>2, <3>1 DEF Rank
  <2>4. InOrder(C)[Rank(C, field[i])] = field[i]
    BY <1>5, <2>1, OneOrder, PlaceIsRank
  <2> QED
    BY <2>3, <2>4
<1> QED
  BY <1>4, <1>5, <1>6

\* The pieces of the loop make a line of the fields that are there; only when the
\* last key has none is there an & at the end.
LEMMA PiecesMakeLine ==
    ASSUME NEW n \in Nat \ {0}, NEW P \in SUBSET (1..n), NEW order, NEW field,
           InPlaces(order, field, P),
           NEW pieces, Len(pieces) = n, ArePieces(pieces, field, P, n)
    PROVE  FlattenSeq(pieces) =
               Line(order, IF n \in P THEN 2 * UpTo(P, n) - 1 ELSE 2 * UpTo(P, n))
<1> USE DEF InPlaces, ArePieces
<1> DEFINE Length(i) == IF i = n /\ n \in P THEN 2 * UpTo(P, n) - 1 ELSE 2 * UpTo(P, i)
<1>1. ASSUME NEW i \in 0..n - 1
      PROVE  Line(order, 2 * UpTo(P, i)) \o pieces[i + 1] = Line(order, Length(i + 1))
  <2> PICK u : u = UpTo(P, i)
    OBVIOUS
  <2>1. /\ i \in Nat /\ i + 1 \in 1..n /\ u \in Nat
        /\ UpTo(P, i + 1) = IF i + 1 \in P THEN u + 1 ELSE u
    <3>1. i \in Nat /\ i + 1 \in 1..n
      OBVIOUS
    <3>2. UpTo(P, i) \in Nat /\ UpTo(P, i + 1) = IF i + 1 \in P THEN UpTo(P, i) + 1 ELSE UpTo(P, i)
      BY <3>1, PlacesAdd
    <3> QED
      BY <3>1, <3>2
  <2>2. CASE i + 1 \notin P
    <3>1. pieces[i + 1] = << >> /\ Length(i + 1) = 2 * u
      BY <2>1, <2>2
    <3> PICK l \in Nat : l = 2 * u
      BY <2>1
    <3> PICK s : s = << >>
      OBVIOUS
    <3>2. s \in Seq({}) /\ Len(s) = 0 /\ \A k \in 1..Len(s) : s[k] = At(order, l + k)
      OBVIOUS
    <3>3. Line(order, l) \o s = Line(order, l + Len(s))
      BY <3>2, LineGoesOn
    <3>4. Line(order, l) \o s = Line(order, l)
      BY <3>2, <3>3
    <3> QED
      BY <3>1, <3>4
  <2>3. CASE i + 1 \in P
    <3>1. order[u + 1] = field[i + 1]
      BY <2>1, <2>3
    <3>2. /\ Line(order, 2 * u) \o <<order[u + 1], And>> = Line(order, 2 * u + 2)
          /\ Line(order, 2 * u) \o <<order[u + 1]>> = Line(order, 2 * u + 1)
      BY <2>1, OnePartMore
    <3>3. CASE i + 1 < n
      <4>1. pieces[i + 1] = <<order[u + 1], And>> /\ Length(i + 1) = 2 * u + 2
        BY <2>1, <2>3, <3>1, <3>3
      <4> QED
        BY <3>2, <4>1
    <3>4. CASE i + 1 = n
      <4>1. pieces[i + 1] = <<order[u + 1]>> /\ Length(i + 1) = 2 * u + 1
        BY <2>1, <2>3, <3>1, <3>4
      <4> QED
        BY <3>2, <4>1
    <3> QED
      BY <2>1, <3>3, <3>4
  <2> QED
    BY <2>2, <2>3
<1>2. Line(order, 0) \o pieces[1] = pieces[1]
  <2> PICK s : s = pieces[1]
    OBVIOUS
  <2>1. s \in Seq({field[1], And})
    <3> PICK a : a = field[1]
      OBVIOUS
    <3>1. s = << >> \/ s = <<a, And>> \/ s = <<a>>
      OBVIOUS
    <3>2. << >> \in Seq({a, And}) /\ <<a, And>> \in Seq({a, And}) /\ <<a>> \in Seq({a, And})
      OBVIOUS
    <3> QED
      BY <3>1, <3>2
  <2>2. Line(order, 0) = << >>
    BY DEF Line
  <2> QED
    BY <2>1, <2>2, ConcatEmptySeq
<1>3. PICK f : PutTogether(f, pieces, n) /\ FlattenSeq(pieces) = f[n]
  BY Flattening
<1> DEFINE F(i) == IF i = 0 THEN Line(order, 0) ELSE f[i]
<1>4. ASSUME NEW i \in 0..n - 1 PROVE F(i + 1) = F(i) \o pieces[i + 1]
  <2>1. CASE i = 0
    BY <1>2, <1>3, <2>1 DEF PutTogether
  <2>2. CASE i # 0
    <3> PICK k \in 2..n : k = i + 1
      BY <2>2
    <3>1. f[k] = f[k - 1] \o pieces[k]
      BY <1>3 DEF PutTogether
    <3>2. k - 1 = i /\ k # 0
      OBVIOUS
    <3> QED
      BY <2>2, <3>1, <3>2
  <2> QED
    BY <2>1, <2>2
<1> DEFINE A == {i \in 0..n - 1 : F(i) # Line(order, 2 * UpTo(P, i))}
<1>5. ASSUME A # {} PROVE FALSE
  <2>1. PICK i \in A : \A k \in A : i <= k
    <3>1. A \subseteq Nat
      OBVIOUS
    <3> HIDE DEF A
    <3> QED
      BY <1>5, <3>1, LeastNumber
  <2>2. i # 0
    <3>1. UpTo(P, 0) = 0
      BY PlacesAdd
    <3> QED
      BY <3>1
  <2> PICK j \in 0..n - 1 : i = j + 1
    <3>1. i - 1 \in 0..n - 1 /\ i = i - 1 + 1
      BY <2>2
    <3> QED
      BY <3>1
  <2>3. F(j) = Line(order, 2 * UpTo(P, j))
    <3>1. j \notin A
      BY <2>1
    <3> QED
      BY <3>1
  <2>4. F(j + 1) = Line(order, Length(j + 1))
    <3> HIDE DEF F, Length
    <3> QED
      BY <1>1, <1>4, <2>3
  <2>5. Length(j + 1) = 2 * UpTo(P, j + 1)
    BY <2>1
  <2>6. F(j + 1) = Line(order, 2 * UpTo(P, j + 1))
    BY <2>4, <2>5
  <2> QED
    BY <2>6
<1>6. n - 1 \in 0..n - 1 /\ n - 1 + 1 = n
  OBVIOUS
<1>7. F(n - 1) = Line(order, 2 * UpTo(P, n - 1))
  BY <1>5, <1>6
<1>8. F(n - 1 + 1) = Line(order, Length(n - 1 + 1))
  <2> HIDE DEF F, Length, A
  <2> QED
    BY <1>1, <1>4, <1>6, <1>7
<1>9. F(n) = Line(order, Length(n))
  BY <1>6, <1>8
<1> QED
  BY <1>3, <1>9

-----------------------------------------------------------------------------
(* The texts *)

\* The last key of VNPay is there and not empty.
LastIsThere(object) == Keys \in KeysOf(object) /\ Get(object, Keys) # ""

\* Keys of a message are finitely many numbers, and the last one is signed.
LEMMA SomeKeys ==
    /\ Keys \in Nat /\ Keys # Unsigned /\ \A k \in Key : k <= Keys
    /\ \A K : K \subseteq Key => K \in SUBSET Int /\ IsFiniteSet(K)
<1>1. Keys \in Nat /\ Unsigned \in 1..Keys - 1
  BY SignatureAssumption, Zenon
<1>2. Keys \in Nat /\ Keys # Unsigned /\ \A k \in Key : k <= Keys
  BY <1>1 DEF Key
<1>3. IsFiniteSet(Key) /\ Key \subseteq Int
  BY <1>2, FS_Interval DEF Key
<1> QED
  BY <1>2, <1>3, FS_Subset

\* The pieces of a loop over keys in order, which passes over those that are not of
\* S and puts an & behind every part but that of the last key.
Pieces(keys, n, S, v) ==
    [i \in 1..n |-> IF keys[i] \notin S THEN << >>
                    ELSE IF i < n THEN <<<<keys[i], v[keys[i]]>>, And>>
                    ELSE <<<<keys[i], v[keys[i]]>>>>]

\* The pieces make a line of the fields of S, which ends in a field when the last
\* key is of S.
LEMMA LoopMakesLine ==
    ASSUME NEW K \in SUBSET Int, NEW S \in SUBSET K, NEW v,
           NEW n \in Nat, n = 0 => K = {},
           NEW keys, Runs(keys, K, n),
           NEW C, C = FieldsOf(S, v), NEW pieces, pieces = Pieces(keys, n, S, v)
    PROVE  /\ IsFields(C)
           /\ FlattenSeq(pieces) \in {Line(InOrder(C), 2 * Cardinality(C) - 1), Line(InOrder(C), 2 * Cardinality(C))}
           /\ \A last \in S : (\A k \in K : k <= last) =>
                  FlattenSeq(pieces) = Line(InOrder(C), 2 * Cardinality(C) - 1)
<1> USE DEF Runs
<1>1. PICK P : P = {i \in 1..n : keys[i] \in S}
  OBVIOUS
<1>2. PICK field : field = [i \in 1..n |-> <<keys[i], v[keys[i]]>>]
  OBVIOUS
<1>3. Len(pieces) = n
  BY DEF Pieces
<1>4. C = Of(field, P)
  <2>1. ASSUME NEW f \in C PROVE \E m \in P : f = field[m]
    <3>1. PICK k \in S : f = <<k, v[k]>>
      BY DEF FieldsOf
    <3>2. PICK m \in 1..n : keys[m] = k
      OBVIOUS
    <3> QED
      BY <1>1, <1>2, <3>1, <3>2
  <2>2. ASSUME NEW m \in P PROVE field[m] \in C
    BY <1>1, <1>2 DEF FieldsOf
  <2> QED
    BY <2>1, <2>2 DEF Of
<1>5. Climbs(field, n)
  BY <1>2 DEF Climbs
<1>6. P \in SUBSET (1..n)
  BY <1>1
<1>7. /\ IsFields(C) /\ Cardinality(C) = UpTo(P, n)
      /\ InPlaces(InOrder(C), field, P)
  BY <1>4, <1>5, <1>6, PlacesInOrder
<1>8. CASE n = 0
  <2>1. FlattenSeq(pieces) = pieces
    BY <1>3, <1>8 DEF FlattenSeq
  <2>2. pieces = Line(InOrder(C), 0)
    <3>1. pieces = << >>
      BY <1>8 DEF Pieces
    <3>2. Line(InOrder(C), 0) = << >>
      BY DEF Line
    <3> QED
      BY <3>1, <3>2
  <2>3. Cardinality(C) = 0
    BY <1>7, <1>8, PlacesAdd
  <2>4. S = {} /\ 2 * Cardinality(C) = 0
    BY <1>8, <2>3
  <2> QED
    BY <1>7, <2>1, <2>2, <2>4
<1>9. CASE n # 0
  <2>1. FlattenSeq(pieces) = Line(InOrder(C), IF n \in P THEN 2 * UpTo(P, n) - 1 ELSE 2 * UpTo(P, n))
    <3>1. n \in Nat \ {0}
      BY <1>9
    <3>2. ArePieces(pieces, field, P, n)
      BY <1>1, <1>2 DEF Pieces, ArePieces
    <3> QED
      BY <1>3, <1>6, <1>7, <3>1, <3>2, PiecesMakeLine
  <2>2. ASSUME NEW last \in S, \A k \in K : k <= last PROVE n \in P
    <3>1. n \in 1..n
      BY <1>9
    <3> PICK i \in 1..n : keys[i] = last
      OBVIOUS
    <3>2. keys[n] \in K /\ keys[n] \in Int /\ keys[n] <= last /\ last \in Int
      BY <2>2, <3>1
    <3>3. ~(i < n)
      BY <3>1, <3>2
    <3>4. i = n
      BY <3>3
    <3> QED
      BY <1>1, <3>1, <3>4
  <2> QED
    BY <1>7, <2>1, <2>2
<1> QED
  BY <1>8, <1>9

\* The fields VNPay signs.
NotEmpty(object) ==
    {<<key, Get(object, key)>> : key \in {k \in KeysOf(object) \ {Unsigned} : Get(object, k) # ""}}

\* The text VNPay's loop makes is a line of the fields that are not empty.
LEMMA HashDataIsLine ==
    ASSUME NEW object, KeysOf(object) \subseteq Key, NEW C, C = NotEmpty(object)
    PROVE  /\ IsFields(C)
           /\ HashData(object) \in {Line(InOrder(C), 2 * Cardinality(C) - 1), Line(InOrder(C), 2 * Cardinality(C))}
           /\ LastIsThere(object) => HashData(object) = Line(InOrder(C), 2 * Cardinality(C) - 1)
<1>1. PICK K : K = HashKeys(object)
  OBVIOUS
<1>2. PICK S : S = {k \in K : Get(object, k) # ""}
  OBVIOUS
<1>3. PICK v : v = [k \in K |-> Get(object, k)]
  OBVIOUS
<1>4. PICK keys : keys = Sorted(object, K)
  OBVIOUS
<1>5. PICK n : n = Cardinality(K)
  OBVIOUS
<1>6. PICK pieces : pieces = Pieces(keys, n, S, v)
  OBVIOUS
<1>7. K \in SUBSET Int /\ IsFiniteSet(K) /\ K \subseteq Key
  <2>1. K \subseteq Key
    BY <1>1 DEF HashKeys
  <2> QED
    BY <2>1, SomeKeys
<1>8. /\ n \in Nat /\ keys \in [1..n -> K]
      /\ \A i, j \in 1..n : i < j => keys[i] < keys[j]
      /\ \A k \in K : \E i \in 1..n : keys[i] = k
  <2>1. PICK D : D = FieldsOf(K, v)
    OBVIOUS
  <2> QED
    BY <1>4, <1>5, <1>7, <2>1, KeysInOrder DEF Runs
<1>9. n = 0 => K = {}
  BY <1>5, <1>7, FS_EmptySet
<1>10. C = FieldsOf(S, v) /\ S \in SUBSET K
  BY <1>1, <1>2, <1>3 DEF HashKeys, FieldsOf, NotEmpty
<1>11. HashData(object) = FlattenSeq(pieces)
  <2>1. DOMAIN keys = 1..n /\ Len(keys) = n
    <3>1. n \in Nat /\ keys \in [1..n -> K]
      BY <1>8
    <3> QED
      BY <3>1
  <2>2. \A i \in 1..n : /\ keys[i] \in K
                        /\ keys[i] \in S <=> Get(object, keys[i]) # ""
                        /\ v[keys[i]] = Get(object, keys[i])
    BY <1>2, <1>3, <1>8
  <2>3. pieces = [i \in DOMAIN keys |-> IF Get(object, keys[i]) = "" THEN << >>
                                        ELSE IF i < Len(keys) THEN <<<<keys[i], Get(object, keys[i])>>, And>>
                                        ELSE <<<<keys[i], Get(object, keys[i])>>>>]
    BY <1>6, <2>1, <2>2 DEF Pieces
  <2> QED
    BY <1>1, <1>4, <2>3 DEF HashData
<1>12. n \in Nat /\ Runs(keys, K, n)
  BY <1>8 DEF Runs
<1>13. /\ IsFields(C)
       /\ FlattenSeq(pieces) \in {Line(InOrder(C), 2 * Cardinality(C) - 1), Line(InOrder(C), 2 * Cardinality(C))}
       /\ \A last \in S : (\A k \in K : k <= last) =>
             FlattenSeq(pieces) = Line(InOrder(C), 2 * Cardinality(C) - 1)
  BY <1>6, <1>7, <1>9, <1>10, <1>12, LoopMakesLine
<1>14. ASSUME LastIsThere(object) PROVE Keys \in S /\ \A k \in K : k <= Keys
  <2>1. Keys \in S
    BY <1>1, <1>2, <1>14, SomeKeys DEF LastIsThere, HashKeys
  <2> QED
    BY <1>7, <2>1, SomeKeys
<1> QED
  BY <1>11, <1>13, <1>14

\* The text made of keys in their order is the line of their fields.
LEMMA KeysMakeLine ==
    ASSUME NEW object, NEW K \in SUBSET Int, IsFiniteSet(K), NEW v,
           NEW C, C = FieldsOf(K, v), NEW keys, keys = Sorted(object, K),
           NEW parts, parts = [i \in DOMAIN keys |-> <<keys[i], v[keys[i]]>>]
    PROVE  IsFields(C) /\ Joined(parts) = Line(InOrder(C), 2 * Cardinality(C) - 1)
<1>1. PICK n : n = Cardinality(K)
  OBVIOUS
<1>2. /\ IsFields(C) /\ Cardinality(C) = n /\ n \in Nat /\ keys \in [1..n -> K]
      /\ InOrder(C) = [i \in 1..n |-> <<keys[i], v[keys[i]]>>]
  BY <1>1, KeysInOrder DEF Runs, Row
<1>3. parts = InOrder(C)
  BY <1>2
<1>4. parts \in [1..n -> {<<keys[i], v[keys[i]]>> : i \in 1..n}]
  BY <1>2, <1>3
<1> QED
  BY <1>2, <1>3, <1>4, JoinedIsLine

\* The fields PayOS and MoMo sign.
Said(object) ==
    {<<key, IF Get(object, key) = "null" THEN "" ELSE Get(object, key)>> :
        key \in {k \in KeysOf(object) : Get(object, k) # "undefined"}}
Listed(object) == {<<key, Get(object, key)>> : key \in Key \ {Unsigned}}

\* The text of payos-utils.ts is the line of the fields that are defined.
LEMMA GenerateSignatureIsLine ==
    ASSUME NEW object, KeysOf(object) \subseteq Key, NEW C, C = Said(object)
    PROVE  IsFields(C) /\ GenerateSignature(object) = Line(InOrder(C), 2 * Cardinality(C) - 1)
<1>1. PICK K : K = {k \in KeysOf(object) : Get(object, k) # "undefined"}
  OBVIOUS
<1>2. PICK v : v = [k \in K |-> IF Get(object, k) = "null" THEN "" ELSE Get(object, k)]
  OBVIOUS
<1>3. PICK keys : keys = Sorted(object, K)
  OBVIOUS
<1>4. PICK parts : parts = [i \in DOMAIN keys |-> <<keys[i], v[keys[i]]>>]
  OBVIOUS
<1>5. K \in SUBSET Int /\ IsFiniteSet(K)
  BY <1>1, SomeKeys
<1>6. C = FieldsOf(K, v)
  BY <1>1, <1>2 DEF Said, FieldsOf
<1>7. DOMAIN keys = 1..Cardinality(K) /\ \A i \in DOMAIN keys : keys[i] \in K
  <2>1. keys \in [1..Cardinality(K) -> K]
    BY <1>3, <1>5, <1>6, KeysInOrder DEF Runs
  <2> QED
    BY <2>1
<1>8. parts = [i \in DOMAIN keys |-> <<keys[i], PayosText(Get(object, keys[i]))>>]
  <2>1. \A k \in K : v[k] = PayosText(Get(object, k))
    BY <1>1, <1>2 DEF PayosText
  <2> QED
    BY <1>4, <1>7, <2>1
<1>9. GenerateSignature(object) = Joined(parts)
  BY <1>1, <1>3, <1>8 DEF GenerateSignature
<1> QED
  BY <1>3, <1>4, <1>5, <1>6, <1>9, KeysMakeLine

\* The text of MoMo's template is the line of the fields of its list.
LEMMA RawSignatureIsLine ==
    ASSUME NEW object, NEW C, C = Listed(object)
    PROVE  IsFields(C) /\ RawSignature(object) = Line(InOrder(C), 2 * Cardinality(C) - 1)
<1>1. PICK K : K = Key \ {Unsigned}
  OBVIOUS
<1>2. PICK v : v = [k \in K |-> Get(object, k)]
  OBVIOUS
<1>3. PICK keys : keys = Sorted(object, K)
  OBVIOUS
<1>4. PICK parts : parts = [i \in DOMAIN keys |-> <<keys[i], v[keys[i]]>>]
  OBVIOUS
<1>5. K \in SUBSET Int /\ IsFiniteSet(K)
  BY <1>1, SomeKeys
<1>6. C = FieldsOf(K, v)
  BY <1>1, <1>2 DEF Listed, FieldsOf
<1>7. DOMAIN keys = 1..Cardinality(K) /\ \A i \in DOMAIN keys : keys[i] \in K
  <2>1. keys \in [1..Cardinality(K) -> K]
    BY <1>3, <1>5, <1>6, KeysInOrder DEF Runs
  <2> QED
    BY <2>1
<1>8. parts = [i \in DOMAIN keys |-> <<keys[i], Get(object, keys[i])>>]
  BY <1>2, <1>4, <1>7
<1>9. RawSignature(object) = Joined(parts)
  BY <1>1, <1>3, <1>8 DEF RawSignature
<1> QED
  BY <1>3, <1>4, <1>5, <1>6, <1>9, KeysMakeLine

\* The line of what a message says, with an & at its end or without.
Signed(C) == Line(InOrder(C), 2 * Cardinality(C) - 1)
SignedLoosely(C) == {Signed(C), Line(InOrder(C), 2 * Cardinality(C))}

\* What each side writes of an object is a line of its content: the gateway always
\* the one without an & at the end, the service too when VNPay's last key is there.
LEMMA Texts ==
    ASSUME NEW object, KeysOf(object) \subseteq Key, scheme \in Scheme
    PROVE  /\ IsFields(Content(object))
           /\ GatewayText(object) = Signed(Content(object))
           /\ ServiceText(object) \in SignedLoosely(Content(object))
           /\ (scheme = "vnpay" => LastIsThere(object)) => ServiceText(object) = Signed(Content(object))
<1>1. PICK C : C = Content(object)
  OBVIOUS
<1>2. /\ IsFields(C) /\ ServiceText(object) \in SignedLoosely(C)
      /\ (scheme = "vnpay" => LastIsThere(object)) => ServiceText(object) = Signed(C)
  <2>1. CASE scheme = "payos"
    <3>1. C = Said(object) /\ ServiceText(object) = GenerateSignature(object)
      BY <1>1, <2>1 DEF Content, ServiceText, Said
    <3> QED
      BY <3>1, GenerateSignatureIsLine DEF Signed, SignedLoosely
  <2>2. CASE scheme = "vnpay"
    <3>1. C = NotEmpty(object) /\ ServiceText(object) = HashData(object)
      BY <1>1, <2>2 DEF Content, ServiceText, NotEmpty
    <3>2. /\ IsFields(C) /\ HashData(object) \in SignedLoosely(C)
          /\ LastIsThere(object) => HashData(object) = Signed(C)
      BY <3>1, HashDataIsLine DEF Signed, SignedLoosely
    <3> QED
      BY <2>2, <3>1, <3>2
  <2>3. CASE scheme = "momo"
    <3>1. C = Listed(object) /\ ServiceText(object) = RawSignature(object)
      BY <1>1, <2>3 DEF Content, ServiceText, Listed
    <3> QED
      BY <3>1, RawSignatureIsLine DEF Signed, SignedLoosely
  <2> QED
    BY <2>1, <2>2, <2>3 DEF Scheme
<1>3. GatewayText(object) = Signed(C)
  <2>1. PICK n : n = Cardinality(C)
    OBVIOUS
  <2>2. n \in Nat /\ InOrder(C) \in [1..n -> C]
    BY <1>2, <2>1, Ranks, OneOrder DEF SetToSeqs
  <2> QED
    BY <1>1, <2>1, <2>2, JoinedIsLine DEF GatewayText, Signed
<1> QED
  BY <1>1, <1>2, <1>3

\* A line tells its fields, so that different contents have different lines.
LEMMA TextsTell ==
    ASSUME NEW C, IsFields(C), And \notin C, NEW D, IsFields(D), And \notin D,
           NEW text \in SignedLoosely(C), text \in SignedLoosely(D)
    PROVE  C = D
<1>1. PICK l \in {2 * Cardinality(C) - 1, 2 * Cardinality(C)} : text = Line(InOrder(C), l)
  BY DEF Signed, SignedLoosely
<1>2. PICK m \in {2 * Cardinality(D) - 1, 2 * Cardinality(D)} : text = Line(InOrder(D), m)
  BY DEF Signed, SignedLoosely
<1>3. l \in Int /\ m \in Int
  BY Ranks
<1>4. DOMAIN text = 1..l /\ DOMAIN text = 1..m
  BY <1>1, <1>2 DEF Line
<1>5. /\ {text[k] : k \in 1..l} \ {And} = C
      /\ {text[k] : k \in 1..m} \ {And} = D
  <2>1. {Line(InOrder(C), l)[k] : k \in 1..l} \ {And} = C
    BY LineTells
  <2>2. {Line(InOrder(D), m)[k] : k \in 1..m} \ {And} = D
    BY LineTells
  <2> QED
    BY <1>1, <1>2, <2>1, <2>2
<1> QED
  BY <1>4, <1>5

\* No field is an &.
LEMMA NoAnd ==
    ASSUME NEW object, scheme \in Scheme
    PROVE  And \notin Content(object)
<1>1. ASSUME NEW key, NEW value PROVE And # <<key, value>>
  <2>1. Len(And) = 1 /\ Len(<<key, value>>) = 2
    BY DEF And
  <2> QED
    BY <2>1
<1>2. \A field \in Content(object) : \E key, value : field = <<key, value>>
  BY DEF Content, Scheme
<1> QED
  BY <1>1, <1>2

-----------------------------------------------------------------------------
(* The messages *)

Other(who) == IF who = "service" THEN "gateway" ELSE "service"

\* What holds of a message on its way: VNPay's last key is never empty, what was
\* signed is complete, the signature is of it, and the verdict is of what arrived.
MessageInvariant ==
    /\ scheme \in Scheme
    /\ written \in Seq(Key \X Value)
    /\ scheme = "vnpay" => \A i \in DOMAIN written : written[i][1] = Keys => written[i][2] # ""
    /\ phase # "writing" => Complete /\ signature = TextOf(writer, written)
    /\ phase \in {"arrived", "verified"} => KeysOf(arrived) \subseteq Key
    /\ phase = "verified" => (verdict <=> signature = TextOf(Other(writer), arrived))

\* What a step leaves of a message, its text and its content leave too.
LEMMA TextsStay ==
    ASSUME scheme' = scheme
    PROVE  /\ written' = written => /\ Complete' <=> Complete
                                    /\ Content(written)' = Content(written)
                                    /\ \A who : TextOf(who, written)' = TextOf(who, written)
           /\ arrived' = arrived => /\ Content(arrived)' = Content(arrived)
                                    /\ \A who : TextOf(who, arrived)' = TextOf(who, arrived)
<1>1. ASSUME written' = written
      PROVE  /\ Complete' <=> Complete
             /\ Content(written)' = Content(written)
  BY <1>1 DEF Complete, Content
<1>2. ASSUME written' = written, NEW who
      PROVE  TextOf(who, written)' = TextOf(who, written)
  <2>1. ServiceText(written)' = ServiceText(written)
    BY <1>2 DEF ServiceText
  <2>2. GatewayText(written)' = GatewayText(written)
    BY <1>1, <1>2 DEF GatewayText
  <2> QED
    BY <2>1, <2>2 DEF TextOf
<1>3. ASSUME arrived' = arrived
      PROVE  Content(arrived)' = Content(arrived)
  BY <1>3 DEF Content
<1>4. ASSUME arrived' = arrived, NEW who
      PROVE  TextOf(who, arrived)' = TextOf(who, arrived)
  <2>1. ServiceText(arrived)' = ServiceText(arrived)
    BY <1>4 DEF ServiceText
  <2>2. GatewayText(arrived)' = GatewayText(arrived)
    BY <1>3, <1>4 DEF GatewayText
  <2> QED
    BY <2>1, <2>2 DEF TextOf
<1> QED
  BY <1>1, <1>2, <1>3, <1>4

\* The fields of a message that arrives have keys of messages.
LEMMA KeysArrive ==
    ASSUME MessageInvariant, Arrive
    PROVE  KeysOf(arrived') \subseteq Key
<1>1. PICK fields \in {Carried} \cup UNION {{Without(field)} \cup Changed(field) : field \in Carried} :
          arrived' \in SetToSeqs(fields)
  BY DEF Arrive
<1>2. \A field \in Carried : field[1] \in Key
  <2>1. \A i \in DOMAIN written : written[i] \in Key \X Value
    <3> PICK S : S = Key \X Value
      OBVIOUS
    <3>1. written \in Seq(S)
      BY DEF MessageInvariant
    <3> QED
      BY <3>1
  <2>2. \A field \in Key \X Value : field[1] \in Key
    OBVIOUS
  <2>3. Carried \subseteq Key \X Value
    BY <2>1 DEF Carried, Range
  <2> QED
    BY <2>2, <2>3
<1>3. \A field \in fields : field[1] \in Key
  <2>1. CASE fields = Carried
    BY <1>2, <2>1
  <2>2. ASSUME NEW field \in Carried, fields \in {Without(field)} \cup Changed(field)
        PROVE  \A other \in fields : other[1] \in Key
    <3>1. \A other \in fields : other \in Carried \/ \E value : other = <<field[1], value>>
      BY <2>2 DEF Without, Changed
    <3> QED
      BY <1>2, <3>1
  <2> QED
    BY <1>1, <2>1, <2>2
<1>4. arrived' \in [1..Cardinality(fields) -> fields]
  BY <1>1 DEF SetToSeqs
<1> QED
  BY <1>3, <1>4 DEF KeysOf

\* The invariant holds throughout.
THEOREM MessagesAreSigned == Spec => []MessageInvariant
<1>1. Init => MessageInvariant
  BY DEF Init, MessageInvariant
<1>2. ASSUME MessageInvariant, [Next]_vars PROVE MessageInvariant'
  <2>1. ASSUME NEW key \in Key, NEW value \in Value, Put(key, value) PROVE MessageInvariant'
    <3>1. /\ scheme' = scheme /\ phase' = "writing"
          /\ written' = Append(written, <<key, value>>) /\ MayPut(key, value)
      BY <2>1 DEF Put
    <3>2. written' \in Seq(Key \X Value)
      <4>1. written \in Seq(Key \X Value) /\ <<key, value>> \in Key \X Value
        BY <1>2 DEF MessageInvariant
      <4> PICK S : S = Key \X Value
        OBVIOUS
      <4> PICK field \in S : field = <<key, value>>
        BY <4>1
      <4>2. written \in Seq(S) /\ Append(written, field) \in Seq(S)
        BY <4>1
      <4> QED
        BY <3>1, <4>2
    <3>3. ASSUME scheme = "vnpay", NEW i \in DOMAIN written', written'[i][1] = Keys
          PROVE  written'[i][2] # ""
      <4>1. written \in Seq(Key \X Value)
        BY <1>2 DEF MessageInvariant
      <4>2. CASE i = Len(written) + 1
        <5>1. written'[i] = <<key, value>>
          BY <3>1, <4>1, <4>2
        <5>2. key = Keys /\ written'[i][2] = value
          BY <3>3, <5>1
        <5> QED
          BY <3>1, <3>3, <5>2 DEF MayPut
      <4>3. CASE i # Len(written) + 1
        <5>1. i \in DOMAIN written /\ written'[i] = written[i]
          BY <3>1, <4>1, <4>3
        <5> QED
          BY <1>2, <3>3, <5>1 DEF MessageInvariant
      <4> QED
        BY <4>2, <4>3
    <3> QED
      BY <1>2, <3>1, <3>2, <3>3 DEF MessageInvariant
  <2>2. CASE Sign
    BY <1>2, <2>2, TextsStay DEF MessageInvariant, Sign
  <2>3. CASE Arrive
    BY <1>2, <2>3, TextsStay, KeysArrive DEF MessageInvariant, Arrive
  <2>4. CASE Verify
    BY <1>2, <2>4, TextsStay DEF MessageInvariant, Verify, Other
  <2>5. CASE UNCHANGED vars
    BY <1>2, <2>5, TextsStay DEF MessageInvariant, vars
  <2> QED
    BY <1>2, <2>1, <2>2, <2>3, <2>4, <2>5 DEF Next
<1> QED
  BY <1>1, <1>2, PTL DEF Spec

\* The objects of a message have keys of messages.
LEMMA KeysAreKeys ==
    ASSUME MessageInvariant, phase = "verified"
    PROVE  /\ KeysOf(written) \subseteq Key /\ KeysOf(arrived) \subseteq Key
           /\ scheme \in Scheme
<1>1. \A i \in DOMAIN written : written[i][1] \in Key
  <2>1. written \in Seq(Key \X Value)
    BY DEF MessageInvariant
  <2> PICK S : S = Key \X Value
    OBVIOUS
  <2>2. \A i \in DOMAIN written : written[i] \in S
    BY <2>1
  <2> QED
    BY <2>2
<1> QED
  BY <1>1 DEF MessageInvariant, KeysOf

\* A field VNPay's content has is a key that is there and not empty.
LEMMA LastOfContent ==
    ASSUME NEW object, scheme = "vnpay"
    PROVE  LastIsThere(object) <=> \E field \in Content(object) : field[1] = Keys
<1>1. \A field \in Content(object) :
         \E key \in KeysOf(object) \ {Unsigned} : Get(object, key) # "" /\ field = <<key, Get(object, key)>>
  BY DEF Content
<1>2. \A key \in KeysOf(object) \ {Unsigned} :
         Get(object, key) # "" => <<key, Get(object, key)>> \in Content(object)
  BY DEF Content
<1>3. Keys # Unsigned
  BY SomeKeys
<1>4. ASSUME LastIsThere(object) PROVE \E field \in Content(object) : field[1] = Keys
  <2>1. <<Keys, Get(object, Keys)>> \in Content(object)
    BY <1>2, <1>3, <1>4 DEF LastIsThere
  <2> QED
    BY <2>1
<1>5. ASSUME NEW field \in Content(object), field[1] = Keys PROVE LastIsThere(object)
  <2>1. PICK key \in KeysOf(object) : Get(object, key) # "" /\ field = <<key, Get(object, key)>>
    BY <1>1
  <2>2. key = Keys
    BY <1>5, <2>1
  <2> QED
    BY <2>1, <2>2 DEF LastIsThere
<1> QED
  BY <1>4, <1>5

\* What is written has VNPay's last key, which is not empty.
LEMMA LastIsWritten ==
    ASSUME MessageInvariant, phase = "verified", scheme = "vnpay"
    PROVE  LastIsThere(written)
<1>1. Keys \in KeysOf(written)
  BY DEF MessageInvariant, Complete
<1>2. PICK places : places = {i \in DOMAIN written : written[i][1] = Keys}
  OBVIOUS
<1>3. places # {} /\ \A i \in places : written[i][2] # ""
  BY <1>1, <1>2 DEF KeysOf, MessageInvariant
<1>4. Get(written, Keys) = written[CHOOSE i \in places : TRUE][2]
  BY <1>2, <1>3 DEF Get
<1> QED
  BY <1>1, <1>3, <1>4 DEF LastIsThere

\* What the sides sign of the two objects: lines of their contents, and when these
\* are equal the same line.
LEMMA TwoTexts ==
    ASSUME MessageInvariant, phase = "verified"
    PROVE  /\ signature \in SignedLoosely(Content(written))
           /\ TextOf(Other(writer), arrived) \in SignedLoosely(Content(arrived))
           /\ Content(arrived) = Content(written) => signature = TextOf(Other(writer), arrived)
<1>1. /\ ServiceText(written) \in SignedLoosely(Content(written))
      /\ GatewayText(written) = Signed(Content(written))
      /\ (scheme = "vnpay" => LastIsThere(written)) => ServiceText(written) = Signed(Content(written))
  BY KeysAreKeys, Texts
<1>2. /\ ServiceText(arrived) \in SignedLoosely(Content(arrived))
      /\ GatewayText(arrived) = Signed(Content(arrived))
      /\ (scheme = "vnpay" => LastIsThere(arrived)) => ServiceText(arrived) = Signed(Content(arrived))
  BY KeysAreKeys, Texts
<1>3. signature = TextOf(writer, written)
  BY DEF MessageInvariant
<1>4. ASSUME Content(arrived) = Content(written)
      PROVE  scheme = "vnpay" => LastIsThere(written) /\ LastIsThere(arrived)
  BY <1>4, LastIsWritten, LastOfContent
<1> QED
  BY <1>1, <1>2, <1>3, <1>4 DEF TextOf, Other, SignedLoosely

\* The invariant says which messages are accepted.
LEMMA VerdictIsOfContent ==
    ASSUME MessageInvariant
    PROVE  HonestIsAccepted /\ ChangedIsRefused
<1>1. CASE phase = "verified"
  <2>1. verdict <=> signature = TextOf(Other(writer), arrived)
    BY <1>1 DEF MessageInvariant
  <2>2. /\ IsFields(Content(written)) /\ And \notin Content(written)
        /\ IsFields(Content(arrived)) /\ And \notin Content(arrived)
    BY <1>1, KeysAreKeys, Texts, NoAnd
  <2>3. ASSUME signature = TextOf(Other(writer), arrived)
        PROVE  Content(arrived) = Content(written)
    BY <1>1, <2>2, <2>3, TwoTexts, TextsTell
  <2>4. Content(arrived) = Content(written) => signature = TextOf(Other(writer), arrived)
    BY <1>1, TwoTexts
  <2> QED
    BY <2>1, <2>3, <2>4 DEF HonestIsAccepted, ChangedIsRefused
<1>2. CASE phase # "verified"
  BY <1>2 DEF HonestIsAccepted, ChangedIsRefused
<1> QED
  BY <1>1, <1>2

\* A message that says what was written is accepted (payos-utils.ts:3-42,
\* vnpay.provider.ts:66-100, 118-158, momo.provider.ts:46-49).
THEOREM HonestMessageIsAccepted == Spec => []HonestIsAccepted
BY MessagesAreSigned, VerdictIsOfContent, PTL

\* A message of which a signed field was changed or lost is refused.
THEOREM ChangedMessageIsRefused == Spec => []ChangedIsRefused
BY MessagesAreSigned, VerdictIsOfContent, PTL
=============================================================================
