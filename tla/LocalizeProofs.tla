--------------------------- MODULE LocalizeProofs ---------------------------
(***************************************************************************)
(* What is proved of phase 2, for all chains, cutoffs, limits and pairs of *)
(* databases, at rest or moving, that keep to DatabasesAssumption.         *)
(***************************************************************************)
EXTENDS Localize, SumTheorems, SequenceTheorems, TLAPS

(* A function from 1 .. n is a sequence. *)
LEMMA FunctionIsSeq ==
  ASSUME NEW S, NEW n \in Nat, NEW f \in [1 .. n -> S]
  PROVE  f \in Seq(S) /\ Len(f) = n /\ DOMAIN f = 1 .. n
<1>1. f \in Seq(S)
  BY SeqDef
<1>2. Len(f) \in Nat /\ DOMAIN f = 1 .. Len(f)
  BY <1>1, LenProperties
<1>3. 1 .. n = 1 .. Len(f)
  BY <1>2
<1> QED
  BY <1>1, <1>2, <1>3

(***************************************************************************)
(* The ascending enumeration of a finite set of numbers.                   *)
(***************************************************************************)
Ascends(f) == \A i, j \in DOMAIN f : i < j => f[i] < f[j]

(* An enumeration that ascends leaves nothing out. *)
LEMMA AscendingOnto ==
  ASSUME NEW S \in SUBSET Nat, IsFiniteSet(S),
         NEW f \in [1 .. Cardinality(S) -> S], Ascends(f)
  PROVE  \A s \in S : \E i \in 1 .. Cardinality(S) : f[i] = s
<1> DEFINE n == Cardinality(S)
<1>1. n \in Nat
  BY FS_CardinalityType
<1>2. IsFiniteSet(1 .. n) /\ Cardinality(1 .. n) = n
  BY <1>1, FS_Interval
<1>3. f \in Injection(1 .. n, S)
  <2>1. \A i, j \in 1 .. n : i # j => f[i] # f[j]
    <3> SUFFICES ASSUME NEW i \in 1 .. n, NEW j \in 1 .. n, i # j, f[i] = f[j]
                 PROVE  FALSE
      OBVIOUS
    <3>1. i < j \/ j < i
      BY <1>1
    <3>2. f[i] < f[j] \/ f[j] < f[i]
      BY <3>1 DEF Ascends
    <3>3. f[i] \in Nat /\ f[j] \in Nat
      OBVIOUS
    <3> QED
      BY <3>2, <3>3
  <2> QED
    BY <2>1 DEF Injection, IsInjective
<1>4. f \in Surjection(1 .. n, S)
  BY <1>2, <1>3, FS_Injection
<1> QED
  BY <1>4 DEF Surjection

(* A finite set of naturals is bounded. *)
LEMMA UpperBound ==
  ASSUME NEW S \in SUBSET Nat, IsFiniteSet(S)
  PROVE  \E b \in Nat : \A s \in S : s <= b
<1> DEFINE Bounded(T) == \E b \in Nat : \A t \in T : t <= b
           P == {n \in Nat : \A T \in SUBSET S : Cardinality(T) = n => Bounded(T)}
<1>0. \A T \in SUBSET S : IsFiniteSet(T) /\ Cardinality(T) \in Nat
  BY FS_Subset, FS_CardinalityType
<1>1. 0 \in P
  <2> SUFFICES ASSUME NEW T \in SUBSET S, Cardinality(T) = 0
               PROVE  \E b \in Nat : \A t \in T : t <= b
    OBVIOUS
  <2>1. T = {}
    BY <1>0, FS_EmptySet
  <2> QED
    BY <2>1
<1>2. \A n \in Nat : n \in P => n + 1 \in P
  <2> HIDE DEF Bounded
  <2> SUFFICES ASSUME NEW n \in Nat, n \in P, NEW T \in SUBSET S, Cardinality(T) = n + 1
               PROVE  Bounded(T)
    OBVIOUS
  <2>1. PICK x \in T : TRUE
    <3>1. T # {}
      BY FS_EmptySet
    <3> QED
      BY <3>1
  <2>2. T \ {x} \in SUBSET S /\ Cardinality(T \ {x}) = n
    <3>1. Cardinality(T \ {x}) = Cardinality(T) - 1
      BY <1>0, <2>1, FS_RemoveElement
    <3> QED
      BY <3>1
  <2>3. PICK b \in Nat : \A t \in T \ {x} : t <= b
    BY <2>2 DEF Bounded
  <2> DEFINE c == IF b < x THEN x ELSE b
  <2>4. c \in Nat /\ \A t \in T : t <= c
    BY <2>3
  <2> QED
    BY <2>4 DEF Bounded
<1>3. Cardinality(S) \in P
  <2> HIDE DEF P
  <2>1. Nat \subseteq P
    BY <1>1, <1>2, NatSetInduction
  <2> QED
    BY <2>1, FS_CardinalityType
<1> QED
  BY <1>3

(* A finite non-empty set of naturals has a greatest element. *)
LEMMA Greatest ==
  ASSUME NEW S \in SUBSET Nat, IsFiniteSet(S), S # {}
  PROVE  \E top \in S : \A s \in S : s <= top
<1> DEFINE D == {m \in Nat : \A s \in S : s <= m}
<1>1. D # {}
  <2>1. \E b \in Nat : \A s \in S : s <= b
    BY UpperBound
  <2> QED
    BY <2>1
<1>2. PICK m \in D : \A k \in D : m <= k
  <2> HIDE DEF D
  <2>1. D \in SUBSET Nat
    BY DEF D
  <2> QED
    BY <1>1, <2>1, NatLeast
<1>3. m \in S
  <2> SUFFICES ASSUME m \notin S
               PROVE  FALSE
    OBVIOUS
  <2>1. \A s \in S : s < m /\ s \in Nat
    BY <1>2
  <2>2. m \in Nat /\ m - 1 \in Nat
    <3>1. PICK s \in S : TRUE
      OBVIOUS
    <3>2. s < m /\ s \in Nat /\ m \in Nat
      BY <2>1, <3>1
    <3> QED
      BY <3>2
  <2>3. m - 1 \in D
    BY <2>1, <2>2
  <2> HIDE DEF D
  <2>4. m <= m - 1
    BY <1>2, <2>3
  <2> QED
    BY <2>2, <2>4
<1> QED
  BY <1>2, <1>3

(* There is such an enumeration. *)
LEMMA AscendingExists ==
  ASSUME NEW S \in SUBSET Nat, IsFiniteSet(S)
  PROVE  \E f \in [1 .. Cardinality(S) -> S] : Ascends(f)
<1> DEFINE P == {n \in Nat : \A T \in SUBSET S : Cardinality(T) = n =>
                   \E f \in [1 .. n -> T] : Ascends(f)}
<1>0. \A T \in SUBSET S : IsFiniteSet(T) /\ Cardinality(T) \in Nat
  BY FS_Subset, FS_CardinalityType
<1>1. 0 \in P
  <2> SUFFICES ASSUME NEW T \in SUBSET S
               PROVE  \E f \in [1 .. 0 -> T] : Ascends(f)
    OBVIOUS
  <2> DEFINE f == [i \in 1 .. 0 |-> 0]
  <2>1. f \in [1 .. 0 -> T] /\ Ascends(f)
    BY DEF Ascends
  <2> QED
    BY <2>1
<1>2. \A n \in Nat : n \in P => n + 1 \in P
  <2> SUFFICES ASSUME NEW n \in Nat, n \in P, NEW T \in SUBSET S, Cardinality(T) = n + 1
               PROVE  \E f \in [1 .. n + 1 -> T] : Ascends(f)
    OBVIOUS
  <2>1. T # {} /\ IsFiniteSet(T)
    BY <1>0, FS_EmptySet
  <2>2. PICK top \in T : \A t \in T : t <= top
    <3>1. T \in SUBSET Nat
      OBVIOUS
    <3> QED
      BY <2>1, <3>1, Greatest
  <2> DEFINE U == T \ {top}
  <2>3. U \in SUBSET S /\ Cardinality(U) = n
    <3>1. Cardinality(U) = Cardinality(T) - 1
      BY <2>1, <2>2, FS_RemoveElement
    <3> QED
      BY <3>1
  <2>4. PICK f \in [1 .. n -> U] : Ascends(f)
    BY <2>3
  <2> DEFINE g == [i \in 1 .. n + 1 |-> IF i = n + 1 THEN top ELSE f[i]]
  <2>5. \A i \in 1 .. n + 1 : i # n + 1 => i \in 1 .. n
    OBVIOUS
  <2>6. g \in [1 .. n + 1 -> T]
    <3>1. \A i \in 1 .. n : f[i] \in T
      OBVIOUS
    <3> QED
      BY <2>2, <2>5, <3>1
  <2>7. Ascends(g)
    <3> SUFFICES ASSUME NEW i \in 1 .. n + 1, NEW j \in 1 .. n + 1, i < j
                 PROVE  g[i] < g[j]
      BY DEF Ascends
    <3>1. i \in 1 .. n /\ g[i] = f[i]
      OBVIOUS
    <3>2. CASE j = n + 1
      <4>1. f[i] \in T /\ f[i] # top /\ f[i] \in Nat /\ top \in Nat /\ f[i] <= top
        BY <2>2, <3>1
      <4> QED
        BY <3>1, <3>2, <4>1
    <3>3. CASE j # n + 1
      BY <2>4, <2>5, <3>1, <3>3 DEF Ascends
    <3> QED
      BY <3>2, <3>3
  <2> HIDE DEF g
  <2> QED
    BY <2>6, <2>7
<1>3. Cardinality(S) \in P
  <2> HIDE DEF P
  <2>1. Nat \subseteq P
    BY <1>1, <1>2, NatSetInduction
  <2> QED
    BY <2>1, FS_CardinalityType
<1> QED
  BY <1>3

(* Hence Ascending is one. *)
LEMMA AscendingIs ==
  ASSUME NEW S \in SUBSET Nat, IsFiniteSet(S)
  PROVE  /\ Ascending(S) \in [1 .. Cardinality(S) -> S]
         /\ Ascends(Ascending(S))
         /\ \A s \in S : \E i \in 1 .. Cardinality(S) : Ascending(S)[i] = s
<1>1. /\ Ascending(S) \in [1 .. Cardinality(S) -> S]
      /\ Ascends(Ascending(S))
  BY AscendingExists DEF Ascending, Ascends
<1> QED
  BY <1>1, AscendingOnto

-----------------------------------------------------------------------------
(***************************************************************************)
(* Alignment keeps a set of edges, ascending, each with a boundary on both *)
(* sides, which ascend with them.                                          *)
(***************************************************************************)
Kept(S, n, b1, b2) == S \in SUBSET (1 .. n) /\ \A i \in 1 .. n : i \in S <=> Keeps(S, i, b1, b2)

LEMMA KeptExists ==
  ASSUME NEW n \in Nat, NEW b1, NEW b2
  PROVE  \E S : Kept(S, n, b1, b2)
<1> DEFINE P == {m \in Nat : \E S : Kept(S, m, b1, b2)}
<1>1. 0 \in P
  <2>1. Kept({}, 0, b1, b2)
    BY DEF Kept
  <2> QED
    BY <2>1
<1>2. \A m \in Nat : m \in P => m + 1 \in P
  <2> SUFFICES ASSUME NEW m \in Nat, NEW S, Kept(S, m, b1, b2)
               PROVE  \E T : Kept(T, m + 1, b1, b2)
    OBVIOUS
  <2> DEFINE T == IF Keeps(S, m + 1, b1, b2) THEN S \cup {m + 1} ELSE S
  <2>1. S \in SUBSET (1 .. m) /\ T \in SUBSET (1 .. m + 1) /\ \A k \in 1 .. m : k \in T <=> k \in S
    BY DEF Kept
  <2>2. \A i \in 1 .. m + 1 : Keeps(T, i, b1, b2) <=> Keeps(S, i, b1, b2)
    <3> SUFFICES ASSUME NEW i \in 1 .. m + 1
                 PROVE  Keeps(T, i, b1, b2) <=> Keeps(S, i, b1, b2)
      OBVIOUS
    <3>1. \A k \in T : k < i => k \in S
      BY <2>1
    <3>2. \A k \in S : k \in T
      OBVIOUS
    <3> HIDE DEF T
    <3> QED
      BY <3>1, <3>2 DEF Keeps
  <2>3. m + 1 \in T <=> Keeps(S, m + 1, b1, b2)
    BY <2>1
  <2>4. \A i \in 1 .. m : i \in T <=> Keeps(S, i, b1, b2)
    BY <2>1 DEF Kept
  <2>5. \A i \in 1 .. m + 1 : i \in 1 .. m \/ i = m + 1
    OBVIOUS
  <2> HIDE DEF T
  <2>6. Kept(T, m + 1, b1, b2)
    BY <2>1, <2>2, <2>3, <2>4, <2>5 DEF Kept
  <2> QED
    BY <2>6
<1>3. Nat \subseteq P
  <2> HIDE DEF P
  <2> QED
    BY <1>1, <1>2, NatSetInduction
<1> QED
  BY <1>3

(* The indices a of the entries that two sequences and edges keep. *)
Selects(a, m, k, edges, b1, b2) ==
  /\ a \in [1 .. m -> DOMAIN edges]
  /\ k.edges = [i \in 1 .. m |-> edges[a[i]]]
  /\ k.thresholds[1] = [i \in 1 .. m |-> b1[a[i]]]
  /\ k.thresholds[2] = [i \in 1 .. m |-> b2[a[i]]]
  /\ \A i \in 1 .. m : None \notin {b1[a[i]], b2[a[i]]}
  /\ \A i, j \in 1 .. m : i < j => a[i] < a[j] /\ b1[a[i]] < b1[a[j]] /\ b2[a[i]] < b2[a[j]]

LEMMA AlignedEdges ==
  ASSUME NEW n \in Nat, NEW edges, DOMAIN edges = 1 .. n, NEW b1, NEW b2
  PROVE  \E m \in Nat : \E a : Selects(a, m, AlignBucketBoundaries(edges, b1, b2), edges, b1, b2)
<1> DEFINE S == CHOOSE S \in SUBSET DOMAIN edges :
                  \A i \in DOMAIN edges : i \in S <=> Keeps(S, i, b1, b2)
           a == Ascending(S)
           m == Cardinality(S)
           k == AlignBucketBoundaries(edges, b1, b2)
<1>1. Kept(S, n, b1, b2)
  <2>1. \E T \in SUBSET DOMAIN edges : \A i \in DOMAIN edges : i \in T <=> Keeps(T, i, b1, b2)
    BY KeptExists DEF Kept
  <2>2. /\ S \in SUBSET DOMAIN edges
        /\ \A i \in DOMAIN edges : i \in S <=> Keeps(S, i, b1, b2)
    BY <2>1
  <2> HIDE DEF S
  <2> QED
    BY <2>2 DEF Kept
<1>2. k = [edges |-> Entries(edges, S), thresholds |-> <<Entries(b1, S), Entries(b2, S)>>]
  BY DEF AlignBucketBoundaries
<1> HIDE DEF S, k
<1>3. S \in SUBSET Nat /\ IsFiniteSet(S) /\ m \in Nat
  <2>1. IsFiniteSet(1 .. n) /\ S \in SUBSET (1 .. n)
    BY <1>1, FS_Interval DEF Kept
  <2>2. IsFiniteSet(S)
    BY <2>1, FS_Subset
  <2> QED
    BY <2>1, <2>2, FS_CardinalityType
<1>4. a \in [1 .. m -> S] /\ Ascends(a)
  BY <1>3, AscendingIs
<1>5. \A seq : Entries(seq, S) = [i \in 1 .. m |-> seq[a[i]]]
  BY <1>4 DEF Entries
<1> HIDE DEF a, m
<1>6. \A i \in 1 .. m : a[i] \in S /\ a[i] \in 1 .. n /\ a[i] \in Nat
  BY <1>1, <1>3, <1>4 DEF Kept
<1>7. \A i \in 1 .. m : None \notin {b1[a[i]], b2[a[i]]}
  BY <1>1, <1>6 DEF Kept, Keeps
<1>8. \A i, j \in 1 .. m : i < j => a[i] < a[j]
  BY <1>4 DEF Ascends
<1>9. \A i, j \in 1 .. m : i < j => b1[a[i]] < b1[a[j]] /\ b2[a[i]] < b2[a[j]]
  BY <1>1, <1>6, <1>8 DEF Kept, Keeps
<1>10. /\ k.edges = [i \in 1 .. m |-> edges[a[i]]]
       /\ k.thresholds[1] = [i \in 1 .. m |-> b1[a[i]]]
       /\ k.thresholds[2] = [i \in 1 .. m |-> b2[a[i]]]
  BY <1>2, <1>5
<1>11. a \in [1 .. m -> DOMAIN edges]
  BY <1>4, <1>6
<1>12. Selects(a, m, k, edges, b1, b2)
  BY <1>7, <1>8, <1>9, <1>10, <1>11 DEF Selects
<1> QED
  BY <1>3, <1>12 DEF k

(* The greater of two integers. *)
LEMMA MaxOfTwo ==
  ASSUME NEW x \in Int, NEW y \in Int
  PROVE  Max({x, y}) \in {x, y} /\ x <= Max({x, y}) /\ y <= Max({x, y})
<1>1. \E m \in {x, y} : \A k \in {x, y} : m >= k
  OBVIOUS
<1>2. Max({x, y}) \in {x, y} /\ \A k \in {x, y} : Max({x, y}) >= k
  BY <1>1 DEF Max
<1> QED
  BY <1>2

(* Floor division. *)
LEMMA Quotient ==
  ASSUME NEW c \in Nat, NEW w \in Nat, 1 <= w
  PROVE  c \div w \in Nat /\ (c \div w) * w <= c
  OBVIOUS

(* The edges of the buckets ascend from 0 to the cutoff. *)
LEMMA EdgesAscend ==
  LET edges == BlockEdges(Cutoff, NumBuckets)
  IN  /\ edges \in Seq(0 .. Cutoff)
      /\ Ascends(edges)
<1> DEFINE x == Max({1, NumBuckets})
           w == Max({1, Cutoff \div x})
           q == Cutoff \div w
           even == [i \in 1 .. q + 1 |-> (i - 1) * w]
<1>0. Cutoff \in Nat /\ NumBuckets \in Int
  BY LocalizeAssumption
<1>1. x \in Nat /\ 1 <= x
  BY <1>0, MaxOfTwo
<1> HIDE DEF x
<1>2. Cutoff \div x \in Int
  BY <1>0, <1>1
<1>3. w \in Nat /\ 1 <= w
  BY <1>2, MaxOfTwo
<1> HIDE DEF w
<1>4. q \in Nat /\ q * w <= Cutoff
  BY <1>0, <1>3, Quotient
<1> HIDE DEF q
<1>5. \A i, j \in 1 .. q + 1 : i < j => (i - 1) * w < (j - 1) * w
  <2> SUFFICES ASSUME NEW i \in 1 .. q + 1, NEW j \in 1 .. q + 1, i < j
               PROVE  (i - 1) * w < (j - 1) * w
    OBVIOUS
  <2>1. (j - 1) * w = (i - 1) * w + (j - i) * w
    BY <1>3, <1>4
  <2>2. (j - i) * w >= 1
    BY <1>3, <1>4
  <2>3. (i - 1) * w \in Int /\ (j - i) * w \in Int
    BY <1>3, <1>4
  <2> QED
    BY <2>1, <2>2, <2>3
<1>6. \A i \in 1 .. q + 1 : (i - 1) * w \in 0 .. Cutoff
  <2> SUFFICES ASSUME NEW i \in 1 .. q + 1
               PROVE  (i - 1) * w \in 0 .. Cutoff
    OBVIOUS
  <2>1. (i - 1) * w >= 0
    BY <1>3, <1>4
  <2>2. q * w = (i - 1) * w + (q - (i - 1)) * w
    BY <1>3, <1>4
  <2>3. (q - (i - 1)) * w >= 0
    BY <1>3, <1>4
  <2>4. (i - 1) * w \in Int /\ (q - (i - 1)) * w \in Int /\ q * w \in Int
    BY <1>3, <1>4
  <2> QED
    BY <1>4, <2>1, <2>2, <2>3, <2>4, <1>0
<1>7. even \in Seq(0 .. Cutoff) /\ Len(even) = q + 1 /\ Ascends(even)
  <2>1. even \in [1 .. q + 1 -> 0 .. Cutoff]
    BY <1>6
  <2>2. q + 1 \in Nat
    BY <1>4
  <2>3. even \in Seq(0 .. Cutoff) /\ Len(even) = q + 1
    BY <2>1, <2>2, FunctionIsSeq
  <2> QED
    BY <1>5, <2>3 DEF Ascends
<1> DEFINE edges == IF Last(even) = Cutoff THEN even ELSE Append(even, Cutoff)
<1>8. BlockEdges(Cutoff, NumBuckets) = edges
  BY DEF BlockEdges, x, w, q
<1>9. edges \in Seq(0 .. Cutoff) /\ Ascends(edges)
  <2>1. CASE Last(even) = Cutoff
    <3> HIDE DEF even
    <3>1. edges = even
      BY <2>1
    <3> QED
      BY <1>7, <3>1
  <2>2. CASE Last(even) # Cutoff
    <3> HIDE DEF even
    <3>1. edges = Append(even, Cutoff)
      BY <2>2
    <3> HIDE DEF edges
    <3>2. Cutoff \in 0 .. Cutoff
      BY <1>0
    <3>3. /\ edges \in Seq(0 .. Cutoff)
          /\ Len(edges) = q + 2
          /\ \A i \in 1 .. q + 1 : edges[i] = even[i]
          /\ edges[q + 2] = Cutoff
      BY <1>4, <1>7, <3>1, <3>2, AppendProperties
    <3>4. even[q + 1] < Cutoff
      <4>1. even[q + 1] \in 0 .. Cutoff /\ even[q + 1] # Cutoff
        <5>1. q + 1 \in 1 .. Len(even) /\ Last(even) = even[q + 1]
          BY <1>4, <1>7 DEF Last
        <5> QED
          BY <1>7, <2>2, <5>1, ElementOfSeq
      <4> QED
        BY <4>1, <1>0
    <3>5. \A i \in 1 .. q + 1 : even[i] < Cutoff
      <4> SUFFICES ASSUME NEW i \in 1 .. q + 1
                   PROVE  even[i] < Cutoff
        OBVIOUS
      <4>1. i < q + 1 => even[i] < even[q + 1]
        BY <1>4, <1>7 DEF Ascends
      <4>2. even[i] \in 0 .. Cutoff /\ even[q + 1] \in 0 .. Cutoff
        <5>1. i \in 1 .. Len(even) /\ q + 1 \in 1 .. Len(even)
          BY <1>4, <1>7
        <5> QED
          BY <1>7, <5>1, ElementOfSeq
      <4> QED
        BY <1>4, <3>4, <4>1, <4>2, <1>0
    <3>6. Ascends(edges)
      <4> SUFFICES ASSUME NEW i \in 1 .. q + 2, NEW j \in 1 .. q + 2, i < j
                   PROVE  edges[i] < edges[j]
        BY <3>3 DEF Ascends
      <4>1. i \in 1 .. q + 1 /\ edges[i] = even[i]
        BY <1>4, <3>3
      <4>2. CASE j = q + 2
        BY <3>3, <3>5, <4>1, <4>2
      <4>3. CASE j # q + 2
        <5>1. j \in 1 .. q + 1 /\ edges[j] = even[j]
          BY <1>4, <3>3, <4>3
        <5> QED
          BY <1>7, <4>1, <5>1 DEF Ascends
      <4> QED
        BY <4>2, <4>3
    <3> QED
      BY <3>3, <3>6
  <2> QED
    BY <2>1, <2>2
<1> HIDE DEF edges
<1> QED
  BY <1>8, <1>9

-----------------------------------------------------------------------------
(***************************************************************************)
(* Rows whose keys never decrease along their ids: the first by key and id *)
(* has the least id, the last the greatest.                                *)
(***************************************************************************)
Sorted(S) ==
  /\ IsFiniteSet(S)
  /\ \A r \in S : r.id \in Nat /\ r.key \in Nat
  /\ \A r, q \in S : r.id <= q.id => r.key <= q.key

LEMMA FirstAndLast ==
  ASSUME NEW S, Sorted(S), S # {}
  PROVE  /\ FirstRow(S) \in S /\ \A r \in S : FirstRow(S).id <= r.id /\ FirstRow(S).key <= r.key
         /\ LastRow(S) \in S /\ \A r \in S : r.id <= LastRow(S).id /\ r.key <= LastRow(S).key
<1> DEFINE Id == [r \in S |-> r.id]
           ids == {Id[r] : r \in S}
<1>0. /\ IsFiniteSet(S)
      /\ \A r \in S : r.id \in Nat /\ r.key \in Nat
      /\ \A r, q \in S : r.id <= q.id => r.key <= q.key
  BY DEF Sorted
<1>1. ids \in SUBSET Nat /\ ids # {} /\ \A r \in S : r.id \in ids
  BY <1>0
<1>2. IsFiniteSet(ids)
  <2> HIDE DEF Id
  <2> QED
    BY <1>0, ImageFinite
<1>3. \A m \in ids : \E r \in S : r.id = m
  OBVIOUS
<1> HIDE DEF ids
<1>4. \E f \in S : \A r \in S : Before(f, r)
  <2>1. PICK m \in ids : \A n \in ids : m <= n
    BY <1>1, NatLeast
  <2>2. PICK f \in S : f.id = m
    BY <1>3
  <2>3. \A r \in S : f.id <= r.id /\ f.key <= r.key
    BY <1>0, <1>1, <2>1, <2>2
  <2> QED
    BY <1>0, <2>3 DEF Before
<1>5. \E l \in S : \A r \in S : Before(r, l)
  <2>1. PICK m \in ids : \A n \in ids : n <= m
    BY <1>1, <1>2, Greatest
  <2>2. PICK l \in S : l.id = m
    BY <1>3
  <2>3. \A r \in S : r.id <= l.id /\ r.key <= l.key
    BY <1>0, <1>1, <2>1, <2>2
  <2> QED
    BY <1>0, <2>3 DEF Before
<1>6. FirstRow(S) \in S /\ \A r \in S : Before(FirstRow(S), r)
  BY <1>4 DEF FirstRow
<1>7. LastRow(S) \in S /\ \A r \in S : Before(r, LastRow(S))
  BY <1>5 DEF LastRow
<1>8. \A r, q \in S : Before(r, q) => r.id <= q.id /\ r.key <= q.key
  BY <1>0 DEF Before
<1> QED
  BY <1>6, <1>7, <1>8

(* The subsets of a sorted set are sorted. *)
LEMMA SortedSubset ==
  ASSUME NEW S, Sorted(S), NEW T \in SUBSET S
  PROVE  Sorted(T)
  BY FS_Subset DEF Sorted

(* The rows whose key is between lo and hi. *)
KeysIn(S, lo, hi) == {r \in S : Between(r.key, lo, hi)}

(***************************************************************************)
(* The range of the rows whose key is between lo and hi reaches from one   *)
(* of them to another, and holds them all.                                 *)
(***************************************************************************)
LEMMA MinmaxSpans ==
  ASSUME NEW S, NEW lo \in Nat, NEW hi \in Nat,
         Sorted(KeysIn(S, lo, hi))
  PROVE  LET in    == KeysIn(S, lo, hi)
             range == Minmax(S, lo, hi)
         IN  \/ in = {} /\ range = NoRange
             \/ /\ \E f, l \in in : range.lo = f.id /\ range.hi = l.id
                /\ \A r \in in : range.lo <= r.id /\ r.id <= range.hi
<1> DEFINE in == KeysIn(S, lo, hi)
<1>1. CASE in = {}
  BY <1>1 DEF Minmax, KeysIn
<1>2. CASE in # {}
  <2>1. Minmax(S, lo, hi) = [lo |-> FirstRow(in).id, hi |-> LastRow(in).id]
    BY <1>2 DEF Minmax, KeysIn
  <2>2. /\ FirstRow(in) \in in /\ \A r \in in : FirstRow(in).id <= r.id
        /\ LastRow(in) \in in /\ \A r \in in : r.id <= LastRow(in).id
    <3>1. Sorted(in)
      OBVIOUS
    <3> HIDE DEF in
    <3> QED
      BY <1>2, <3>1, FirstAndLast
  <2> DEFINE range == Minmax(S, lo, hi)
  <2>3. range.lo = FirstRow(in).id /\ range.hi = LastRow(in).id
    BY <2>1
  <2> HIDE DEF range
  <2>4. /\ \E f, l \in in : range.lo = f.id /\ range.hi = l.id
        /\ \A r \in in : range.lo <= r.id /\ r.id <= range.hi
    <3> HIDE DEF in
    <3> QED
      BY <2>2, <2>3
  <2> QED
    BY <2>4 DEF range
<1> QED
  BY <1>1, <1>2

-----------------------------------------------------------------------------
(***************************************************************************)
(* The boundary ids of a snapshot: naturals, or None past the end.         *)
(***************************************************************************)
LEMMA SnapshotsGood ==
  ASSUME NEW t \in Tables, NEW x \in Databases[t], NEW d \in DB, NEW i \in 1 .. Len(x.history[d])
  PROVE  /\ WellTyped(x.history[d][i])
         /\ InChainOrder(x.history[d][i])
         /\ Linked(x.history[d][i])
  BY DatabasesAssumption DEF DB

(* The tables of the spine are sorted, blocks as far as they have a number. *)
LEMMA SpineSorted ==
  ASSUME NEW S, WellTyped(S), InChainOrder(S)
  PROVE  /\ Sorted({b \in S["block"] : b.key # None})
         /\ Sorted(S["tx"]) /\ Sorted(S["leaf"])
<1>1. Sorted(S["tx"]) /\ Sorted(S["leaf"])
  BY DEF Sorted, WellTyped, InChainOrder, Spine
<1>2. Sorted({b \in S["block"] : b.key # None})
  <2> DEFINE B == {b \in S["block"] : b.key # None}
  <2>1. IsFiniteSet(S["block"]) /\ B \in SUBSET S["block"]
    BY DEF WellTyped, Spine
  <2>2. IsFiniteSet(B)
    BY <2>1, FS_Subset
  <2>3. \A b \in B : b.id \in Nat /\ b.pos \in Pos /\ b.key = BlockNo[b.pos] /\ b.pos \in Numbered
    BY DEF WellTyped, InChainOrder, Spine, Numbered
  <2>4. \A p \in Numbered : p \in Nat /\ BlockNo[p] \in Nat
    <3>1. \A p \in Pos : p \in Nat /\ BlockNo[p] \in Nat \cup {None}
      BY LocalizeAssumption, LenProperties, ElementOfSeq DEF Pos
    <3> QED
      BY <3>1 DEF Numbered
  <2>5. \A r, q \in B : r.id <= q.id => r.key <= q.key
    <3> SUFFICES ASSUME NEW r \in B, NEW q \in B, r.id <= q.id
                 PROVE  r.key <= q.key
      OBVIOUS
    <3>1. r.pos <= q.pos
      BY DEF InChainOrder, Spine
    <3>2. r.pos < q.pos => BlockNo[r.pos] < BlockNo[q.pos]
      BY <2>3, LocalizeAssumption
    <3> HIDE DEF B
    <3>3. r.pos \in Nat /\ q.pos \in Nat /\ r.key = BlockNo[r.pos] /\ q.key = BlockNo[q.pos]
          /\ BlockNo[r.pos] \in Nat /\ BlockNo[q.pos] \in Nat
      BY <2>3, <2>4
    <3>4. r.pos = q.pos \/ r.pos < q.pos
      BY <3>1, <3>3
    <3> QED
      BY <3>2, <3>3, <3>4
  <2> HIDE DEF B
  <2>6. Sorted(B)
    BY <2>2, <2>3, <2>4, <2>5 DEF Sorted
  <2> QED
    BY <2>6 DEF B
<1> QED
  BY <1>1, <1>2

(* The first row from a key on. *)
LEMMA FirstFromIs ==
  ASSUME NEW S, NEW v \in Nat \cup {None}, Sorted({r \in S : r.key # None})
  PROVE  \/ FirstFrom(S, v) = None /\ (v # None => \A r \in S : r.key # None => r.key < v)
         \/ v # None /\ \E f \in S : /\ f.key # None /\ v <= f.key
                                    /\ FirstFrom(S, v) = f.id /\ f.id \in Nat
                                    /\ \A r \in S : r.key # None /\ v <= r.key => f.id <= r.id
<1> DEFINE Keyed == {r \in S : r.key # None}
           from == {r \in S : None \notin {v, r.key} /\ v <= r.key}
<1>1. \A r \in S : r.key # None => r.key \in Nat /\ r.id \in Nat
  BY DEF Sorted
<1>2. Sorted(from)
  <2>1. from \in SUBSET Keyed
    OBVIOUS
  <2> HIDE DEF from
  <2> QED
    BY <2>1, SortedSubset
<1>3. CASE from = {}
  <2>1. FirstFrom(S, v) = None
    BY <1>3 DEF FirstFrom
  <2>2. v # None => \A r \in S : r.key # None => r.key < v
    BY <1>1, <1>3
  <2> QED
    BY <2>1, <2>2
<1>4. CASE from # {}
  <2> DEFINE f == FirstRow(from)
  <2>1. FirstFrom(S, v) = f.id
    BY <1>4 DEF FirstFrom
  <2>2. f \in from /\ \A r \in from : f.id <= r.id
    <3> HIDE DEF from
    <3> QED
      BY <1>2, <1>4, FirstAndLast
  <2> HIDE DEF f
  <2>3. /\ f \in S /\ v # None /\ f.key # None /\ v <= f.key /\ f.id \in Nat
        /\ \A r \in S : r.key # None /\ v <= r.key => f.id <= r.id
    BY <1>1, <2>2
  <2> QED
    BY <2>1, <2>3
<1> QED
  BY <1>3, <1>4

LEMMA BoundaryType ==
  ASSUME NEW S, WellTyped(S), InChainOrder(S), NEW s \in Spine, NEW edge \in Nat
  PROVE  BoundaryId(S, s, edge) \in Nat \cup {None}
<1> DEFINE b == FirstFrom(S["block"], edge)
           t == FirstFrom(S["tx"], b)
           l == FirstFrom(S["leaf"], t)
<1>0. BoundaryId(S, s, edge) = CASE s = "block" -> b [] s = "tx" -> t [] s = "leaf" -> l
  BY DEF BoundaryId
<1>1. b \in Nat \cup {None}
  <2>1. Sorted({r \in S["block"] : r.key # None})
    BY SpineSorted
  <2> QED
    BY <2>1, FirstFromIs
<1> HIDE DEF b
<1>2. t \in Nat \cup {None}
  <2>1. Sorted({r \in S["tx"] : r.key # None})
    <3>1. {r \in S["tx"] : r.key # None} \in SUBSET S["tx"]
      OBVIOUS
    <3> QED
      BY <3>1, SpineSorted, SortedSubset
  <2> QED
    BY <1>1, <2>1, FirstFromIs
<1> HIDE DEF t
<1>3. l \in Nat \cup {None}
  <2>1. Sorted({r \in S["leaf"] : r.key # None})
    <3>1. {r \in S["leaf"] : r.key # None} \in SUBSET S["leaf"]
      OBVIOUS
    <3> QED
      BY <3>1, SpineSorted, SortedSubset
  <2> QED
    BY <1>2, <2>1, FirstFromIs
<1> HIDE DEF l
<1> QED
  BY <1>0, <1>1, <1>2, <1>3 DEF Spine

(* A row is at or after the first row from a key on if its key is. *)
LEMMA FirstFromReached ==
  ASSUME NEW S, Sorted({r \in S : r.key # None}), NEW v \in Nat \cup {None},
         FirstFrom(S, v) # None, NEW r \in S, r.key # None
  PROVE  v \in Nat /\ FirstFrom(S, v) \in Nat /\ (FirstFrom(S, v) <= r.id <=> v <= r.key)
<1>1. v # None /\ v \in Nat
  BY FirstFromIs
<1>2. PICK f \in S : /\ f.key # None /\ v <= f.key
                     /\ FirstFrom(S, v) = f.id /\ f.id \in Nat
                     /\ \A q \in S : q.key # None /\ v <= q.key => f.id <= q.id
  BY FirstFromIs
<1>3. f.key \in Nat /\ r.key \in Nat /\ r.id \in Nat /\ (f.id <= r.id => f.key <= r.key)
  BY <1>2 DEF Sorted
<1>4. f.id <= r.id => v <= r.key
  BY <1>1, <1>2, <1>3
<1> QED
  BY <1>1, <1>2, <1>4

-----------------------------------------------------------------------------
(***************************************************************************)
(* The inductive invariant.  What it says of the databases is said by      *)
(* operators of the table t and the pair of databases x, which no step     *)
(* changes.                                                                *)
(***************************************************************************)
TopOf(t) == IF t = "epoch" THEN CutoffEpoch ELSE Cutoff

SettledOf(t, x) == IF x.settled < TopOf(t) THEN x.settled ELSE TopOf(t)

(* The snapshots of database d, and four of them: three range queries and a hash. *)
At(x, d) == 1 .. Len(x.history[d])

Four(x, d) == At(x, d) \X At(x, d) \X At(x, d) \X At(x, d)

(* What the queries of IdRangeRows and WindowRows answer. *)
RangesAt(x, d, l, window) ==
  ComputeSpineRanges([s \in Spine |-> CASE s = "block" -> x.history[d][l[1]][s]
                                        [] s = "tx"    -> x.history[d][l[2]][s]
                                        [] s = "leaf"  -> x.history[d][l[3]][s]],
                     Cutoff, window)

IdRangeRowsAt(t, x, d, l, window) ==
  Selected(t, x.history[d][l[4]], RangesAt(x, d, l, window)[AnchorSpine(t)])

RowsAt(t, x, d, l, w) ==
  IF t = "epoch" THEN {r \in x.history[d][l[4]]["epoch"] : Between(r.key, w.lo, w.hi)}
                 ELSE IdRangeRowsAt(t, x, d, l, <<w.lo, w.hi>>)

NullRowsAt(t, x, d, i) ==
  IF t = "committee"
  THEN {r \in x.history[d][i]["committee"] : r.key = None /\ Between(r.shown, 0, CutoffEpoch)}
  ELSE {}

NumberAt(t, r) == IF t = "epoch" THEN r.key ELSE IF r.pos = 0 THEN None ELSE BlockNo[r.pos]

(* The settled rows with number c, and where the databases have other ones. *)
RowsOf(t, x, d, c) == {r \in TableRows(t, x.history[d][1]) : NumberAt(t, r) = c}

DiffersAt(t, x, c) == c \in 0 .. SettledOf(t, x) /\ SetHash(RowsOf(t, x, 1, c)) # SetHash(RowsOf(t, x, 2, c))

(* Whatever snapshots are asked, the window differs. *)
AlwaysDiffers(t, x, w) ==
  \A l1 \in Four(x, 1), l2 \in Four(x, 2) : SetHash(RowsAt(t, x, 1, l1, w)) # SetHash(RowsAt(t, x, 2, l2, w))

Windows(t) == {w \in [lo : 0 .. TopOf(t), hi : 0 .. TopOf(t)] : w.lo <= w.hi}

AlignmentAt(t, x, i, j) ==
  LET edges == BlockEdges(Cutoff, NumBuckets)
  IN  AlignBucketBoundaries(edges, BucketBoundaryIds(x.history[1][i], AnchorSpine(t), edges),
                                   BucketBoundaryIds(x.history[2][j], AnchorSpine(t), edges))

Alignments(t, x) ==
  {AlignmentAt(t, x, i, j) : i \in At(x, 1), j \in At(x, 2)}

InputInv ==
  /\ table \in Tables /\ dbs \in Databases[table] /\ limits \in Limits
  /\ \A d \in DB : now[d] \in At(dbs, d)

CourseInv ==
  /\ pc \in {"align", "hash", "search", "nullrows", "done"}
  /\ pc = "align" => ByBuckets /\ stack = <<>>
  /\ pc \in {"align", "hash"} => found = <<>>
  /\ pc = "hash" => ByBuckets /\ Len(kept.edges) >= 2
  /\ pc = "search" => ~(ByBuckets /\ Len(kept.edges) >= 2)
  /\ pc \in {"align", "hash", "search"} => errors = {}
  /\ errors \subseteq {"windows", "rows"}
  /\ truncated \in BOOLEAN /\ noBlock \in BOOLEAN

WindowInv ==
  /\ stack \in Seq(Windows(table)) /\ found \in Seq(Windows(table))
  /\ kept = NothingKept \/ (~OnEpochs /\ kept \in Alignments(table, dbs))

(* Narrow windows found in ascending order, below those on the stack. *)
LowestAbove(ws, stk, narrow) ==
  /\ \A i, j \in DOMAIN ws : i < j => ws[i].hi < ws[j].lo
  /\ \A i, j \in DOMAIN stk : i < j => stk[j].hi < stk[i].lo
  /\ \A i \in DOMAIN ws, j \in DOMAIN stk : ws[i].hi < stk[j].lo
  /\ \A i \in DOMAIN ws : ws[i].hi - ws[i].lo <= narrow

OrderInv == Bisecting => LowestAbove(found, stack, Narrow)

DifferInv ==
  Bisecting =>
    \A i \in DOMAIN found :
      found[i].hi <= SettledOf(table, dbs) => AlwaysDiffers(table, dbs, found[i])

(* c is in a window of one of two sequences. *)
Holds(seq, c) == \E i \in DOMAIN seq : seq[i].lo <= c /\ c <= seq[i].hi

CoverInv ==
  Bisecting /\ pc # "align" /\ dbs.tied =>
    \A c \in Nat : DiffersAt(table, dbs, c) => Holds(stack, c) \/ Holds(found, c)

NullInv ==
  pc = "done" =>
    "rows" \in errors
      \/ noBlock = (SetHash(NullRowsAt(table, dbs, 1, 1)) # SetHash(NullRowsAt(table, dbs, 2, 1)))

LocalizeInv ==
  InputInv /\ CourseInv /\ WindowInv /\ OrderInv /\ DifferInv /\ CoverInv /\ NullInv

(* These are the model's own answers. *)
LEMMA RowsAtIs ==
  ASSUME NEW d, NEW l, NEW w
  PROVE  WindowRows(d, l, w) = RowsAt(table, dbs, d, l, w)
  BY DEF WindowRows, OnEpochs, Snapshot, RowsAt, IdRangeRows, IdRangeRowsAt, RangesAt

LEMMA NullRowsAtIs ==
  ASSUME NEW d, NEW i
  PROVE  NullRows(d, i) = NullRowsAt(table, dbs, d, i)
  BY DEF NullRows, NullRowsAt, Snapshot

LEMMA AlignmentAtIs ==
  ASSUME NEW i, NEW j
  PROVE  Alignment(i, j) = AlignmentAt(table, dbs, i, j)
  BY DEF Alignment, AlignmentAt, Snapshot

LEMMA TopIs == Top = TopOf(table) /\ SettledTop = SettledOf(table, dbs)
  BY DEF Top, TopOf, SettledTop, SettledOf, OnEpochs

LEMMA LooksIn ==
  ASSUME NEW d \in DB, now[d] \in At(dbs, d), NEW l \in Looks(d, now[d])
  PROVE  l \in Four(dbs, d) /\ \A k \in {l[1], l[2], l[3], l[4]} : k \in At(dbs, d)
<1>1. From(d, now[d]) \subseteq At(dbs, d)
  BY DEF From, At
<1>2. l \in From(d, now[d]) \X From(d, now[d]) \X From(d, now[d]) \X From(d, now[d])
  BY DEF Looks
<1> QED
  BY <1>1, <1>2 DEF Four

-----------------------------------------------------------------------------
(***************************************************************************)
(* What is settled is in every snapshot, and nothing later is at or below  *)
(* its ids: a range that ends at a settled row selects settled rows.       *)
(***************************************************************************)
Below(x, p) == p \in SettledPlaces(x.settled)

LEMMA PlacesType ==
  /\ \A p \in Pos : p \in Nat /\ 1 <= p /\ BlockNo[p] \in Nat \cup {None}
  /\ \A p \in Numbered : p \in Pos /\ BlockNo[p] \in Nat
<1>1. Pos = 1 .. Len(BlockNo) /\ Len(BlockNo) \in Nat
  BY LocalizeAssumption, LenProperties DEF Pos
<1>2. \A p \in Pos : BlockNo[p] \in Nat \cup {None}
  BY <1>1, LocalizeAssumption, ElementOfSeq
<1> QED
  BY <1>1, <1>2 DEF Numbered

LEMMA EarlierBelow ==
  ASSUME NEW x, NEW p \in Pos, NEW q \in Pos, q <= p, Below(x, p)
  PROVE  Below(x, q)
<1>1. PICK n \in Numbered : p <= n /\ BlockNo[n] <= x.settled
  BY DEF Below, SettledPlaces
<1>2. p \in Nat /\ q \in Nat /\ n \in Nat
  BY PlacesType
<1>3. q <= n
  BY <1>1, <1>2
<1> QED
  BY <1>1, <1>3 DEF Below, SettledPlaces

LEMMA SettledSame ==
  ASSUME NEW t \in Tables, NEW x \in Databases[t], NEW d \in DB
  PROVE  /\ 1 \in At(x, d)
         /\ \A i \in At(x, d), u \in IF t = "epoch" THEN {t} ELSE Spine \cup {"committee"} :
              SettledRows(x.history[d][i], u, x.settled) = SettledRows(x.history[d][1], u, x.settled)
<1>1. Len(x.history[d]) \in Nat \ {0} /\ Settles(t, x.history[d], x.settled)
  BY DatabasesAssumption DEF DB
<1> QED
  BY <1>1 DEF At, Settles

LEMMA EpochSettled ==
  ASSUME "epoch" \in Tables, NEW x \in Databases["epoch"], NEW d \in DB, NEW i \in At(x, d), NEW r
  PROVE  /\ r \in x.history[d][i]["epoch"] /\ r.key <= x.settled
            <=> r \in x.history[d][1]["epoch"] /\ r.key <= x.settled
         /\ 1 \in At(x, d)
<1>1. SettledRows(x.history[d][i], "epoch", x.settled) = SettledRows(x.history[d][1], "epoch", x.settled)
  BY SettledSame
<1>2. 1 \in At(x, d)
  BY SettledSame
<1> QED
  BY <1>1, <1>2 DEF SettledRows

LEMMA SettledIn ==
  ASSUME NEW t \in Tables, t # "epoch", NEW x \in Databases[t], NEW d \in DB, NEW i \in At(x, d),
         NEW u \in Spine \cup {"committee"}, NEW r
  PROVE  /\ r \in x.history[d][i][u] /\ Below(x, r.pos) <=> r \in x.history[d][1][u] /\ Below(x, r.pos)
         /\ 1 \in At(x, d)
<1>1. SettledRows(x.history[d][i], u, x.settled) = SettledRows(x.history[d][1], u, x.settled)
  BY SettledSame
<1>2. 1 \in At(x, d)
  BY SettledSame
<1>3. u # "epoch"
  BY DEF Spine
<1> QED
  BY <1>1, <1>2, <1>3 DEF SettledRows, Below

(* The range of table u is empty, or ends at a settled row. *)
SettledRange(u, x, d, range) ==
  \/ range = NoRange
  \/ /\ range.lo \in Nat
     /\ \E l \in x.history[d][1][u] : Below(x, l.pos) /\ range.hi = l.id /\ l.id \in Nat

LEMMA SettledById ==
  ASSUME NEW t \in Tables, t # "epoch", NEW x \in Databases[t], NEW d \in DB, NEW i \in At(x, d),
         NEW u \in Spine, NEW range, SettledRange(u, x, d, range),
         NEW r \in x.history[d][i][u], Between(r.id, range.lo, range.hi)
  PROVE  Below(x, r.pos)
<1> DEFINE S == x.history[d][i]
<1>1. WellTyped(S) /\ InChainOrder(S)
  BY SnapshotsGood DEF At
<1>2. range # NoRange
  BY DEF Between, NoRange
<1>3. PICK l \in x.history[d][1][u] : Below(x, l.pos) /\ range.hi = l.id
  BY <1>2 DEF SettledRange
<1>4. l \in S[u]
  BY <1>3, SettledIn
<1>5. r.id <= l.id
  BY <1>3 DEF Between
<1> HIDE DEF S
<1>6. r \in S[u]
  BY DEF S
<1>7. r.pos <= l.pos /\ r.pos \in Pos /\ l.pos \in Pos
  BY <1>1, <1>4, <1>5, <1>6 DEF InChainOrder, WellTyped
<1> QED
  BY <1>3, <1>7, EarlierBelow

LEMMA SettledByKey ==
  ASSUME NEW t \in Tables, t # "epoch", NEW x \in Databases[t], NEW d \in DB, NEW i \in At(x, d),
         NEW v \in {"tx", "leaf", "committee"}, NEW range, SettledRange(Parent(v), x, d, range),
         NEW r \in x.history[d][i][v], Between(r.key, range.lo, range.hi)
  PROVE  Below(x, r.pos)
<1> DEFINE S == x.history[d][i]
<1>1. WellTyped(S) /\ Linked(S)
  BY SnapshotsGood DEF At
<1>2. Parent(v) \in Spine
  BY DEF Parent, Spine
<1> HIDE DEF S
<1>3. r \in S[v]
  BY DEF S
<1>4. r.pos # 0
  <2>1. CASE v = "committee"
    BY <1>1, <1>3, <2>1 DEF WellTyped, Between
  <2>2. CASE v # "committee"
    BY <1>1, <1>3, <2>2, PlacesType DEF WellTyped, Spine
  <2> QED
    BY <2>1, <2>2
<1>5. PICK q \in S[Parent(v)] : q.id = r.key /\ q.pos = r.pos
  BY <1>1, <1>3, <1>4 DEF Linked
<1>6. Between(q.id, range.lo, range.hi) /\ q \in x.history[d][i][Parent(v)]
  BY <1>5 DEF S
<1>7. Below(x, q.pos)
  BY <1>2, <1>6, SettledById
<1> QED
  BY <1>5, <1>7

(* The range of a child table is one range in all snapshots, and settled. *)
LEMMA SortedIn ==
  ASSUME NEW t \in Tables, t # "epoch", NEW x \in Databases[t], NEW d \in DB, NEW i \in At(x, d),
         NEW v \in {"tx", "leaf"}, NEW lo, NEW hi
  PROVE  Sorted(KeysIn(x.history[d][i][v], lo, hi))
<1> DEFINE S == x.history[d][i]
           in == {r \in S[v] : Between(r.key, lo, hi)}
<1>1. WellTyped(S) /\ InChainOrder(S)
  BY SnapshotsGood DEF At
<1> HIDE DEF S
<1>2. Sorted(S[v]) /\ in \in SUBSET S[v]
  BY <1>1, SpineSorted
<1> HIDE DEF in
<1>3. Sorted(in)
  BY <1>2, SortedSubset
<1> QED
  BY <1>3 DEF in, S, KeysIn

LEMMA ChildSame ==
  ASSUME NEW t \in Tables, t # "epoch", NEW x \in Databases[t], NEW d \in DB, NEW i \in At(x, d),
         NEW v \in {"tx", "leaf"}, NEW range, SettledRange(Parent(v), x, d, range)
  PROVE  LET child == ChildRange(x.history[d][1][v], range)
         IN  /\ ChildRange(x.history[d][i][v], range) = child
             /\ SettledRange(v, x, d, child)
<1> DEFINE in(k) == KeysIn(x.history[d][k][v], range.lo, range.hi)
           child == ChildRange(x.history[d][1][v], range)
<1>0. 1 \in At(x, d) /\ v \in Spine
  BY SettledSame DEF Spine
<1>1. CASE range = NoRange
  BY <1>1 DEF ChildRange, NoRange, SettledRange
<1>2. CASE range # NoRange
  <2>1. range.lo \in Nat /\ range.hi \in Nat /\ range.lo # None
    BY <1>2, NoneAssumption DEF SettledRange
  <2>2. in(i) = in(1)
    <3>1. \A r : r \in in(i) => Below(x, r.pos)
      BY SettledByKey DEF KeysIn
    <3>2. \A r : r \in in(1) => Below(x, r.pos)
      BY <1>0, SettledByKey DEF KeysIn
    <3>3. \A r : r \in in(i) <=> r \in in(1)
      BY <3>1, <3>2, <1>0, SettledIn DEF KeysIn
    <3> HIDE DEF in
    <3>4. in(i) \subseteq in(1) /\ in(1) \subseteq in(i)
      BY <3>3
    <3> QED
      BY <3>4
  <2>3. ChildRange(x.history[d][i][v], range) = child
    BY <2>1, <2>2 DEF ChildRange, Minmax, KeysIn
  <2>4. child = Minmax(x.history[d][1][v], range.lo, range.hi)
    BY <2>1 DEF ChildRange
  <2>5. \A r \in in(1) : r.id \in Nat /\ Below(x, r.pos) /\ r \in x.history[d][1][v]
    <3>1. \A r \in in(1) : Below(x, r.pos)
      BY <1>0, SettledByKey DEF KeysIn
    <3>2. Sorted(in(1))
      BY <1>0, SortedIn
    <3>3. in(1) \in SUBSET x.history[d][1][v]
      BY DEF KeysIn
    <3> HIDE DEF in
    <3> QED
      BY <3>1, <3>2, <3>3 DEF Sorted
  <2>6. \/ child = NoRange
        \/ \E f, l \in in(1) : child.lo = f.id /\ child.hi = l.id
    <3>1. Sorted(in(1))
      BY <1>0, SortedIn
    <3> QED
      BY <2>1, <2>4, <3>1, MinmaxSpans
  <2> HIDE DEF child, in
  <2>7. SettledRange(v, x, d, child)
    BY <2>5, <2>6 DEF SettledRange
  <2> QED
    BY <2>3, <2>7 DEF child
<1> QED
  BY <1>1, <1>2

(* The same of the block range of a window that ends in settled blocks. *)
LEMMA BlockRangeSame ==
  ASSUME NEW t \in Tables, t # "epoch", NEW x \in Databases[t], NEW d \in DB, NEW i \in At(x, d),
         NEW lo \in Nat, NEW hi \in Nat, hi <= x.settled
  PROVE  LET range == Minmax(x.history[d][1]["block"], lo, hi)
         IN  /\ Minmax(x.history[d][i]["block"], lo, hi) = range
             /\ SettledRange("block", x, d, range)
<1> DEFINE in(k) == KeysIn(x.history[d][k]["block"], lo, hi)
           range == Minmax(x.history[d][1]["block"], lo, hi)
<1>0. 1 \in At(x, d) /\ "block" \in Spine
  BY SettledSame DEF Spine
<1>1. ASSUME NEW k \in At(x, d)
      PROVE  /\ Sorted(in(k))
             /\ \A r \in in(k) : Below(x, r.pos) /\ r.id \in Nat
  <2> DEFINE S == x.history[d][k]
             keyed == {r \in S["block"] : r.key # None}
  <2>1. WellTyped(S) /\ InChainOrder(S)
    BY SnapshotsGood DEF At
  <2>2. Sorted(keyed)
    BY <2>1, SpineSorted
  <2>3. in(k) \in SUBSET keyed
    BY DEF Between, KeysIn
  <2> HIDE DEF S
  <2>4. Sorted(in(k))
    <3> HIDE DEF in, keyed
    <3> QED
      BY <2>2, <2>3, SortedSubset
  <2>5. ASSUME NEW r \in in(k)
        PROVE  Below(x, r.pos) /\ r.id \in Nat
    <3>1. r \in S["block"] /\ r.key # None /\ r.key <= hi /\ r.key \in Nat /\ r.id \in Nat
      BY <2>2, <2>3 DEF S, Between, Sorted, KeysIn
    <3>2. r.key = BlockNo[r.pos] /\ r.pos \in Pos
      BY <2>1, <3>1 DEF WellTyped, InChainOrder, Spine
    <3>3. r.pos \in Numbered /\ r.pos \in Nat /\ x.settled \in Nat
      BY <3>1, <3>2, PlacesType, DatabasesAssumption DEF Numbered
    <3>4. BlockNo[r.pos] <= x.settled /\ r.pos <= r.pos
      BY <3>1, <3>2, <3>3
    <3> QED
      BY <3>1, <3>2, <3>3, <3>4 DEF Below, SettledPlaces
  <2> QED
    BY <2>4, <2>5
<1>2. in(i) = in(1)
  <2>1. \A r : r \in in(i) <=> r \in in(1)
    BY <1>0, <1>1, SettledIn DEF KeysIn
  <2> HIDE DEF in
  <2>2. in(i) \subseteq in(1) /\ in(1) \subseteq in(i)
    BY <2>1
  <2> QED
    BY <2>2
<1>3. Minmax(x.history[d][i]["block"], lo, hi) = range
  BY <1>2 DEF Minmax, KeysIn
<1>4. \/ range = NoRange
      \/ \E f, l \in in(1) : range.lo = f.id /\ range.hi = l.id
  <2>1. Sorted(in(1))
    BY <1>0, <1>1
  <2> QED
    BY <2>1, MinmaxSpans
<1>5. \A r \in in(1) : Below(x, r.pos) /\ r.id \in Nat /\ r \in x.history[d][1]["block"]
  BY <1>0, <1>1 DEF KeysIn
<1> HIDE DEF range, in
<1>6. SettledRange("block", x, d, range)
  BY <1>4, <1>5 DEF SettledRange
<1> QED
  BY <1>3, <1>6 DEF range

(* The walk from a window, range by range. *)
LEMMA RangesAre ==
  ASSUME NEW x, NEW d, NEW l, NEW lo \in Int, NEW hi \in Int
  PROVE  LET h == x.history[d]
             b == Minmax(h[l[1]]["block"], lo, hi)
             t == ChildRange(h[l[2]]["tx"], b)
             ranges == RangesAt(x, d, l, <<lo, hi>>)
         IN  /\ ranges["block"] = b
             /\ ranges["tx"] = t
             /\ ranges["leaf"] = ChildRange(h[l[3]]["leaf"], t)
<1>1. <<lo, hi>> # None
  BY NoneAssumption
<1> QED
  BY <1>1 DEF RangesAt, ComputeSpineRanges, BlockRange, Spine

LEMMA TableKinds ==
  ASSUME NEW t \in Tables, t # "epoch"
  PROVE  /\ t \in {"block", "tx", "leaf", "owner", "committee"}
         /\ AnchorSpine(t) = (CASE t \in {"block", "tx"} -> "block"
                                [] t = "leaf"            -> "tx"
                                [] t \in {"owner", "committee"} -> "leaf")
         /\ AnchorSpine(t) \in Spine
         /\ t \in {"tx", "leaf", "committee"} => Parent(t) = AnchorSpine(t)
         /\ t = "owner" => \A S : TableRows(t, S) = S["leaf"]
         /\ t # "owner" => \A S : TableRows(t, S) = S[t]
<1>1. t \in {"block", "tx", "leaf", "owner", "committee"}
  BY LocalizeAssumption DEF IdRangeTables
<1> QED
  BY <1>1 DEF AnchorSpine, Spine, Parent, TableRows

(* Asked again, a window of settled blocks, or epochs, has the same rows. *)
LEMMA SettledSelection ==
  ASSUME NEW t \in Tables, t # "epoch", NEW x \in Databases[t], NEW d \in DB, NEW i \in At(x, d),
         NEW range, SettledRange(AnchorSpine(t), x, d, range)
  PROVE  Selected(t, x.history[d][i], range) = Selected(t, x.history[d][1], range)
<1> DEFINE Sel(k) == Selected(t, x.history[d][k], range)
           u == IF t = "owner" THEN "leaf" ELSE t
<1>0. 1 \in At(x, d)
  BY SettledSame
<1>1. u \in Spine \cup {"committee"} /\ \A S : TableRows(t, S) = S[u]
  BY TableKinds DEF Spine
<1>2. ASSUME NEW k \in At(x, d), NEW r \in Sel(k)
      PROVE  Below(x, r.pos)
  <2>1. CASE t \in {"tx", "leaf", "committee"}
    <3>1. r \in x.history[d][k][t] /\ Between(r.key, range.lo, range.hi)
      BY <1>1, <2>1 DEF Selected, Anchor
    <3>2. SettledRange(Parent(t), x, d, range)
      BY <2>1, TableKinds
    <3> QED
      BY <2>1, <3>1, <3>2, SettledByKey
  <2>2. CASE t \in {"block", "owner"}
    <3>1. r \in x.history[d][k][AnchorSpine(t)] /\ Between(r.id, range.lo, range.hi)
      BY <1>1, <2>2, TableKinds DEF Selected, Anchor
    <3> QED
      BY <3>1, SettledById, TableKinds
  <2> QED
    BY <2>1, <2>2, TableKinds
<1>3. \A r : r \in Sel(i) <=> r \in Sel(1)
  <2>1. \A k \in At(x, d) : \A r : r \in Sel(k) <=> r \in x.history[d][k][u] /\ Between(Anchor(t, r), range.lo, range.hi)
    BY <1>1 DEF Selected
  <2> HIDE DEF Sel, u
  <2> QED
    BY <1>0, <1>1, <1>2, <2>1, SettledIn
<1> HIDE DEF Sel
<1>4. Sel(i) \subseteq Sel(1) /\ Sel(1) \subseteq Sel(i)
  BY <1>3
<1>5. Sel(i) = Sel(1)
  BY <1>4
<1> QED
  BY <1>5 DEF Sel

RowsAtRest(t, x, d, w) == RowsAt(t, x, d, <<1, 1, 1, 1>>, w)

LEMMA SettledWindow ==
  ASSUME NEW t \in Tables, NEW x \in Databases[t], NEW d \in DB, NEW l \in Four(x, d),
         NEW w \in Windows(t), w.hi <= SettledOf(t, x)
  PROVE  RowsAt(t, x, d, l, w) = RowsAtRest(t, x, d, w)
<1>0. Cutoff \in Nat /\ CutoffEpoch \in Nat
  BY LocalizeAssumption
<1>1. w.lo \in Nat /\ w.hi \in Nat /\ w.hi <= x.settled
  <2>1. x.settled \in Nat
    BY DatabasesAssumption
  <2> QED
    BY <1>0, <2>1 DEF Windows, TopOf, SettledOf
<1>2. /\ l[1] \in At(x, d) /\ l[2] \in At(x, d) /\ l[3] \in At(x, d) /\ l[4] \in At(x, d)
      /\ 1 \in At(x, d)
  BY SettledSame DEF Four
<1>3. CASE t = "epoch"
  <2> DEFINE in(k) == {r \in x.history[d][k]["epoch"] : Between(r.key, w.lo, w.hi)}
  <2>1. \A k \in At(x, d) : \A r \in x.history[d][k]["epoch"] : r.key \in Nat
    BY <1>3, SnapshotsGood DEF WellTyped, At
  <2>2. x.settled \in Nat
    BY DatabasesAssumption
  <2>3. \A k \in At(x, d) : \A r : r \in in(k) <=> r \in x.history[d][k]["epoch"] /\ r.key <= x.settled
                                                  /\ Between(r.key, w.lo, w.hi)
    BY <1>1, <2>1, <2>2 DEF Between
  <2>4. \A r : r \in in(l[4]) <=> r \in in(1)
    <3> HIDE DEF in
    <3> QED
      BY <1>2, <1>3, <2>3, EpochSettled
  <2>5. in(l[4]) = in(1)
    <3> HIDE DEF in
    <3>1. in(l[4]) \subseteq in(1) /\ in(1) \subseteq in(l[4])
      BY <2>4
    <3> QED
      BY <3>1
  <2> QED
    BY <1>3, <2>5 DEF RowsAt, RowsAtRest
<1>4. CASE t # "epoch"
  <2> DEFINE h == x.history[d]
             b == Minmax(h[1]["block"], w.lo, w.hi)
             c == ChildRange(h[1]["tx"], b)
             f == ChildRange(h[1]["leaf"], c)
             one == <<1, 1, 1, 1>>
             R(m) == RangesAt(x, d, m, <<w.lo, w.hi>>)
  <2>1. Minmax(h[l[1]]["block"], w.lo, w.hi) = b /\ SettledRange("block", x, d, b)
    BY <1>1, <1>2, <1>4, BlockRangeSame
  <2>2. ChildRange(h[l[2]]["tx"], b) = c /\ SettledRange("tx", x, d, c)
    <3>1. Parent("tx") = "block"
      BY DEF Parent
    <3> HIDE DEF b
    <3> QED
      BY <1>2, <1>4, <2>1, <3>1, ChildSame
  <2>3. ChildRange(h[l[3]]["leaf"], c) = f /\ SettledRange("leaf", x, d, f)
    <3>1. Parent("leaf") = "tx"
      BY DEF Parent
    <3> HIDE DEF c
    <3> QED
      BY <1>2, <1>4, <2>2, <3>1, ChildSame
  <2>4. R(l)["block"] = b /\ R(l)["tx"] = c /\ R(l)["leaf"] = f
    <3>1. w.lo \in Int /\ w.hi \in Int
      BY <1>1
    <3> QED
      BY <3>1, <2>1, <2>2, <2>3, RangesAre
  <2>5. R(one)["block"] = b /\ R(one)["tx"] = c /\ R(one)["leaf"] = f
    <3>1. w.lo \in Int /\ w.hi \in Int
      BY <1>1
    <3>2. one[1] = 1 /\ one[2] = 1 /\ one[3] = 1
      OBVIOUS
    <3> HIDE DEF one
    <3> QED
      BY <3>1, <3>2, RangesAre
  <2> HIDE DEF b, c, f, R, one
  <2> DEFINE s == AnchorSpine(t)
  <2>6. s \in Spine
    BY <1>4, TableKinds
  <2>7. R(l)[s] = R(one)[s] /\ SettledRange(s, x, d, R(one)[s])
    BY <2>1, <2>2, <2>3, <2>4, <2>5, <2>6 DEF Spine
  <2>8. Selected(t, h[l[4]], R(one)[s]) = Selected(t, h[1], R(one)[s])
    BY <1>2, <1>4, <2>7, SettledSelection
  <2>9. RowsAt(t, x, d, l, w) = Selected(t, h[l[4]], R(l)[s])
    BY <1>4 DEF RowsAt, IdRangeRowsAt, R
  <2>10. RowsAt(t, x, d, one, w) = Selected(t, h[1], R(one)[s])
    BY <1>4 DEF RowsAt, IdRangeRowsAt, R, one
  <2> QED
    BY <2>7, <2>8, <2>9, <2>10 DEF RowsAtRest, one
<1> QED
  BY <1>3, <1>4

(* The rows without a block are the same in all snapshots. *)
LEMMA NullSame ==
  ASSUME NEW t \in Tables, NEW x \in Databases[t], NEW d \in DB, NEW i \in At(x, d)
  PROVE  NullRowsAt(t, x, d, i) = NullRowsAt(t, x, d, 1)
<1> DEFINE in(k) == {r \in x.history[d][k]["committee"] : r.key = None /\ Between(r.shown, 0, CutoffEpoch)}
<1>1. CASE t = "committee"
  <2>0. 1 \in At(x, d)
    BY SettledSame
  <2>1. SettledRows(x.history[d][i], "committee", x.settled) = SettledRows(x.history[d][1], "committee", x.settled)
    BY <1>1, SettledSame
  <2>2. ASSUME NEW k \in At(x, d), NEW r
        PROVE  r \in in(k) <=> /\ r \in SettledRows(x.history[d][k], "committee", x.settled)
                               /\ r.key = None /\ Between(r.shown, 0, CutoffEpoch)
    <3>1. WellTyped(x.history[d][k])
      BY SnapshotsGood DEF At
    <3>2. r \in x.history[d][k]["committee"] /\ r.key = None => r.pos = 0
      BY <3>1, NoneAssumption DEF WellTyped
    <3> QED
      BY <3>2 DEF SettledRows
  <2> HIDE DEF in
  <2>3. in(i) \subseteq in(1) /\ in(1) \subseteq in(i)
    BY <2>0, <2>1, <2>2
  <2>4. in(i) = in(1)
    BY <2>3
  <2> QED
    BY <1>1, <2>4 DEF in, NullRowsAt
<1>2. CASE t # "committee"
  BY <1>2 DEF NullRowsAt
<1> QED
  BY <1>1, <1>2

(***************************************************************************)
(* No range misses a settled row whose number is in the window.            *)
(***************************************************************************)
LEMMA MinmaxHolds ==
  ASSUME NEW S, NEW lo \in Nat, NEW hi \in Nat, Sorted(KeysIn(S, lo, hi)),
         NEW q \in S, Between(q.key, lo, hi)
  PROVE  LET range == Minmax(S, lo, hi)
         IN  range.lo \in Nat /\ range.hi \in Nat /\ Between(q.id, range.lo, range.hi)
<1> DEFINE in == KeysIn(S, lo, hi)
           range == Minmax(S, lo, hi)
<1>1. q \in in
  BY DEF KeysIn
<1>2. /\ \E f, l \in in : range.lo = f.id /\ range.hi = l.id
      /\ \A r \in in : range.lo <= r.id /\ r.id <= range.hi
  BY <1>1, MinmaxSpans
<1>3. \A r \in in : r.id \in Nat
  BY DEF Sorted
<1> HIDE DEF in, range
<1>4. range.lo \in Nat /\ range.hi \in Nat /\ q.id \in Nat /\ range.lo <= q.id /\ q.id <= range.hi
  BY <1>1, <1>2, <1>3
<1> QED
  BY <1>4, NoneAssumption DEF range, Between

LEMMA SpineHolds ==
  ASSUME NEW t \in Tables, t # "epoch", NEW x \in Databases[t], NEW d \in DB, NEW l \in Four(x, d),
         NEW w \in Windows(t), NEW p \in Numbered, BlockNo[p] <= x.settled,
         w.lo <= BlockNo[p], BlockNo[p] <= w.hi,
         NEW v \in Spine, NEW q \in x.history[d][1][v], q.pos = p
  PROVE  LET range == RangesAt(x, d, l, <<w.lo, w.hi>>)[v]
         IN  range.lo \in Nat /\ range.hi \in Nat /\ Between(q.id, range.lo, range.hi)
<1> DEFINE h == x.history[d]
           b == Minmax(h[l[1]]["block"], w.lo, w.hi)
           c == ChildRange(h[l[2]]["tx"], b)
           f == ChildRange(h[l[3]]["leaf"], c)
           R == RangesAt(x, d, l, <<w.lo, w.hi>>)
           Good(range, r) == range.lo \in Nat /\ range.hi \in Nat /\ Between(r.id, range.lo, range.hi)
<1>0. /\ l[1] \in At(x, d) /\ l[2] \in At(x, d) /\ l[3] \in At(x, d) /\ l[4] \in At(x, d)
      /\ 1 \in At(x, d)
  BY SettledSame DEF Four
<1>1. w.lo \in Nat /\ w.hi \in Nat /\ x.settled \in Nat /\ BlockNo[p] \in Nat /\ p \in Pos /\ p \in Nat
  <2>1. Cutoff \in Nat /\ CutoffEpoch \in Nat
    BY LocalizeAssumption
  <2>2. x.settled \in Nat
    BY DatabasesAssumption
  <2> QED
    BY <2>1, <2>2, PlacesType DEF Windows, TopOf
<1>2. Below(x, p) /\ p # 0
  BY <1>1, PlacesType DEF Below, SettledPlaces
<1>3. ASSUME NEW k \in At(x, d), NEW u \in Spine, NEW r \in h[1][u], r.pos = p
      PROVE  r \in h[k][u] /\ (u # "block" => \E o \in h[1][Parent(u)] : o.id = r.key /\ o.pos = p)
  <2>1. r \in h[k][u]
    BY <1>2, <1>3, SettledIn
  <2>2. Linked(h[1])
    BY <1>0, SnapshotsGood DEF At
  <2>3. u # "block" => \E o \in h[1][Parent(u)] : o.id = r.key /\ o.pos = p
    <3> HIDE DEF h
    <3> QED
      BY <1>2, <1>3, <2>2 DEF Linked, Spine
  <2> QED
    BY <2>1, <2>3
<1>4. ASSUME NEW r \in h[1]["block"], r.pos = p
      PROVE  Good(b, r)
  <2> DEFINE S == h[l[1]]
             keyed == {o \in S["block"] : o.key # None}
             in == KeysIn(S["block"], w.lo, w.hi)
  <2>1. r \in S["block"]
    BY <1>0, <1>3, <1>4 DEF Spine
  <2>2. WellTyped(S) /\ InChainOrder(S)
    BY <1>0, SnapshotsGood DEF At
  <2>3. r.key = BlockNo[p]
    BY <1>4, <2>1, <2>2 DEF InChainOrder
  <2>4. Sorted(keyed) /\ in \in SUBSET keyed
    BY <2>2, SpineSorted DEF KeysIn, Between
  <2>5. Sorted(in)
    <3> HIDE DEF in, keyed
    <3> QED
      BY <2>4, SortedSubset
  <2>6. Between(r.key, w.lo, w.hi)
    BY <1>1, <2>3, NoneAssumption DEF Between
  <2> HIDE DEF S
  <2> QED
    BY <1>1, <2>1, <2>5, <2>6, MinmaxHolds DEF S
<1>5. ASSUME NEW u \in {"tx", "leaf"}, NEW range, NEW k \in At(x, d), NEW r \in h[1][u], r.pos = p,
             \A o \in h[1][Parent(u)] : o.pos = p => Good(range, o)
      PROVE  Good(ChildRange(h[k][u], range), r)
  <2>1. r \in h[k][u] /\ \E o \in h[1][Parent(u)] : o.id = r.key /\ o.pos = p
    <3>1. u \in Spine /\ u # "block"
      BY DEF Spine
    <3> HIDE DEF h
    <3> QED
      BY <1>3, <1>5, <3>1
  <2>2. range.lo \in Nat /\ range.hi \in Nat /\ Between(r.key, range.lo, range.hi)
    BY <1>5, <2>1
  <2>3. ChildRange(h[k][u], range) = Minmax(h[k][u], range.lo, range.hi)
    BY <2>2, NoneAssumption DEF ChildRange
  <2>4. Sorted(KeysIn(h[k][u], range.lo, range.hi))
    BY SortedIn
  <2> HIDE DEF h
  <2> QED
    BY <2>1, <2>2, <2>3, <2>4, MinmaxHolds
<1>6. R["block"] = b /\ R["tx"] = c /\ R["leaf"] = f
  <2>1. w.lo \in Int /\ w.hi \in Int
    BY <1>1
  <2> QED
    BY <2>1, RangesAre
<1> HIDE DEF h, b, R
<1>7. ASSUME NEW r \in h[1]["tx"], r.pos = p
      PROVE  Good(c, r)
  <2>1. Parent("tx") = "block"
    BY DEF Parent
  <2> HIDE DEF Good
  <2> QED
    BY <1>0, <1>4, <1>5, <1>7, <2>1
<1> HIDE DEF c
<1>8. ASSUME NEW r \in h[1]["leaf"], r.pos = p
      PROVE  Good(f, r)
  <2>1. Parent("leaf") = "tx"
    BY DEF Parent
  <2> HIDE DEF Good
  <2> QED
    BY <1>0, <1>7, <1>5, <1>8, <2>1
<1> HIDE DEF f
<1>9. q \in h[1][v] /\ v \in {"block", "tx", "leaf"}
  BY DEF h, Spine
<1>10. Good(R[v], q)
  <2> HIDE DEF Good
  <2> QED
    BY <1>4, <1>6, <1>7, <1>8, <1>9
<1> QED
  BY <1>10 DEF R, h

(* The rows with a settled number, as every query of their window sees them. *)
LEMMA RowsHeld ==
  ASSUME NEW t \in Tables, NEW x \in Databases[t], NEW d \in DB, NEW l \in Four(x, d),
         NEW w \in Windows(t), NEW c \in 0 .. SettledOf(t, x), w.lo <= c, c <= w.hi
  PROVE  {r \in RowsAt(t, x, d, l, w) : NumberAt(t, r) = c} = RowsOf(t, x, d, c)
<1> DEFINE A == {r \in RowsAt(t, x, d, l, w) : NumberAt(t, r) = c}
           h == x.history[d]
<1>0. l[4] \in At(x, d) /\ 1 \in At(x, d)
  BY SettledSame DEF Four
<1>1. w.lo \in Nat /\ w.hi \in Nat /\ x.settled \in Nat /\ c \in Nat /\ c <= x.settled
  <2>1. Cutoff \in Nat /\ CutoffEpoch \in Nat
    BY LocalizeAssumption
  <2>2. x.settled \in Nat
    BY DatabasesAssumption
  <2> QED
    BY <2>1, <2>2 DEF Windows, TopOf, SettledOf
<1>2. CASE t = "epoch"
  <2>1. \A r : r \in A <=> r \in h[l[4]]["epoch"] /\ r.key = c
    BY <1>1, <1>2, NoneAssumption DEF RowsAt, NumberAt, Between
  <2>2. \A r : r \in RowsOf(t, x, d, c) <=> r \in h[1]["epoch"] /\ r.key = c
    BY <1>2 DEF RowsOf, NumberAt, TableRows
  <2>3. \A r : r.key = c => r.key <= x.settled
    BY <1>1
  <2> HIDE DEF A, h
  <2>4. \A r : r \in A <=> r \in RowsOf(t, x, d, c)
    BY <1>0, <1>2, <2>1, <2>2, <2>3, EpochSettled DEF h
  <2>5. A \subseteq RowsOf(t, x, d, c) /\ RowsOf(t, x, d, c) \subseteq A
    BY <2>4
  <2>6. A = RowsOf(t, x, d, c)
    BY <2>5
  <2> QED
    BY <2>6 DEF A
<1>3. CASE t # "epoch"
  <2> DEFINE u == IF t = "owner" THEN "leaf" ELSE t
             range == RangesAt(x, d, l, <<w.lo, w.hi>>)[AnchorSpine(t)]
  <2>1. u \in Spine \cup {"committee"} /\ \A S : TableRows(t, S) = S[u]
    BY <1>3, TableKinds DEF Spine
  <2>2. \A r : r \in A <=> /\ r \in h[l[4]][u] /\ NumberAt(t, r) = c
                           /\ Between(Anchor(t, r), range.lo, range.hi)
    BY <1>3, <2>1 DEF RowsAt, IdRangeRowsAt, Selected
  <2>3. \A r : r \in RowsOf(t, x, d, c) <=> r \in h[1][u] /\ NumberAt(t, r) = c
    BY <2>1 DEF RowsOf
  <2> HIDE DEF A, h, u, range
  <2>4. ASSUME NEW k \in At(x, d), NEW r \in h[k][u], NumberAt(t, r) = c
        PROVE  r.pos \in Numbered /\ BlockNo[r.pos] = c /\ Below(x, r.pos)
    <3>1. WellTyped(h[k])
      BY SnapshotsGood DEF At, h
    <3>2. r.pos # 0 /\ BlockNo[r.pos] = c /\ c # None
      BY <1>1, <1>3, <2>4, NoneAssumption DEF NumberAt
    <3>3. r.pos \in Pos
      BY <2>1, <3>1, <3>2 DEF WellTyped, Spine
    <3>4. r.pos \in Numbered /\ r.pos \in Nat
      BY <3>2, <3>3, PlacesType DEF Numbered
    <3>5. r.pos <= r.pos /\ BlockNo[r.pos] <= x.settled
      BY <1>1, <3>2, <3>4
    <3> QED
      BY <3>2, <3>3, <3>4, <3>5 DEF Below, SettledPlaces
  <2>5. \A r : r \in A => r \in RowsOf(t, x, d, c)
    BY <1>0, <1>3, <2>1, <2>2, <2>3, <2>4, SettledIn DEF h
  <2>6. ASSUME NEW r \in RowsOf(t, x, d, c)
        PROVE  r \in A
    <3> DEFINE p == r.pos
    <3>1. r \in h[1][u] /\ p \in Numbered /\ BlockNo[p] = c /\ Below(x, p)
      BY <1>0, <2>3, <2>4
    <3>2. r \in h[l[4]][u] /\ NumberAt(t, r) = c
      BY <1>0, <1>3, <2>1, <2>3, <3>1, SettledIn DEF h
    <3>3. \A v \in Spine : \A q \in h[1][v] : q.pos = p =>
            Between(q.id, RangesAt(x, d, l, <<w.lo, w.hi>>)[v].lo, RangesAt(x, d, l, <<w.lo, w.hi>>)[v].hi)
      BY <1>1, <1>3, <3>1, SpineHolds DEF h
    <3>4. AnchorSpine(t) \in Spine
      BY <1>3, TableKinds
    <3>5. \A q \in h[1][AnchorSpine(t)] : q.pos = p => Between(q.id, range.lo, range.hi)
      BY <3>3, <3>4 DEF range
    <3>6. CASE t \in {"tx", "leaf", "committee"}
      <4>1. Linked(h[1]) /\ p # 0
        BY <1>0, <3>1, SnapshotsGood, PlacesType DEF At, h
      <4>2. u = t /\ Parent(t) = AnchorSpine(t) /\ Anchor(t, r) = r.key
        BY <1>3, <3>6, TableKinds DEF u, Anchor
      <4>3. \E q \in h[1][Parent(t)] : q.id = r.key /\ q.pos = p
        BY <3>1, <3>6, <4>1, <4>2 DEF Linked
      <4> QED
        BY <2>2, <3>2, <3>5, <4>2, <4>3
    <3>7. CASE t \in {"block", "owner"}
      <4>1. u = AnchorSpine(t) /\ Anchor(t, r) = r.id
        BY <1>3, <3>7, TableKinds DEF u, Anchor
      <4> QED
        BY <2>2, <3>1, <3>2, <3>5, <4>1
    <3> QED
      BY <1>3, <3>6, <3>7, TableKinds
  <2>7. A \subseteq RowsOf(t, x, d, c) /\ RowsOf(t, x, d, c) \subseteq A
    BY <2>5, <2>6
  <2>8. A = RowsOf(t, x, d, c)
    BY <2>7
  <2> QED
    BY <2>8 DEF A
<1> QED
  BY <1>2, <1>3

(***************************************************************************)
(* Equal hashes hide no difference within a part that content tells apart. *)
(***************************************************************************)
LEMMA SamePartSameHash ==
  ASSUME NEW R, IsFiniteSet(R), NEW T, IsFiniteSet(T), SetHash(R) = SetHash(T),
         NEW A \in SUBSET R, NEW B \in SUBSET T,
         \A r, q \in R : r.content = q.content => (r \in A <=> q \in A),
         \A r \in R, q \in T : r.content = q.content => (r \in A <=> q \in B),
         \A r, q \in T : r.content = q.content => (r \in B <=> q \in B)
  PROVE  SetHash(A) = SetHash(B)
<1> DEFINE Kinds(S) == {r.content : r \in S}
           Of(S, c) == {r \in S : r.content = c}
           Count(S) == [c \in Kinds(S) |-> Cardinality(Of(S, c))]
<1>1. Count(R) = Count(T)
  BY DEF SetHash
<1>2. Kinds(R) = Kinds(T) /\ \A c \in Kinds(R) : Cardinality(Of(R, c)) = Cardinality(Of(T, c))
  <2>1. DOMAIN Count(R) = Kinds(R) /\ DOMAIN Count(T) = Kinds(T)
    OBVIOUS
  <2>2. /\ \A c \in Kinds(R) : Count(R)[c] = Cardinality(Of(R, c))
        /\ \A c \in Kinds(T) : Count(T)[c] = Cardinality(Of(T, c))
    OBVIOUS
  <2> HIDE DEF Kinds, Of, Count
  <2> QED
    BY <1>1, <2>1, <2>2
<1>3. \A c \in Kinds(A) : c \in Kinds(B) /\ Of(A, c) = Of(R, c) /\ Of(B, c) = Of(T, c)
  <2> SUFFICES ASSUME NEW a \in A
               PROVE  /\ a.content \in Kinds(B)
                      /\ Of(A, a.content) = Of(R, a.content)
                      /\ Of(B, a.content) = Of(T, a.content)
    OBVIOUS
  <2>1. PICK b \in T : b.content = a.content
    BY <1>2
  <2>2. b \in B
    BY <2>1
  <2> QED
    BY <2>1, <2>2
<1>4. \A c \in Kinds(B) : c \in Kinds(A)
  <2> SUFFICES ASSUME NEW b \in B
               PROVE  b.content \in Kinds(A)
    OBVIOUS
  <2>1. PICK a \in R : a.content = b.content
    BY <1>2
  <2> QED
    BY <2>1
<1>5. Kinds(A) = Kinds(B)
  <2>1. Kinds(A) \subseteq Kinds(B) /\ Kinds(B) \subseteq Kinds(A)
    BY <1>3, <1>4
  <2> QED
    BY <2>1
<1>6. \A c \in Kinds(A) : Cardinality(Of(A, c)) = Cardinality(Of(B, c))
  <2>1. \A c \in Kinds(A) : c \in Kinds(R)
    OBVIOUS
  <2> QED
    BY <1>2, <1>3, <2>1
<1>7. Cardinality(A) = Cardinality(B)
  <2> DEFINE C == [r \in A |-> r.content]
             D == [r \in B |-> r.content]
  <2>1. \A c : {r \in A : C[r] = c} = Of(A, c) /\ {r \in B : D[r] = c} = Of(B, c)
    OBVIOUS
  <2>2. ASSUME NEW c
        PROVE  Cardinality(Of(A, c)) = Cardinality(Of(B, c))
    <3>1. CASE c \in Kinds(A)
      BY <1>6, <3>1
    <3>2. CASE c \notin Kinds(A)
      <4>1. Of(A, c) = {} /\ Of(B, c) = {}
        BY <1>5, <3>2
      <4> QED
        BY <4>1
    <3> QED
      BY <3>1, <3>2
  <2>3. SameClasses(A, C, B, D)
    <3> HIDE DEF Of, C, D
    <3> QED
      BY <2>1, <2>2 DEF SameClasses
  <2>4. IsFiniteSet(A) /\ IsFiniteSet(B)
    BY FS_Subset
  <2> HIDE DEF C, D
  <2> QED
    BY <2>3, <2>4, SameClassesSameSize
<1>8. Count(A) = Count(B)
  <2> HIDE DEF Kinds, Of
  <2> QED
    BY <1>5, <1>6
<1> HIDE DEF Count
<1>9. SetHash(A) = [n |-> Cardinality(A), h |-> Count(A)] /\ SetHash(B) = [n |-> Cardinality(B), h |-> Count(B)]
  BY DEF SetHash, Count
<1> QED
  BY <1>7, <1>8, <1>9

(* The rows of a window are rows of the table, and finitely many. *)
LEMMA RowsAtType ==
  ASSUME NEW t \in Tables, NEW x \in Databases[t], NEW d \in DB, NEW l \in Four(x, d), NEW w
  PROVE  /\ RowsAt(t, x, d, l, w) \subseteq TableRows(t, x.history[d][l[4]])
         /\ IsFiniteSet(RowsAt(t, x, d, l, w))
         /\ l[4] \in At(x, d)
<1> DEFINE S == x.history[d][l[4]]
<1>1. l[4] \in At(x, d)
  BY DEF Four
<1>2. WellTyped(S)
  BY <1>1, SnapshotsGood DEF At
<1> HIDE DEF S
<1>3. IsFiniteSet(TableRows(t, S))
  <2>1. CASE t = "epoch"
    BY <1>2, <2>1 DEF WellTyped, TableRows
  <2>2. CASE t # "epoch"
    <3>1. t = "owner" \/ t \in Spine \cup {"committee"}
      BY <2>2, TableKinds DEF Spine
    <3> QED
      BY <1>2, <3>1 DEF WellTyped, TableRows, Spine
  <2> QED
    BY <2>1, <2>2
<1>4. RowsAt(t, x, d, l, w) \subseteq TableRows(t, S)
  BY DEF RowsAt, IdRangeRowsAt, Selected, TableRows, S
<1>5. IsFiniteSet(RowsAt(t, x, d, l, w))
  BY <1>3, <1>4, FS_Subset
<1> QED
  BY <1>1, <1>4, <1>5 DEF S

(* A window whose hashes agree holds no number at which settled rows differ. *)
LEMMA EqualWindow ==
  ASSUME NEW t \in Tables, NEW x \in Databases[t], x.tied,
         NEW l1 \in Four(x, 1), NEW l2 \in Four(x, 2), NEW w \in Windows(t),
         SetHash(RowsAt(t, x, 1, l1, w)) = SetHash(RowsAt(t, x, 2, l2, w)),
         NEW c, w.lo <= c, c <= w.hi
  PROVE  ~DiffersAt(t, x, c)
<1> SUFFICES ASSUME c \in 0 .. SettledOf(t, x)
             PROVE  SetHash(RowsOf(t, x, 1, c)) = SetHash(RowsOf(t, x, 2, c))
  BY DEF DiffersAt
<1> DEFINE R == RowsAt(t, x, 1, l1, w)
           T == RowsAt(t, x, 2, l2, w)
           A == {r \in R : NumberAt(t, r) = c}
           B == {r \in T : NumberAt(t, r) = c}
           S1 == x.history[1][l1[4]]
           S2 == x.history[2][l2[4]]
<1>0. 1 \in DB /\ 2 \in DB
  BY DEF DB
<1>1. A = RowsOf(t, x, 1, c) /\ B = RowsOf(t, x, 2, c)
  BY <1>0, RowsHeld
<1>2. /\ IsFiniteSet(R) /\ IsFiniteSet(T)
      /\ R \subseteq TableRows(t, S1) /\ T \subseteq TableRows(t, S2)
      /\ l1[4] \in At(x, 1) /\ l2[4] \in At(x, 2)
  BY <1>0, RowsAtType
<1>3. TellsPlace(t, S1, S1) /\ TellsPlace(t, S1, S2) /\ TellsPlace(t, S2, S2)
  <2>1. \A d, e \in {1, 2} : \A i \in 1 .. Len(x.history[d]), j \in 1 .. Len(x.history[e]) :
          TellsPlace(t, x.history[d][i], x.history[e][j])
    BY DatabasesAssumption
  <2> QED
    BY <1>2, <2>1 DEF At
<1> HIDE DEF R, T, S1, S2
<1>4. \A r, q : (IF t = "epoch" THEN r.key = q.key ELSE r.pos = q.pos) => NumberAt(t, r) = NumberAt(t, q)
  BY DEF NumberAt
<1>5. /\ \A r, q \in R : r.content = q.content => (r \in A <=> q \in A)
      /\ \A r \in R, q \in T : r.content = q.content => (r \in A <=> q \in B)
      /\ \A r, q \in T : r.content = q.content => (r \in B <=> q \in B)
  BY <1>2, <1>3, <1>4 DEF TellsPlace
<1>6. A \in SUBSET R /\ B \in SUBSET T /\ SetHash(R) = SetHash(T)
  BY DEF R, T
<1> HIDE DEF A, B
<1>7. SetHash(A) = SetHash(B)
  BY <1>2, <1>5, <1>6, SamePartSameHash
<1> QED
  BY <1>1, <1>7

(* A settled window that was found different once always is. *)
LEMMA DifferentWindow ==
  ASSUME NEW t \in Tables, NEW x \in Databases[t], NEW l1 \in Four(x, 1), NEW l2 \in Four(x, 2),
         NEW w \in Windows(t), w.hi <= SettledOf(t, x),
         SetHash(RowsAt(t, x, 1, l1, w)) # SetHash(RowsAt(t, x, 2, l2, w))
  PROVE  AlwaysDiffers(t, x, w)
<1>0. 1 \in DB /\ 2 \in DB
  BY DEF DB
<1>1. \A l \in Four(x, 1) : RowsAt(t, x, 1, l, w) = RowsAtRest(t, x, 1, w)
  BY <1>0, SettledWindow
<1>2. \A l \in Four(x, 2) : RowsAt(t, x, 2, l, w) = RowsAtRest(t, x, 2, w)
  BY <1>0, SettledWindow
<1> QED
  BY <1>1, <1>2 DEF AlwaysDiffers

(***************************************************************************)
(* What Alignments kept: edges from 0 to the cutoff, ascending, each with  *)
(* its boundary in one snapshot of either database.                        *)
(***************************************************************************)
Boundaries(t, x, d, i, edges, thresholds) ==
  /\ DOMAIN thresholds = 1 .. Len(edges)
  /\ \A k \in 1 .. Len(edges) :
       /\ thresholds[k] # None
       /\ thresholds[k] = BoundaryId(x.history[d][i], AnchorSpine(t), edges[k])

LEMMA AlignmentKeeps ==
  ASSUME NEW t \in Tables, NEW x \in Databases[t], NEW i \in At(x, 1), NEW j \in At(x, 2)
  PROVE  LET k == AlignmentAt(t, x, i, j)
         IN  /\ k.edges \in Seq(0 .. Cutoff) /\ Ascends(k.edges)
             /\ Boundaries(t, x, 1, i, k.edges, k.thresholds[1]) /\ Ascends(k.thresholds[1])
             /\ Boundaries(t, x, 2, j, k.edges, k.thresholds[2]) /\ Ascends(k.thresholds[2])
             /\ Len(k.thresholds[1]) = Len(k.edges) /\ Len(k.thresholds[2]) = Len(k.edges)
<1> DEFINE k == AlignmentAt(t, x, i, j)
           edges == BlockEdges(Cutoff, NumBuckets)
           B(d, s) == BucketBoundaryIds(x.history[d][s], AnchorSpine(t), edges)
<1>1. k = AlignBucketBoundaries(edges, B(1, i), B(2, j))
  BY DEF AlignmentAt
<1>3. edges \in Seq(0 .. Cutoff) /\ Ascends(edges)
  BY EdgesAscend
<1>4. Len(edges) \in Nat /\ DOMAIN edges = 1 .. Len(edges)
  BY <1>3, LenProperties
<1>5. \A d, n : B(d, n) = [m \in DOMAIN edges |-> BoundaryId(x.history[d][n], AnchorSpine(t), edges[m])]
  BY DEF BucketBoundaryIds
<1> HIDE DEF edges, B, k
<1>6. PICK m \in Nat : \E a : Selects(a, m, k, edges, B(1, i), B(2, j))
  BY <1>1, <1>4, AlignedEdges
<1>7. PICK a : Selects(a, m, k, edges, B(1, i), B(2, j))
  BY <1>6
<1>8. \A n \in 1 .. m : a[n] \in DOMAIN edges /\ edges[a[n]] \in 0 .. Cutoff
  <2>1. \A n \in 1 .. m : a[n] \in DOMAIN edges
    BY <1>7 DEF Selects
  <2> QED
    BY <1>3, <1>4, <2>1, ElementOfSeq
<1>9. k.edges = [n \in 1 .. m |-> edges[a[n]]]
  BY <1>7 DEF Selects
<1>10. k.edges \in Seq(0 .. Cutoff) /\ Len(k.edges) = m /\ DOMAIN k.edges = 1 .. m
  <2> DEFINE f == k.edges
  <2>1. f \in [1 .. m -> 0 .. Cutoff]
    BY <1>8, <1>9
  <2> HIDE DEF f
  <2>2. f \in Seq(0 .. Cutoff) /\ Len(f) = m /\ DOMAIN f = 1 .. m
    BY <2>1, FunctionIsSeq
  <2> QED
    BY <2>2 DEF f
<1>11. Ascends(k.edges)
  <2>1. \A n, o \in 1 .. m : n < o => a[n] < a[o]
    BY <1>7 DEF Selects
  <2>2. \A n, o \in 1 .. m : n < o => edges[a[n]] < edges[a[o]]
    BY <1>3, <1>8, <2>1 DEF Ascends
  <2> QED
    BY <1>9, <1>10, <2>2 DEF Ascends
<1>12. k.thresholds[1] = [n \in 1 .. m |-> B(1, i)[a[n]]] /\ k.thresholds[2] = [n \in 1 .. m |-> B(2, j)[a[n]]]
  BY <1>7 DEF Selects
<1>13. \A n \in 1 .. m : B(1, i)[a[n]] # None /\ B(2, j)[a[n]] # None
  BY <1>7 DEF Selects
<1>14. ASSUME NEW d, NEW y, k.thresholds[d] = [n \in 1 .. m |-> B(d, y)[a[n]]],
              \A n \in 1 .. m : B(d, y)[a[n]] # None
       PROVE  Boundaries(t, x, d, y, k.edges, k.thresholds[d])
  <2>1. \A n \in 1 .. m : B(d, y)[a[n]] = BoundaryId(x.history[d][y], AnchorSpine(t), k.edges[n])
    BY <1>5, <1>8, <1>9
  <2> QED
    BY <1>10, <1>14, <2>1 DEF Boundaries
<1>15. Boundaries(t, x, 1, i, k.edges, k.thresholds[1]) /\ Boundaries(t, x, 2, j, k.edges, k.thresholds[2])
  BY <1>12, <1>13, <1>14
<1>16. Len(k.thresholds[1]) = m /\ Len(k.thresholds[2]) = m
  <2> DEFINE f == k.thresholds[1]
             g == k.thresholds[2]
             V == {B(1, i)[a[n]] : n \in 1 .. m}
             W == {B(2, j)[a[n]] : n \in 1 .. m}
  <2>1. f \in [1 .. m -> V] /\ g \in [1 .. m -> W]
    BY <1>12
  <2> HIDE DEF f, g, V, W
  <2>2. Len(f) = m /\ Len(g) = m
    BY <2>1, FunctionIsSeq
  <2> QED
    BY <2>2 DEF f, g
<1>17. Ascends(k.thresholds[1]) /\ Ascends(k.thresholds[2])
  <2>1. \A n, o \in 1 .. m : n < o => B(1, i)[a[n]] < B(1, i)[a[o]] /\ B(2, j)[a[n]] < B(2, j)[a[o]]
    BY <1>7 DEF Selects
  <2> QED
    BY <1>12, <2>1 DEF Ascends
<1> QED
  BY <1>10, <1>11, <1>15, <1>16, <1>17 DEF k

LEMMA AlignedKeeps ==
  ASSUME NEW t \in Tables, NEW x \in Databases[t], NEW k \in Alignments(t, x)
  PROVE  /\ k.edges \in Seq(0 .. Cutoff) /\ Ascends(k.edges)
         /\ \A d \in DB : \E i \in At(x, d) : Boundaries(t, x, d, i, k.edges, k.thresholds[d])
         /\ Len(k.thresholds[1]) = Len(k.edges) /\ Len(k.thresholds[2]) = Len(k.edges)
BY AlignmentKeeps DEF Alignments, DB

-----------------------------------------------------------------------------
(***************************************************************************)
(* What a turn of the bisection does to the two lists of windows.          *)
(***************************************************************************)
LEMMA TopAndRest ==
  ASSUME NEW S, NEW seq \in Seq(S), seq # <<>>
  PROVE  /\ Len(seq) \in Nat \ {0} /\ Last(seq) = seq[Len(seq)] /\ Last(seq) \in S
         /\ Front(seq) \in Seq(S) /\ Len(Front(seq)) = Len(seq) - 1
         /\ DOMAIN seq = 1 .. Len(seq) /\ DOMAIN Front(seq) = 1 .. Len(seq) - 1
         /\ \A i \in 1 .. Len(seq) - 1 : Front(seq)[i] = seq[i]
<1>1. Len(seq) \in Nat \ {0} /\ DOMAIN seq = 1 .. Len(seq)
  BY EmptySeq, LenProperties
<1>2. \A i \in 1 .. Len(seq) : seq[i] \in S
  BY ElementOfSeq
<1>3. \A i \in 1 .. Len(seq) - 1 : seq[i] \in S
  BY <1>1, <1>2
<1>4. /\ SubSeq(seq, 1, Len(seq) - 1) \in Seq(S)
      /\ Len(SubSeq(seq, 1, Len(seq) - 1)) = Len(seq) - 1
      /\ \A i \in 1 .. Len(seq) - 1 : SubSeq(seq, 1, Len(seq) - 1)[i] = seq[i]
  <2> DEFINE n == Len(seq) - 1
  <2>1. n \in Int /\ 1 \in Int /\ \A i \in 1 .. n : seq[i] \in S
    BY <1>1, <1>3
  <2> HIDE DEF n
  <2>2. /\ SubSeq(seq, 1, n) \in Seq(S)
        /\ Len(SubSeq(seq, 1, n)) = IF 1 <= n THEN n - 1 + 1 ELSE 0
        /\ \A i \in 1 .. n - 1 + 1 : SubSeq(seq, 1, n)[i] = seq[1 + i - 1]
    BY <2>1, SubSeqProperties
  <2>3. n - 1 + 1 = n /\ \A i \in 1 .. n : 1 + i - 1 = i
    BY <2>1
  <2>4. n \in Nat
    BY <1>1 DEF n
  <2>5. (IF 1 <= n THEN n ELSE 0) = n
    BY <2>4
  <2> QED
    BY <2>2, <2>3, <2>5 DEF n
<1>5. DOMAIN Front(seq) = 1 .. Len(seq) - 1
  BY <1>4, LenProperties DEF Front
<1> QED
  BY <1>1, <1>2, <1>4, <1>5 DEF Last, Front

LEMMA PruneOrder ==
  ASSUME NEW t \in Tables, NEW F \in Seq(Windows(t)), NEW S \in Seq(Windows(t)), S # <<>>,
         NEW n, LowestAbove(F, S, n)
  PROVE  LowestAbove(F, Front(S), n)
<1>1. /\ DOMAIN S = 1 .. Len(S) /\ DOMAIN Front(S) = 1 .. Len(S) - 1 /\ Len(S) \in Nat
      /\ \A i \in 1 .. Len(S) - 1 : Front(S)[i] = S[i]
  BY TopAndRest
<1>2. \A i \in DOMAIN Front(S) : i \in DOMAIN S /\ Front(S)[i] = S[i]
  BY <1>1
<1> QED
  BY <1>2 DEF LowestAbove

LEMMA ReportOrder ==
  ASSUME NEW t \in Tables, NEW F \in Seq(Windows(t)), NEW S \in Seq(Windows(t)), S # <<>>,
         NEW n, LowestAbove(F, S, n), Last(S).hi - Last(S).lo <= n
  PROVE  LowestAbove(Append(F, Last(S)), Front(S), n)
<1> DEFINE k == Len(S)
           w == Last(S)
           G == Append(F, w)
<1>1. /\ DOMAIN S = 1 .. k /\ DOMAIN Front(S) = 1 .. k - 1 /\ k \in Nat /\ k \in 1 .. k
      /\ \A i \in 1 .. k - 1 : Front(S)[i] = S[i]
      /\ w = S[k] /\ w \in Windows(t)
  BY TopAndRest
<1>2. LowestAbove(F, Front(S), n)
  BY PruneOrder
<1>3. /\ Len(F) \in Nat /\ DOMAIN F = 1 .. Len(F)
      /\ G \in Seq(Windows(t)) /\ Len(G) = Len(F) + 1
      /\ \A i \in 1 .. Len(F) : G[i] = F[i]
      /\ G[Len(F) + 1] = w
  BY <1>1, AppendProperties, LenProperties
<1>4. DOMAIN G = 1 .. Len(F) + 1
  BY <1>3, LenProperties
<1> HIDE DEF G, w, k
<1>5. \A i \in DOMAIN G : (i \in DOMAIN F /\ G[i] = F[i]) \/ (i = Len(F) + 1 /\ G[i] = w)
  BY <1>3, <1>4
<1>6. \A i \in DOMAIN F : F[i].hi < w.lo
  BY <1>1 DEF LowestAbove
<1>7. \A j \in DOMAIN Front(S) : w.hi < Front(S)[j].lo
  BY <1>1 DEF LowestAbove
<1>8. \A i, j \in DOMAIN G : i < j => G[i].hi < G[j].lo
  <2> SUFFICES ASSUME NEW i \in DOMAIN G, NEW j \in DOMAIN G, i < j
               PROVE  G[i].hi < G[j].lo
    OBVIOUS
  <2>1. i \in DOMAIN F /\ G[i] = F[i]
    BY <1>3, <1>4, <1>5
  <2> QED
    BY <1>5, <1>6, <2>1 DEF LowestAbove
<1>9. w.hi - w.lo <= n
  BY DEF w
<1>10. LowestAbove(G, Front(S), n)
  BY <1>2, <1>5, <1>7, <1>8, <1>9 DEF LowestAbove
<1> QED
  BY <1>10 DEF G, w

LEMMA HalvesAre ==
  ASSUME NEW t \in Tables, NEW w \in Windows(t), w.lo < w.hi
  PROVE  \E lower, upper \in Windows(t) :
           /\ Halves(w) = <<upper, lower>>
           /\ lower.lo = w.lo /\ lower.hi < upper.lo /\ upper.hi = w.hi
           /\ upper.lo = lower.hi + 1
<1> DEFINE mid == (w.lo + w.hi) \div 2
           lower == [lo |-> w.lo, hi |-> mid]
           upper == [lo |-> mid + 1, hi |-> w.hi]
<1>1. TopOf(t) \in Nat
  BY LocalizeAssumption DEF TopOf
<1>2. w.lo \in 0 .. TopOf(t) /\ w.hi \in 0 .. TopOf(t)
  BY DEF Windows
<1>3. mid \in Nat /\ w.lo <= mid /\ mid < w.hi
  BY <1>1, <1>2
<1>4. Halves(w) = <<upper, lower>>
  BY DEF Halves
<1> HIDE DEF mid
<1>5. lower \in Windows(t) /\ upper \in Windows(t)
  BY <1>1, <1>2, <1>3 DEF Windows
<1>6. lower.lo = w.lo /\ lower.hi < upper.lo /\ upper.hi = w.hi /\ upper.lo = lower.hi + 1
  BY <1>3
<1> QED
  BY <1>4, <1>5, <1>6

(* The stack after a split: the rest, the upper half, the lower half. *)
SplitTo(S, T, lower, upper) ==
  /\ DOMAIN T = 1 .. Len(S) + 1
  /\ \A i \in 1 .. Len(S) - 1 : T[i] = S[i]
  /\ T[Len(S)] = upper /\ T[Len(S) + 1] = lower
  /\ lower.lo = Last(S).lo /\ lower.hi < upper.lo /\ upper.hi = Last(S).hi
  /\ upper.lo = lower.hi + 1

LEMMA SplitStack ==
  ASSUME NEW t \in Tables, NEW S \in Seq(Windows(t)), S # <<>>, Last(S).lo < Last(S).hi
  PROVE  LET T == Front(S) \o Halves(Last(S))
         IN  T \in Seq(Windows(t)) /\ \E lower, upper \in Windows(t) : SplitTo(S, T, lower, upper)
<1> DEFINE k == Len(S)
           w == Last(S)
           T == Front(S) \o Halves(w)
<1>1. k \in Nat \ {0} /\ w \in Windows(t) /\ Front(S) \in Seq(Windows(t)) /\ Len(Front(S)) = k - 1
      /\ \A i \in 1 .. k - 1 : Front(S)[i] = S[i]
  BY TopAndRest
<1>2. PICK lower \in Windows(t), upper \in Windows(t) :
        /\ Halves(w) = <<upper, lower>>
        /\ lower.lo = w.lo /\ lower.hi < upper.lo /\ upper.hi = w.hi
        /\ upper.lo = lower.hi + 1
  BY <1>1, HalvesAre
<1> DEFINE H == <<upper, lower>>
<1>3. H \in Seq(Windows(t)) /\ Len(H) = 2 /\ H[1] = upper /\ H[2] = lower
  OBVIOUS
<1> HIDE DEF H
<1>4. T = Front(S) \o H
  BY <1>2 DEF H
<1> HIDE DEF T, k, w
<1>5. /\ T \in Seq(Windows(t))
      /\ Len(T) = k + 1
      /\ \A i \in 1 .. k + 1 : T[i] = IF i <= k - 1 THEN Front(S)[i] ELSE H[i - (k - 1)]
  <2> DEFINE G == Front(S)
  <2>1. G \in Seq(Windows(t)) /\ Len(G) = k - 1 /\ T = G \o H
    BY <1>1, <1>4
  <2> HIDE DEF G
  <2>2. /\ T \in Seq(Windows(t))
        /\ Len(T) = Len(G) + Len(H)
        /\ \A i \in 1 .. Len(G) + Len(H) : T[i] = IF i <= Len(G) THEN G[i] ELSE H[i - Len(G)]
    BY <1>3, <2>1, ConcatProperties
  <2>3. Len(G) + Len(H) = k + 1 /\ Len(G) = k - 1
    BY <1>1, <1>3, <2>1
  <2> QED
    BY <2>2, <2>3 DEF G
<1>6. DOMAIN T = 1 .. k + 1
  BY <1>5, LenProperties
<1>7. \A i \in 1 .. k - 1 : T[i] = S[i]
  BY <1>1, <1>5
<1>8. T[k] = upper /\ T[k + 1] = lower
  <2>1. k \in 1 .. k + 1 /\ k + 1 \in 1 .. k + 1 /\ ~(k <= k - 1) /\ ~(k + 1 <= k - 1)
        /\ k - (k - 1) = 1 /\ k + 1 - (k - 1) = 2
    BY <1>1
  <2> QED
    BY <1>3, <1>5, <2>1
<1>9. SplitTo(S, T, lower, upper)
  BY <1>2, <1>6, <1>7, <1>8 DEF SplitTo, k, w
<1> QED
  BY <1>5, <1>9 DEF T, w

LEMMA SplitOrder ==
  ASSUME NEW t \in Tables, NEW F \in Seq(Windows(t)), NEW S \in Seq(Windows(t)), S # <<>>,
         NEW n, LowestAbove(F, S, n), NEW T, NEW lower \in Windows(t), NEW upper \in Windows(t),
         SplitTo(S, T, lower, upper)
  PROVE  LowestAbove(F, T, n)
<1> DEFINE k == Len(S)
           w == Last(S)
<1>0. DOMAIN S = 1 .. k /\ k \in Nat \ {0} /\ w = S[k]
  BY TopAndRest
<1>1. DOMAIN S = 1 .. k /\ k \in Nat \ {0} /\ w = S[k] /\ k \in 1 .. k
  BY <1>0
<1>2. \A v \in Windows(t) : v.lo \in Nat /\ v.hi \in Nat /\ v.lo <= v.hi
  BY LocalizeAssumption DEF Windows, TopOf
<1>3. /\ \A i \in 1 .. k : S[i] \in Windows(t)
      /\ DOMAIN F = 1 .. Len(F) /\ \A i \in DOMAIN F : F[i] \in Windows(t)
  BY ElementOfSeq, LenProperties
<1> HIDE DEF k, w
<1>4. /\ DOMAIN T = 1 .. k + 1
      /\ \A i \in 1 .. k - 1 : T[i] = S[i]
      /\ T[k] = upper /\ T[k + 1] = lower
      /\ lower.lo = w.lo /\ lower.hi < upper.lo /\ upper.hi = w.hi
  BY DEF SplitTo, k, w
<1>5. \A i \in 1 .. k + 1 : i \in 1 .. k - 1 \/ i = k \/ i = k + 1
  BY <1>1
<1>6. \A i \in 1 .. k - 1 : i \in 1 .. k /\ w.hi < S[i].lo
  BY <1>1 DEF LowestAbove
<1>7. \A i \in DOMAIN F : F[i].hi < w.lo
  BY <1>1 DEF LowestAbove
<1>8. lower.hi < w.hi /\ w.lo < upper.lo /\ w \in Windows(t)
  BY <1>1, <1>2, <1>3, <1>4
<1>9. \A i, j \in DOMAIN T : i < j => T[j].hi < T[i].lo
  <2> SUFFICES ASSUME NEW i \in 1 .. k + 1, NEW j \in 1 .. k + 1, i < j
               PROVE  T[j].hi < T[i].lo
    BY <1>4
  <2>1. CASE i \in 1 .. k - 1
    <3>1. T[i] = S[i] /\ S[i] \in Windows(t) /\ w.hi < S[i].lo
      BY <1>3, <1>4, <1>6, <2>1
    <3>2. CASE j \in 1 .. k - 1
      <4>1. T[j] = S[j] /\ i \in DOMAIN S /\ j \in DOMAIN S
        BY <1>1, <1>4, <1>6, <2>1, <3>2
      <4> QED
        BY <3>1, <4>1 DEF LowestAbove
    <3>3. CASE j = k \/ j = k + 1
      <4>1. T[j].hi <= w.hi /\ T[j].hi \in Nat
        BY <1>2, <1>4, <1>8, <3>3
      <4> QED
        BY <1>2, <1>8, <3>1, <4>1
    <3> QED
      BY <1>5, <3>2, <3>3
  <2>2. CASE i = k \/ i = k + 1
    <3>1. i = k /\ j = k + 1
      BY <1>1, <2>2
    <3> QED
      BY <1>4, <3>1
  <2> QED
    BY <1>5, <2>1, <2>2
<1>10. \A i \in DOMAIN F, j \in DOMAIN T : F[i].hi < T[j].lo
  <2> SUFFICES ASSUME NEW i \in DOMAIN F, NEW j \in 1 .. k + 1
               PROVE  F[i].hi < T[j].lo
    BY <1>4
  <2>1. CASE j \in 1 .. k - 1
    <3>1. T[j] = S[j] /\ j \in DOMAIN S
      BY <1>1, <1>4, <1>6, <2>1
    <3> QED
      BY <3>1 DEF LowestAbove
  <2>2. CASE j = k \/ j = k + 1
    <3>1. w.lo <= T[j].lo /\ T[j].lo \in Nat
      BY <1>2, <1>4, <1>8, <2>2
    <3> QED
      BY <1>2, <1>3, <1>7, <1>8, <3>1
  <2> QED
    BY <1>5, <2>1, <2>2
<1> QED
  BY <1>9, <1>10 DEF LowestAbove

(* A number that a turn does not find settled to be equal stays in a window. *)
LEMMA PruneHolds ==
  ASSUME NEW t \in Tables, NEW S \in Seq(Windows(t)), S # <<>>, NEW c, Holds(S, c)
  PROVE  Holds(Front(S), c) \/ (Last(S).lo <= c /\ c <= Last(S).hi)
<1>1. /\ DOMAIN S = 1 .. Len(S) /\ DOMAIN Front(S) = 1 .. Len(S) - 1 /\ Len(S) \in Nat
      /\ \A i \in 1 .. Len(S) - 1 : Front(S)[i] = S[i]
      /\ Last(S) = S[Len(S)]
  BY TopAndRest
<1>2. PICK i \in 1 .. Len(S) : S[i].lo <= c /\ c <= S[i].hi
  BY <1>1 DEF Holds
<1>3. i = Len(S) \/ i \in 1 .. Len(S) - 1
  <2> DEFINE n == Len(S)
  <2>1. n \in Nat /\ i \in 1 .. n
    BY <1>1
  <2> HIDE DEF n
  <2>2. i = n \/ i \in 1 .. n - 1
    BY <2>1
  <2> QED
    BY <2>2 DEF n
<1> QED
  BY <1>1, <1>2, <1>3 DEF Holds

LEMMA ReportHolds ==
  ASSUME NEW t \in Tables, NEW F \in Seq(Windows(t)), NEW w \in Windows(t), NEW c
  PROVE  Holds(F, c) \/ (w.lo <= c /\ c <= w.hi) => Holds(Append(F, w), c)
<1>1. /\ Len(F) \in Nat /\ DOMAIN F = 1 .. Len(F)
      /\ Append(F, w) \in Seq(Windows(t)) /\ Len(Append(F, w)) = Len(F) + 1
      /\ \A i \in 1 .. Len(F) : Append(F, w)[i] = F[i]
      /\ Append(F, w)[Len(F) + 1] = w
  BY AppendProperties, LenProperties
<1>2. DOMAIN Append(F, w) = 1 .. Len(F) + 1
  BY <1>1, LenProperties
<1>3. Len(F) + 1 \in 1 .. Len(F) + 1 /\ \A i \in 1 .. Len(F) : i \in 1 .. Len(F) + 1
  BY <1>1
<1> QED
  BY <1>1, <1>2, <1>3 DEF Holds

LEMMA SplitHolds ==
  ASSUME NEW t \in Tables, NEW S \in Seq(Windows(t)), S # <<>>, NEW T,
         NEW lower \in Windows(t), NEW upper \in Windows(t), SplitTo(S, T, lower, upper),
         NEW c \in Nat, Holds(S, c)
  PROVE  Holds(T, c)
<1>1. /\ DOMAIN S = 1 .. Len(S) /\ Len(S) \in Nat \ {0} /\ Last(S) = S[Len(S)]
  BY TopAndRest
<1>2. PICK i \in 1 .. Len(S) : S[i].lo <= c /\ c <= S[i].hi
  BY <1>1 DEF Holds
<1>3. \A j \in 1 .. Len(S) - 1 : j \in 1 .. Len(S) + 1
  BY <1>1
<1>4. Len(S) \in 1 .. Len(S) + 1 /\ Len(S) + 1 \in 1 .. Len(S) + 1
  BY <1>1
<1>5. CASE i \in 1 .. Len(S) - 1
  BY <1>2, <1>3, <1>5 DEF SplitTo, Holds
<1>6. CASE i = Len(S)
  <2>1. lower.hi \in Nat
    BY LocalizeAssumption DEF Windows, TopOf
  <2>2. (lower.lo <= c /\ c <= lower.hi) \/ (upper.lo <= c /\ c <= upper.hi)
    BY <1>1, <1>2, <1>6, <2>1 DEF SplitTo
  <2> QED
    BY <1>4, <2>2 DEF SplitTo, Holds
<1>7. i = Len(S) \/ i \in 1 .. Len(S) - 1
  <2> DEFINE n == Len(S)
  <2>1. n \in Nat /\ i \in 1 .. n
    BY <1>1
  <2> HIDE DEF n
  <2>2. i = n \/ i \in 1 .. n - 1
    BY <2>1
  <2> QED
    BY <2>2 DEF n
<1> QED
  BY <1>5, <1>6, <1>7

-----------------------------------------------------------------------------
(***************************************************************************)
(* The invariant holds at the start.                                       *)
(***************************************************************************)
LEMMA WholeChainIs ==
  ASSUME table \in Tables, dbs \in Databases[table]
  PROVE  /\ WholeChain \in Seq(Windows(table))
         /\ \A n : LowestAbove(<<>>, WholeChain, n)
         /\ \A c : DiffersAt(table, dbs, c) => Holds(WholeChain, c)
<1> DEFINE w == [lo |-> 0, hi |-> TopOf(table)]
<1>1. WholeChain = <<w>>
  BY TopIs DEF WholeChain
<1>2. TopOf(table) \in Nat /\ SettledOf(table, dbs) \in Nat /\ SettledOf(table, dbs) <= TopOf(table)
  <2>1. Cutoff \in Nat /\ CutoffEpoch \in Nat
    BY LocalizeAssumption
  <2>2. dbs.settled \in Nat
    BY DatabasesAssumption
  <2> QED
    BY <2>1, <2>2 DEF TopOf, SettledOf
<1>3. w \in Windows(table) /\ w.lo = 0 /\ w.hi = TopOf(table)
  BY <1>2 DEF Windows
<1> HIDE DEF w
<1>4. <<w>> \in Seq(Windows(table)) /\ DOMAIN <<w>> = {1} /\ <<w>>[1] = w
  BY <1>3
<1>5. \A n : LowestAbove(<<>>, <<w>>, n)
  <2>1. DOMAIN <<>> = {}
    OBVIOUS
  <2>2. \A i, j \in DOMAIN <<w>> : ~ i < j
    BY <1>4
  <2> QED
    BY <2>1, <2>2 DEF LowestAbove
<1>6. \A c : DiffersAt(table, dbs, c) => Holds(<<w>>, c)
  <2>1. \A c \in 0 .. SettledOf(table, dbs) : w.lo <= c /\ c <= w.hi
    BY <1>2, <1>3
  <2> QED
    BY <1>4, <2>1 DEF DiffersAt, Holds
<1> QED
  BY <1>1, <1>4, <1>5, <1>6

LEMMA NothingIsKept == Len(NothingKept.edges) = 0
  BY DEF NothingKept

LEMMA LocalizeInit == Init => LocalizeInv
<1> SUFFICES ASSUME Init
             PROVE  LocalizeInv
  OBVIOUS
<1>1. table \in Tables /\ dbs \in Databases[table] /\ limits \in Limits
  BY DEF Init
<1>2. \A d \in DB : now[d] \in At(dbs, d)
  <2>1. \A d \in DB : \A a \in PhaseOneHashes(d) : a.at \in At(dbs, d)
    <3> SUFFICES ASSUME NEW d \in DB, NEW a \in PhaseOneHashes(d)
                 PROVE  a.at \in At(dbs, d)
      OBVIOUS
    <3> DEFINE H(l) == SetHash(NullRows(d, l[4]) \cup
                         (IF OnEpochs THEN WindowRows(d, l, [lo |-> 0, hi |-> CutoffEpoch])
                                      ELSE IdRangeRows(d, l, None)))
    <3>0. PhaseOneHashes(d) = {[says |-> H(l), at |-> l[4]] : l \in Looks(d, 1)}
      BY DEF PhaseOneHashes, Answers
    <3> HIDE DEF H
    <3>1. PICK l \in Looks(d, 1) : a.at = l[4]
      BY <3>0
    <3> QED
      BY <3>1 DEF Looks, From, At
  <2>2. PICK a \in PhaseOneHashes(1), b \in PhaseOneHashes(2) : now = <<a.at, b.at>>
    BY DEF Init
  <2> QED
    BY <2>1, <2>2 DEF DB
<1>3. InputInv
  BY <1>1, <1>2 DEF InputInv
<1>4. CourseInv
  BY NothingIsKept DEF Init, CourseInv
<1>5. \/ pc = "align" /\ stack = <<>>
      \/ pc = "search" /\ stack = WholeChain
  BY DEF Init
<1>6. found = <<>> /\ kept = NothingKept
  BY DEF Init
<1>7. WindowInv
  <2>1. <<>> \in Seq(Windows(table))
    BY EmptySeq
  <2> QED
    BY <1>1, <1>5, <1>6, <2>1, WholeChainIs DEF WindowInv
<1>8. OrderInv
  <2>1. \A n : LowestAbove(<<>>, <<>>, n)
    BY DEF LowestAbove
  <2> QED
    BY <1>1, <1>5, <1>6, <2>1, WholeChainIs DEF OrderInv
<1>9. DifferInv
  BY <1>6 DEF DifferInv
<1>10. CoverInv
  BY <1>1, <1>5, WholeChainIs DEF CoverInv
<1>11. NullInv
  BY <1>5 DEF NullInv
<1> QED
  BY <1>3, <1>4, <1>7, <1>8, <1>9, <1>10, <1>11 DEF LocalizeInv

(***************************************************************************)
(* A turn of the bisection keeps it.                                       *)
(***************************************************************************)
LEMMA TurnSees ==
  ASSUME InputInv, NEW differ, TopHashes(differ)
  PROVE  \E l1 \in Four(dbs, 1), l2 \in Four(dbs, 2) :
           /\ differ = (SetHash(RowsAt(table, dbs, 1, l1, Last(stack)))
                          # SetHash(RowsAt(table, dbs, 2, l2, Last(stack))))
           /\ now' = <<l1[4], l2[4]>>
           /\ l1[4] \in At(dbs, 1) /\ l2[4] \in At(dbs, 2)
<1> DEFINE w == Last(stack)
<1>1. \A d \in DB : \A a \in WindowHashes(d, w) :
        \E l \in Looks(d, now[d]) : a.says = SetHash(RowsAt(table, dbs, d, l, w)) /\ a.at = l[4]
  <2> SUFFICES ASSUME NEW d \in DB, NEW a \in WindowHashes(d, w)
               PROVE  \E l \in Looks(d, now[d]) : a.says = SetHash(RowsAt(table, dbs, d, l, w)) /\ a.at = l[4]
    OBVIOUS
  <2> HIDE DEF w
  <2>1. PICK l \in Looks(d, now[d]) : a = [says |-> SetHash(WindowRows(d, l, w)), at |-> l[4]]
    BY DEF WindowHashes, Answers
  <2>2. WindowRows(d, l, w) = RowsAt(table, dbs, d, l, w)
    BY RowsAtIs
  <2> QED
    BY <2>1, <2>2
<1>2. PICK a \in WindowHashes(1, w), b \in WindowHashes(2, w) :
        differ = (a.says # b.says) /\ now' = <<a.at, b.at>>
  BY DEF TopHashes
<1> HIDE DEF w
<1>3. 1 \in DB /\ 2 \in DB
  BY DEF DB
<1>4. PICK l1 \in Looks(1, now[1]) : a.says = SetHash(RowsAt(table, dbs, 1, l1, w)) /\ a.at = l1[4]
  BY <1>1, <1>3
<1>5. PICK l2 \in Looks(2, now[2]) : b.says = SetHash(RowsAt(table, dbs, 2, l2, w)) /\ b.at = l2[4]
  BY <1>1, <1>3
<1>6. /\ l1 \in Four(dbs, 1) /\ l1[4] \in At(dbs, 1)
      /\ l2 \in Four(dbs, 2) /\ l2[4] \in At(dbs, 2)
  BY <1>3, LooksIn DEF InputInv
<1> QED
  BY <1>2, <1>4, <1>5, <1>6 DEF w

LEMMA TurnKeepsInv ==
  ASSUME LocalizeInv, Prune \/ Report \/ Split
  PROVE  LocalizeInv'
<1> DEFINE w == Last(stack)
           D(l1, l2) == SetHash(RowsAt(table, dbs, 1, l1, w)) # SetHash(RowsAt(table, dbs, 2, l2, w))
<1>1. /\ pc = "search" /\ stack # <<>>
      /\ UNCHANGED <<table, method, limits, dbs, pc, kept, truncated, noBlock, errors>>
  BY DEF Prune, Report, Split, Searching, input
<1>2. /\ InputInv /\ CourseInv /\ WindowInv /\ OrderInv /\ DifferInv /\ CoverInv
      /\ table \in Tables /\ dbs \in Databases[table] /\ limits \in Limits
      /\ stack \in Seq(Windows(table)) /\ found \in Seq(Windows(table))
  BY DEF LocalizeInv, InputInv, WindowInv
<1>3. Bisecting /\ Bisecting' /\ Narrow' = Narrow /\ pc # "align" /\ pc # "done"
  BY <1>1 DEF Bisecting, Narrow, OnEpochs
<1>4. LowestAbove(found, stack, Narrow)
  BY <1>2, <1>3 DEF OrderInv
<1>5. w \in Windows(table)
  BY <1>1, <1>2, TopAndRest
<1>6. Narrow \in Nat
  BY <1>2, LocalizeAssumption DEF Narrow
<1>7. InputInv'
  <2>1. TopHashes(FALSE) \/ TopHashes(TRUE)
    BY DEF Prune, Report, Split
  <2>2. PICK i \in At(dbs, 1), j \in At(dbs, 2) : now' = <<i, j>>
    BY <1>2, <2>1, TurnSees
  <2> QED
    BY <1>1, <1>2, <2>2 DEF InputInv, DB
<1>8. CourseInv'
  <2>1. ByBuckets' = ByBuckets
    BY <1>1 DEF ByBuckets, OnEpochs
  <2> QED
    BY <1>1, <1>2, <2>1 DEF CourseInv
<1>9. NullInv'
  BY <1>1 DEF NullInv
<1>10. /\ stack' \in Seq(Windows(table)) /\ found' \in Seq(Windows(table))
       /\ LowestAbove(found', stack', Narrow)
       /\ \A i \in DOMAIN found' :
            found'[i].hi <= SettledOf(table, dbs) => AlwaysDiffers(table, dbs, found'[i])
       /\ dbs.tied => \A c \in Nat : DiffersAt(table, dbs, c) => Holds(stack', c) \/ Holds(found', c)
  <2>1. /\ \A i \in DOMAIN found :
             found[i].hi <= SettledOf(table, dbs) => AlwaysDiffers(table, dbs, found[i])
        /\ dbs.tied => \A c \in Nat : DiffersAt(table, dbs, c) => Holds(stack, c) \/ Holds(found, c)
    BY <1>2, <1>3 DEF DifferInv, CoverInv
  <2>2. Front(stack) \in Seq(Windows(table))
    BY <1>1, <1>2, TopAndRest
  <2>3. CASE Prune
    <3>1. stack' = Front(stack) /\ found' = found /\ TopHashes(FALSE)
      BY <2>3 DEF Prune
    <3>2. PICK l1 \in Four(dbs, 1), l2 \in Four(dbs, 2) : ~D(l1, l2)
      BY <1>2, <3>1, TurnSees
    <3>3. dbs.tied => \A c \in Nat : w.lo <= c /\ c <= w.hi => ~DiffersAt(table, dbs, c)
      BY <1>2, <1>5, <3>2, EqualWindow
    <3>4. dbs.tied => \A c \in Nat : DiffersAt(table, dbs, c) => Holds(Front(stack), c) \/ Holds(found, c)
      BY <1>1, <1>2, <2>1, <3>3, PruneHolds
    <3>5. LowestAbove(found, Front(stack), Narrow)
      BY <1>1, <1>2, <1>4, PruneOrder
    <3> QED
      BY <1>2, <2>1, <2>2, <3>1, <3>4, <3>5
  <2>4. CASE Report
    <3>1. stack' = Front(stack) /\ found' = Append(found, w) /\ TopHashes(TRUE) /\ w.hi - w.lo <= Narrow
      BY <2>4 DEF Report
    <3>2. PICK l1 \in Four(dbs, 1), l2 \in Four(dbs, 2) : D(l1, l2)
      BY <1>2, <3>1, TurnSees
    <3>3. w.hi <= SettledOf(table, dbs) => AlwaysDiffers(table, dbs, w)
      BY <1>2, <1>5, <3>2, DifferentWindow
    <3>4. /\ Append(found, w) \in Seq(Windows(table))
          /\ \A i \in DOMAIN Append(found, w) :
               (i \in DOMAIN found /\ Append(found, w)[i] = found[i]) \/ Append(found, w)[i] = w
      <4> HIDE DEF w
      <4> DEFINE G == Append(found, w)
                 n == Len(found)
      <4>1. /\ n \in Nat /\ DOMAIN found = 1 .. n
            /\ G \in Seq(Windows(table)) /\ Len(G) = n + 1
            /\ \A i \in 1 .. n : G[i] = found[i]
            /\ G[n + 1] = w
        BY <1>2, <1>5, AppendProperties, LenProperties
      <4>2. DOMAIN G = 1 .. n + 1
        BY <4>1, LenProperties
      <4> HIDE DEF G, n
      <4>3. \A i \in DOMAIN G : (i \in DOMAIN found /\ G[i] = found[i]) \/ G[i] = w
        BY <4>1, <4>2
      <4> QED
        BY <4>1, <4>3 DEF G
    <3>5. dbs.tied => \A c \in Nat : DiffersAt(table, dbs, c) => Holds(Front(stack), c) \/ Holds(Append(found, w), c)
      BY <1>1, <1>2, <1>5, <2>1, PruneHolds, ReportHolds
    <3>6. LowestAbove(Append(found, w), Front(stack), Narrow)
      BY <1>1, <1>2, <1>4, <3>1, ReportOrder
    <3> HIDE DEF w
    <3>7. \A i \in DOMAIN Append(found, w) :
            Append(found, w)[i].hi <= SettledOf(table, dbs) => AlwaysDiffers(table, dbs, Append(found, w)[i])
      BY <2>1, <3>3, <3>4
    <3> QED
      BY <2>2, <3>1, <3>4, <3>5, <3>6, <3>7
  <2>5. CASE Split
    <3>1. stack' = Front(stack) \o Halves(w) /\ found' = found /\ w.hi - w.lo > Narrow
      BY <2>5 DEF Split
    <3>2. w.lo < w.hi
      <4>1. w.lo \in Nat /\ w.hi \in Nat
        BY <1>5, LocalizeAssumption DEF Windows, TopOf
      <4> HIDE DEF w
      <4> QED
        BY <1>6, <3>1, <4>1
    <3>3. PICK lower \in Windows(table), upper \in Windows(table) :
            stack' \in Seq(Windows(table)) /\ SplitTo(stack, stack', lower, upper)
      BY <1>1, <1>2, <3>1, <3>2, SplitStack
    <3>4. LowestAbove(found, stack', Narrow)
      BY <1>1, <1>2, <1>4, <3>3, SplitOrder
    <3>5. dbs.tied => \A c \in Nat : DiffersAt(table, dbs, c) => Holds(stack', c) \/ Holds(found, c)
      BY <1>1, <1>2, <2>1, <3>3, SplitHolds
    <3> QED
      BY <1>2, <2>1, <3>1, <3>3, <3>4, <3>5
  <2> QED
    BY <2>3, <2>4, <2>5
<1>11. WindowInv'
  BY <1>1, <1>2, <1>10 DEF WindowInv, OnEpochs
<1>12. OrderInv' /\ DifferInv' /\ CoverInv'
  BY <1>1, <1>3, <1>10 DEF OrderInv, DifferInv, CoverInv
<1> QED
  BY <1>7, <1>8, <1>9, <1>11, <1>12 DEF LocalizeInv

(***************************************************************************)
(* So does every other step.                                               *)
(***************************************************************************)
LEMMA BucketWindowType ==
  ASSUME NEW edges \in Seq(0 .. Cutoff), Ascends(edges), 1 <= Len(edges), NEW v \in 0 .. Len(edges)
  PROVE  LET w == BucketWindow(v, edges, Cutoff)
         IN  w \in [lo : 0 .. Cutoff, hi : 0 .. Cutoff] /\ w.lo <= w.hi
<1> DEFINE n == Len(edges)
           w == BucketWindow(v, edges, Cutoff)
<1>0. Cutoff \in Nat
  BY LocalizeAssumption
<1>1. n \in Nat /\ DOMAIN edges = 1 .. n /\ (\A i \in 1 .. n : edges[i] \in 0 .. Cutoff) /\ v \in 0 .. n /\ 1 <= n
  BY LenProperties, ElementOfSeq
<1>2. CASE v = 0
  <2>1. w = [lo |-> 0, hi |-> edges[1]]
    BY <1>2 DEF BucketWindow
  <2>2. edges[1] \in 0 .. Cutoff
    <3> HIDE DEF n
    <3> QED
      BY <1>1
  <2> HIDE DEF w
  <2>3. w \in [lo : 0 .. Cutoff, hi : 0 .. Cutoff] /\ w.lo <= w.hi
    BY <1>0, <2>1, <2>2
  <2> QED
    BY <2>3 DEF w
<1>3. CASE v \in 1 .. n - 1
  <2>1. w = [lo |-> edges[v], hi |-> edges[v + 1]]
    <3>1. v # 0 /\ ~(v >= n)
      <4> HIDE DEF n
      <4> QED
        BY <1>1, <1>3
    <3> QED
      BY <1>3, <3>1 DEF BucketWindow
  <2>2. v \in 1 .. n /\ v + 1 \in 1 .. n /\ v < v + 1
    <3> HIDE DEF n
    <3> QED
      BY <1>1, <1>3
  <2>3. edges[v] \in 0 .. Cutoff /\ edges[v + 1] \in 0 .. Cutoff /\ edges[v] < edges[v + 1]
    BY <1>1, <2>2 DEF Ascends
  <2> HIDE DEF w
  <2>4. w \in [lo : 0 .. Cutoff, hi : 0 .. Cutoff] /\ w.lo <= w.hi
    BY <1>0, <2>1, <2>3
  <2> QED
    BY <2>4 DEF w
<1>4. CASE v = n
  <2>1. w = [lo |-> edges[n], hi |-> Cutoff]
    <3>1. v # 0 /\ v \notin 1 .. n - 1 /\ v >= n
      <4> HIDE DEF n
      <4> QED
        BY <1>1, <1>4
    <3> QED
      BY <3>1 DEF BucketWindow
  <2>2. edges[n] \in 0 .. Cutoff
    <3> HIDE DEF n
    <3> QED
      BY <1>1
  <2> HIDE DEF w
  <2>3. w \in [lo : 0 .. Cutoff, hi : 0 .. Cutoff] /\ w.lo <= w.hi
    BY <1>0, <2>1, <2>2
  <2> QED
    BY <2>3 DEF w
<1>5. v = 0 \/ v \in 1 .. n - 1 \/ v = n
  <2> HIDE DEF n
  <2> QED
    BY <1>1
<1> HIDE DEF w
<1> QED
  BY <1>2, <1>3, <1>4, <1>5 DEF w

LEMMA AlignKeepsInv ==
  ASSUME LocalizeInv, Align
  PROVE  LocalizeInv'
<1>1. /\ pc = "align"
      /\ UNCHANGED <<table, method, limits, dbs, found, truncated, noBlock, errors>>
  BY DEF Align, input
<1>2. /\ InputInv /\ CourseInv /\ WindowInv
      /\ table \in Tables /\ dbs \in Databases[table] /\ limits \in Limits
      /\ ByBuckets /\ stack = <<>> /\ found = <<>> /\ errors = {}
      /\ \A d \in DB : now[d] \in At(dbs, d)
  BY <1>1 DEF LocalizeInv, InputInv, CourseInv
<1>3. PICK i \in From(1, now[1]), j \in From(2, now[2]) : kept' = Alignment(i, j) /\ now' = <<i, j>>
  BY DEF Align
<1>4. i \in At(dbs, 1) /\ j \in At(dbs, 2)
  BY <1>2 DEF From, At, DB
<1>5. InputInv'
  BY <1>1, <1>2, <1>3, <1>4 DEF InputInv, DB
<1>6. kept' \in Alignments(table, dbs) /\ ~OnEpochs /\ UNCHANGED OnEpochs /\ UNCHANGED ByBuckets
  BY <1>1, <1>2, <1>3, <1>4, AlignmentAtIs DEF Alignments, ByBuckets, OnEpochs
<1>7. Len(kept'.edges) \in Nat
  BY <1>2, <1>6, AlignedKeeps, LenProperties
<1>8. \/ Len(kept'.edges) < 2 /\ pc' = "search" /\ stack' = WholeChain
      \/ Len(kept'.edges) >= 2 /\ pc' = "hash" /\ stack' = stack
  BY <1>7 DEF Align
<1>9. CourseInv'
  BY <1>1, <1>2, <1>6, <1>7, <1>8 DEF LocalizeInv, CourseInv
<1>10. WindowInv'
  <2>1. stack' \in Seq(Windows(table)) /\ found' \in Seq(Windows(table))
    BY <1>1, <1>2, <1>8, WholeChainIs DEF WindowInv
  <2> QED
    BY <1>1, <1>6, <2>1 DEF WindowInv
<1>11. Bisecting' => pc' = "search" /\ stack' = WholeChain /\ found' = <<>>
  BY <1>1, <1>2, <1>6, <1>8 DEF Bisecting
<1>12. OrderInv'
  <2>1. \A n : LowestAbove(<<>>, WholeChain, n)
    BY <1>2, WholeChainIs
  <2> QED
    BY <1>11, <2>1 DEF OrderInv
<1>13. DifferInv'
  BY <1>11 DEF DifferInv
<1>14. CoverInv'
  <2>1. \A c : DiffersAt(table, dbs, c) => Holds(WholeChain, c)
    BY <1>2, WholeChainIs
  <2> QED
    BY <1>1, <1>11, <2>1 DEF CoverInv
<1>15. NullInv'
  BY <1>8 DEF NullInv
<1> QED
  BY <1>5, <1>9, <1>10, <1>12, <1>13, <1>14, <1>15 DEF LocalizeInv

LEMMA AnswersAt ==
  ASSUME NEW d \in DB, now[d] \in At(dbs, d), NEW a \in BucketHashes(d)
  PROVE  a.at \in At(dbs, d)
<1> DEFINE H(l) == [v \in 0 .. Len(kept.edges) |->
                      SetHash({r \in IdRangeRows(d, l, None) : BucketOf(d, r) = v})]
<1>1. BucketHashes(d) = {[says |-> H(l), at |-> l[4]] : l \in Looks(d, now[d])}
  BY DEF BucketHashes, Answers
<1> HIDE DEF H
<1>2. PICK l \in Looks(d, now[d]) : a.at = l[4]
  BY <1>1
<1> QED
  BY <1>2, LooksIn

LEMMA HashKeepsInv ==
  ASSUME LocalizeInv, HashBuckets
  PROVE  LocalizeInv'
<1>1. /\ pc = "hash" /\ pc' = "nullrows"
      /\ UNCHANGED <<table, method, limits, dbs, kept, stack, truncated, noBlock, errors>>
  BY DEF HashBuckets, input
<1>2. /\ InputInv /\ CourseInv /\ WindowInv
      /\ table \in Tables /\ dbs \in Databases[table] /\ limits \in Limits
      /\ ByBuckets /\ Len(kept.edges) >= 2 /\ errors = {}
      /\ \A d \in DB : now[d] \in At(dbs, d)
  BY <1>1 DEF LocalizeInv, InputInv, CourseInv
<1>3. PICK a \in BucketHashes(1), b \in BucketHashes(2) :
        LET differs == Ascending({v \in 0 .. Len(kept.edges) : a.says[v] # b.says[v]})
        IN  /\ found' = [i \in DOMAIN differs |-> BucketWindow(differs[i], kept.edges, Cutoff)]
            /\ now' = <<a.at, b.at>>
  BY DEF HashBuckets
<1>4. InputInv'
  <2>1. a.at \in At(dbs, 1) /\ b.at \in At(dbs, 2)
    BY <1>2, AnswersAt DEF DB
  <2> QED
    BY <1>1, <1>2, <1>3, <2>1 DEF InputInv, DB
<1>5. kept.edges \in Seq(0 .. Cutoff) /\ Ascends(kept.edges)
  <2>1. kept # NothingKept
    BY <1>2, NothingIsKept
  <2> QED
    BY <1>2, <2>1, AlignedKeeps DEF WindowInv
<1>6. found' \in Seq(Windows(table))
  <2> DEFINE n == Len(kept.edges)
             V == {v \in 0 .. n : a.says[v] # b.says[v]}
             m == Cardinality(V)
             f == Ascending(V)
  <2>1. n \in Nat
    BY <1>5, LenProperties
  <2>2. V \in SUBSET Nat /\ IsFiniteSet(V)
    <3>1. IsFiniteSet(0 .. n) /\ V \in SUBSET (0 .. n)
      BY <2>1, FS_Interval
    <3> QED
      BY <2>1, <3>1, FS_Subset
  <2>3. found' = [i \in DOMAIN f |-> BucketWindow(f[i], kept.edges, Cutoff)]
    BY <1>3
  <2>4. \A v \in V : v \in 0 .. n
    OBVIOUS
  <2> HIDE DEF V
  <2>5. f \in [1 .. m -> V] /\ m \in Nat
    BY <2>2, AscendingIs, FS_CardinalityType
  <2> HIDE DEF f, m
  <2>6. \A i \in 1 .. m : f[i] \in 0 .. Len(kept.edges)
    BY <2>4, <2>5
  <2>7. \A v \in 0 .. Len(kept.edges) : BucketWindow(v, kept.edges, Cutoff) \in Windows(table)
    <3>1. TopOf(table) = Cutoff
      BY <1>2 DEF ByBuckets, OnEpochs, TopOf
    <3>2. 1 <= Len(kept.edges)
      BY <1>2, <2>1
    <3> QED
      BY <1>5, <3>1, <3>2, BucketWindowType DEF Windows
  <2>8. found' \in [1 .. m -> Windows(table)]
    BY <2>3, <2>5, <2>6, <2>7
  <2> QED
    BY <2>5, <2>8, FunctionIsSeq
<1>7. UNCHANGED OnEpochs /\ UNCHANGED ByBuckets
  BY <1>1 DEF ByBuckets, OnEpochs
<1>8. CourseInv'
  BY <1>1, <1>2 DEF CourseInv
<1>9. WindowInv'
  BY <1>1, <1>2, <1>6, <1>7 DEF WindowInv
<1>10. ~Bisecting'
  BY <1>1, <1>2, <1>7 DEF Bisecting
<1>11. OrderInv' /\ DifferInv' /\ CoverInv'
  BY <1>10 DEF OrderInv, DifferInv, CoverInv
<1>12. NullInv'
  BY <1>1 DEF NullInv
<1> QED
  BY <1>4, <1>8, <1>9, <1>11, <1>12 DEF LocalizeInv

LEMMA EndKeepsInv ==
  ASSUME LocalizeInv, Stop \/ SearchFails
  PROVE  LocalizeInv'
<1>1. /\ pc \in {"align", "hash", "search"} /\ pc' = "nullrows"
      /\ UNCHANGED <<table, method, limits, dbs, now, kept, stack, noBlock>>
      /\ \/ /\ pc = "search" /\ UNCHANGED <<found, errors>> /\ truncated' = (stack # <<>>)
         \/ /\ errors' = errors \cup {"windows"} /\ found' = <<>> /\ UNCHANGED truncated
  BY DEF Stop, SearchFails, input
<1>2. InputInv /\ CourseInv /\ WindowInv /\ OrderInv /\ DifferInv /\ CoverInv
  BY DEF LocalizeInv
<1>3. UNCHANGED <<OnEpochs, ByBuckets, Narrow>>
  BY <1>1 DEF ByBuckets, OnEpochs, Narrow
<1>4. Bisecting' => pc = "search" /\ Bisecting /\ UNCHANGED found
  BY <1>1 DEF Bisecting
<1>5. InputInv'
  BY <1>1, <1>2 DEF InputInv
<1>6. CourseInv'
  BY <1>1, <1>2 DEF CourseInv
<1>7. WindowInv'
  <2>1. <<>> \in Seq(Windows(table))
    BY EmptySeq
  <2>2. found' = found \/ found' = <<>>
    BY <1>1
  <2> QED
    BY <1>1, <1>2, <1>3, <2>1, <2>2 DEF WindowInv
<1>8. OrderInv'
  BY <1>1, <1>2, <1>3, <1>4 DEF OrderInv
<1>9. DifferInv'
  BY <1>1, <1>2, <1>4 DEF DifferInv
<1>10. CoverInv'
  BY <1>1, <1>2, <1>4 DEF CoverInv
<1>11. NullInv'
  BY <1>1 DEF NullInv
<1> QED
  BY <1>5, <1>6, <1>7, <1>8, <1>9, <1>10, <1>11 DEF LocalizeInv

LEMMA NullRowsKeepsInv ==
  ASSUME LocalizeInv, CheckNullRows
  PROVE  LocalizeInv'
<1>1. /\ pc = "nullrows" /\ pc' = "done"
      /\ UNCHANGED <<table, method, limits, dbs, kept, stack, found, truncated>>
  BY DEF CheckNullRows, input
<1>2. /\ InputInv /\ CourseInv /\ WindowInv /\ OrderInv /\ DifferInv /\ CoverInv
      /\ table \in Tables /\ dbs \in Databases[table]
      /\ \A d \in DB : now[d] \in At(dbs, d)
  BY DEF LocalizeInv, InputInv
<1>3. UNCHANGED <<OnEpochs, ByBuckets, Narrow>>
  BY <1>1 DEF ByBuckets, OnEpochs, Narrow
<1>4. \/ /\ \E i \in From(1, now[1]), j \in From(2, now[2]) :
              /\ noBlock' = (SetHash(NullRows(1, i)) # SetHash(NullRows(2, j)))
              /\ now' = <<i, j>>
         /\ UNCHANGED errors
      \/ errors' = errors \cup {"rows"} /\ UNCHANGED <<now, noBlock>>
  BY DEF CheckNullRows
<1>5. CASE errors' = errors \cup {"rows"} /\ UNCHANGED <<now, noBlock>>
  <2>1. InputInv' /\ CourseInv' /\ NullInv'
    BY <1>1, <1>2, <1>5 DEF InputInv, CourseInv, NullInv
  <2> QED
    BY <2>1, <1>1, <1>2, <1>3, <1>5 DEF LocalizeInv, WindowInv, OrderInv, DifferInv, CoverInv, Bisecting
<1>6. ASSUME NEW i \in From(1, now[1]), NEW j \in From(2, now[2]),
             noBlock' = (SetHash(NullRows(1, i)) # SetHash(NullRows(2, j))),
             now' = <<i, j>>, UNCHANGED errors
      PROVE  LocalizeInv'
  <2>1. i \in At(dbs, 1) /\ j \in At(dbs, 2)
    BY <1>2 DEF From, At, DB
  <2>2. InputInv'
    BY <1>1, <1>2, <1>6, <2>1 DEF InputInv, DB
  <2>3. CourseInv'
    BY <1>1, <1>2, <1>6 DEF CourseInv
  <2>4. NullInv'
    <3>1. NullRows(1, i) = NullRowsAt(table, dbs, 1, i) /\ NullRows(2, j) = NullRowsAt(table, dbs, 2, j)
      BY NullRowsAtIs
    <3>2. NullRowsAt(table, dbs, 1, i) = NullRowsAt(table, dbs, 1, 1)
      BY <1>2, <2>1, NullSame DEF DB
    <3>3. NullRowsAt(table, dbs, 2, j) = NullRowsAt(table, dbs, 2, 1)
      BY <1>2, <2>1, NullSame DEF DB
    <3>4. noBlock' = (SetHash(NullRowsAt(table, dbs, 1, 1)) # SetHash(NullRowsAt(table, dbs, 2, 1)))
      BY <1>6, <3>1, <3>2, <3>3
    <3> QED
      BY <1>1, <3>4 DEF NullInv
  <2>5. Bisecting' => Bisecting
    BY <1>1, <1>3, <1>6 DEF Bisecting
  <2>6. WindowInv' /\ OrderInv' /\ DifferInv' /\ CoverInv'
    BY <1>1, <1>2, <1>3, <2>5 DEF WindowInv, OrderInv, DifferInv, CoverInv
  <2> QED
    BY <2>2, <2>3, <2>4, <2>6 DEF LocalizeInv
<1> QED
  BY <1>4, <1>5, <1>6

LEMMA StutterKeepsInv ==
  ASSUME LocalizeInv, UNCHANGED vars
  PROVE  LocalizeInv'
<1>1. UNCHANGED <<table, method, limits, dbs, now, pc, kept, stack, found, truncated, noBlock, errors>>
  BY DEF vars, input
<1>2. InputInv' /\ CourseInv' /\ WindowInv'
  BY <1>1 DEF LocalizeInv, InputInv, CourseInv, WindowInv, ByBuckets, OnEpochs
<1>3. OrderInv' /\ DifferInv' /\ CoverInv' /\ NullInv'
  BY <1>1 DEF LocalizeInv, OrderInv, DifferInv, CoverInv, NullInv, Bisecting, ByBuckets, OnEpochs, Narrow
<1> QED
  BY <1>2, <1>3 DEF LocalizeInv

(***************************************************************************)
(* Init establishes LocalizeInv and every step keeps it.                   *)
(***************************************************************************)
THEOREM LocalizeInvariance == Spec => []LocalizeInv
<1>1. Init => LocalizeInv
  BY LocalizeInit
<1>2. LocalizeInv /\ [Next]_vars => LocalizeInv'
  <2> SUFFICES ASSUME LocalizeInv, [Next]_vars
               PROVE  LocalizeInv'
    OBVIOUS
  <2>1. CASE Align
    BY <2>1, AlignKeepsInv
  <2>2. CASE HashBuckets
    BY <2>2, HashKeepsInv
  <2>3. CASE Prune \/ Report \/ Split
    BY <2>3, TurnKeepsInv
  <2>4. CASE Stop \/ SearchFails
    BY <2>4, EndKeepsInv
  <2>5. CASE CheckNullRows
    BY <2>5, NullRowsKeepsInv
  <2>6. CASE Finished
    BY <2>6, StutterKeepsInv DEF Finished
  <2>7. CASE UNCHANGED vars
    BY <2>7, StutterKeepsInv
  <2> QED
    BY <2>1, <2>2, <2>3, <2>4, <2>5, <2>6, <2>7 DEF Next
<1> QED
  BY <1>1, <1>2, PTL DEF Spec

-----------------------------------------------------------------------------
(***************************************************************************)
(* The windows on the stack and those found are windows of the boundary,   *)
(* and an edge kept has a threshold in either database (compare.py:103,    *)
(* compare.py:159).                                                        *)
(***************************************************************************)
THEOREM LocalizeTypesHold == Spec => []TypeOK
<1>1. LocalizeInv => TypeOK
  <2> SUFFICES ASSUME LocalizeInv
               PROVE  TypeOK
    OBVIOUS
  <2>1. CourseInv /\ WindowInv /\ table \in Tables /\ dbs \in Databases[table]
    BY DEF LocalizeInv, InputInv
  <2>2. \A w \in WindowsOf(stack) \cup WindowsOf(found) : w \in Windows(table)
    <3>1. \A seq \in Seq(Windows(table)) : \A w \in WindowsOf(seq) : w \in Windows(table)
      BY LenProperties, ElementOfSeq DEF WindowsOf
    <3> QED
      BY <2>1, <3>1 DEF WindowInv
  <2>3. \A w \in Windows(table) : w \in [lo : 0 .. Top, hi : 0 .. Top] /\ w.lo <= w.hi
    BY TopIs DEF Windows
  <2>4. Len(kept.edges) = Len(kept.thresholds[1]) /\ Len(kept.edges) = Len(kept.thresholds[2])
    <3>1. CASE kept = NothingKept
      BY <3>1 DEF NothingKept
    <3>2. CASE kept \in Alignments(table, dbs)
      BY <2>1, <3>2, AlignedKeeps
    <3> QED
      BY <2>1, <3>1, <3>2 DEF WindowInv
  <2> QED
    BY <2>1, <2>2, <2>3, <2>4 DEF TypeOK, CourseInv
<1>2. Spec => []LocalizeInv
  BY LocalizeInvariance
<1> QED
  BY <1>1, <1>2, PTL

(***************************************************************************)
(* A difference in the rows without a block is reported, or their own      *)
(* failure is, whatever became of the windows (cli.py:146-148).            *)
(***************************************************************************)
THEOREM NeitherResultHides == Spec => []NeitherHidesTheOther
<1>1. LocalizeInv => NeitherHidesTheOther
  <2> SUFFICES ASSUME LocalizeInv, pc = "done", "rows" \notin errors
               PROVE  noBlock <=> SetHash(NullRows(1, 1)) # SetHash(NullRows(2, 1))
    BY DEF NeitherHidesTheOther
  <2>1. noBlock = (SetHash(NullRowsAt(table, dbs, 1, 1)) # SetHash(NullRowsAt(table, dbs, 2, 1)))
    BY DEF LocalizeInv, NullInv
  <2>2. NullRows(1, 1) = NullRowsAt(table, dbs, 1, 1) /\ NullRows(2, 1) = NullRowsAt(table, dbs, 2, 1)
    BY NullRowsAtIs
  <2> QED
    BY <2>1, <2>2
<1>2. Spec => []LocalizeInv
  BY LocalizeInvariance
<1> QED
  BY <1>1, <1>2, PTL

(* The numbered settled rows, in the words of the invariant. *)
LEMMA NumberedIs ==
  ASSUME InputInv, NEW d \in DB, NEW r
  PROVE  /\ r \in TableRows(table, dbs.history[d][1]) => NumberOf(r) = NumberAt(table, r)
         /\ r \in NumberedRows(d) <=> /\ r \in TableRows(table, dbs.history[d][1])
                                      /\ NumberAt(table, r) \in 0 .. SettledOf(table, dbs)
<1>1. table \in Tables /\ dbs \in Databases[table]
  BY DEF InputInv
<1>2. SettledOf(table, dbs) \in Nat
  <2>1. Cutoff \in Nat /\ CutoffEpoch \in Nat
    BY LocalizeAssumption
  <2>2. dbs.settled \in Nat
    BY <1>1, DatabasesAssumption
  <2> QED
    BY <2>1, <2>2 DEF TopOf, SettledOf
<1>3. ASSUME r \in TableRows(table, dbs.history[d][1])
      PROVE  NumberOf(r) = NumberAt(table, r) /\ (NumberAt(table, r) # None => NumberAt(table, r) \in Nat)
  <2> DEFINE S == dbs.history[d][1]
  <2>1. WellTyped(S)
    <3>1. 1 \in At(dbs, d)
      BY <1>1, SettledSame
    <3> QED
      BY <1>1, <3>1, SnapshotsGood DEF At
  <2>2. r \in TableRows(table, S)
    BY <1>3
  <2> HIDE DEF S
  <2>3. CASE OnEpochs
    BY <2>1, <2>2, <2>3 DEF OnEpochs, NumberOf, NumberAt, TableRows, WellTyped
  <2>4. CASE ~OnEpochs
    <3>1. table # "epoch"
      BY <2>4 DEF OnEpochs
    <3>2. r.pos = 0 \/ r.pos \in Pos
      <4>1. table = "owner" \/ table \in Spine \cup {"committee"}
        BY <1>1, <3>1, TableKinds DEF Spine
      <4> QED
        BY <2>1, <2>2, <4>1 DEF TableRows, WellTyped, Spine
    <3>3. CASE r.pos = 0
      BY <2>4, <3>1, <3>3 DEF NumberOf, NumberAt
    <3>4. CASE r.pos \in Pos
      <4>1. r.pos > 0 /\ r.pos # 0 /\ BlockNo[r.pos] \in Nat \cup {None}
        BY <3>4, PlacesType
      <4> QED
        BY <2>4, <3>1, <4>1 DEF NumberOf, NumberAt
    <3> QED
      BY <3>2, <3>3, <3>4
  <2> QED
    BY <2>3, <2>4
<1>4. r \in NumberedRows(d) <=> /\ r \in TableRows(table, dbs.history[d][1])
                                /\ Between(NumberOf(r), 0, SettledOf(table, dbs))
  BY TopIs DEF NumberedRows, Snapshot
<1> QED
  BY <1>2, <1>3, <1>4, NoneAssumption DEF Between

(* Where they differ. *)
LEMMA DifferingNumbers ==
  ASSUME InputInv, NEW c \in NumberedDiffering
  PROVE  c \in Nat /\ DiffersAt(table, dbs, c)
<1>1. /\ c \in {NumberOf(r) : r \in NumberedRows(1) \cup NumberedRows(2)}
      /\ SetHash({r \in NumberedRows(1) : NumberOf(r) = c})
           # SetHash({r \in NumberedRows(2) : NumberOf(r) = c})
  BY DEF NumberedDiffering, DifferAt
<1>2. \A d \in DB : \A r : r \in NumberedRows(d) <=>
        /\ r \in TableRows(table, dbs.history[d][1])
        /\ NumberAt(table, r) \in 0 .. SettledOf(table, dbs)
  BY NumberedIs
<1>3. 1 \in DB /\ 2 \in DB
  BY DEF DB
<1>4. c \in 0 .. SettledOf(table, dbs)
  BY <1>1, <1>2, <1>3, NumberedIs
<1>5. ASSUME NEW d \in DB
      PROVE  {r \in NumberedRows(d) : NumberOf(r) = c} = RowsOf(table, dbs, d, c)
  <2>1. \A r \in RowsOf(table, dbs, d, c) : NumberOf(r) = c /\ r \in NumberedRows(d)
    BY <1>2, <1>4, <1>5, NumberedIs DEF RowsOf
  <2>2. \A r \in NumberedRows(d) : NumberOf(r) = c => r \in RowsOf(table, dbs, d, c)
    BY <1>2, <1>5, NumberedIs DEF RowsOf
  <2>3. /\ {r \in NumberedRows(d) : NumberOf(r) = c} \subseteq RowsOf(table, dbs, d, c)
        /\ RowsOf(table, dbs, d, c) \subseteq {r \in NumberedRows(d) : NumberOf(r) = c}
    BY <2>1, <2>2
  <2> QED
    BY <2>3
<1>6. c \in Nat
  BY <1>4
<1>7. DiffersAt(table, dbs, c)
  BY <1>1, <1>3, <1>4, <1>5 DEF DiffersAt
<1> QED
  BY <1>6, <1>7

(***************************************************************************)
(* The bisection loses nothing: where content tells a row's place, every   *)
(* number at which settled rows differ is in a window found or in one      *)
(* still on the stack, whatever the databases did in between               *)
(* (compare.py:132).                                                       *)
(***************************************************************************)
THEOREM NothingIsLost == Spec => []RestAgrees
<1>1. LocalizeInv => RestAgrees
  <2> SUFFICES ASSUME LocalizeInv, Bisecting, pc # "align", dbs.tied, NEW c \in NumberedDiffering
               PROVE  \E w \in WindowsOf(stack) \cup WindowsOf(found) : w.lo <= c /\ c <= w.hi
    BY DEF RestAgrees
  <2>1. c \in Nat /\ DiffersAt(table, dbs, c)
    BY DifferingNumbers DEF LocalizeInv
  <2>2. Holds(stack, c) \/ Holds(found, c)
    BY <2>1 DEF LocalizeInv, CoverInv
  <2> QED
    BY <2>2 DEF Holds, WindowsOf
<1>2. Spec => []LocalizeInv
  BY LocalizeInvariance
<1> QED
  BY <1>1, <1>2, PTL

(* What is asked of a window is an answer of four snapshots. *)
LEMMA HashesSee ==
  ASSUME InputInv, NEW d \in DB, NEW w, NEW a \in WindowHashes(d, w)
  PROVE  \E l \in Four(dbs, d) : a.says = SetHash(RowsAt(table, dbs, d, l, w))
<1>1. PICK l \in Looks(d, now[d]) : a = [says |-> SetHash(WindowRows(d, l, w)), at |-> l[4]]
  BY DEF WindowHashes, Answers
<1>2. WindowRows(d, l, w) = RowsAt(table, dbs, d, l, w)
  BY RowsAtIs
<1>3. l \in Four(dbs, d)
  BY LooksIn DEF InputInv
<1> QED
  BY <1>1, <1>2, <1>3

(* The windows found, then those on the stack from its top, ascend. *)
LEMMA OrderAscends ==
  ASSUME NEW t \in Tables, NEW F \in Seq(Windows(t)), NEW S \in Seq(Windows(t)),
         NEW n, LowestAbove(F, S, n)
  PROVE  LET order == F \o Reverse(S)
         IN  \A i, j \in DOMAIN order : i < j => order[i].hi < order[j].lo
<1> DEFINE k == Len(S)
           m == Len(F)
           R == Reverse(S)
           order == F \o R
<1>1. /\ k \in Nat /\ DOMAIN S = 1 .. k /\ m \in Nat /\ DOMAIN F = 1 .. m
      /\ \A i \in 1 .. k : S[i] \in Windows(t)
  BY LenProperties, ElementOfSeq
<1>2. R = [i \in 1 .. k |-> S[(k - i) + 1]]
  BY DEF Reverse
<1> HIDE DEF k, m, R
<1>3. \A i \in 1 .. k : (k - i) + 1 \in 1 .. k
  BY <1>1
<1>4. R \in [1 .. k -> Windows(t)]
  BY <1>1, <1>2, <1>3
<1>5. R \in Seq(Windows(t)) /\ Len(R) = k
  BY <1>1, <1>4, FunctionIsSeq
<1>6. /\ order \in Seq(Windows(t)) /\ Len(order) = m + k
      /\ \A i \in 1 .. m + k : order[i] = IF i <= m THEN F[i] ELSE R[i - m]
  BY <1>5, ConcatProperties DEF m
<1>7. DOMAIN order = 1 .. m + k
  BY <1>6, LenProperties
<1> HIDE DEF order
<1>8. SUFFICES ASSUME NEW i \in 1 .. m + k, NEW j \in 1 .. m + k, i < j
               PROVE  order[i].hi < order[j].lo
  BY <1>7 DEF order, R
<1>9. CASE j <= m
  <2>1. i \in DOMAIN F /\ j \in DOMAIN F /\ order[i] = F[i] /\ order[j] = F[j]
    BY <1>1, <1>6, <1>8, <1>9
  <2> QED
    BY <1>8, <2>1 DEF LowestAbove
<1>10. CASE m < j
  <2> DEFINE b == (k - (j - m)) + 1
  <2>1. j - m \in 1 .. k /\ b \in DOMAIN S /\ ~(j <= m)
    BY <1>1, <1>8, <1>10
  <2>2. order[j] = S[b]
    BY <1>2, <1>6, <2>1
  <2>3. CASE i <= m
    <3>1. i \in DOMAIN F /\ order[i] = F[i]
      BY <1>1, <1>6, <1>8, <2>3
    <3> QED
      BY <2>1, <2>2, <3>1 DEF LowestAbove
  <2>4. CASE m < i
    <3> DEFINE a == (k - (i - m)) + 1
    <3>1. i - m \in 1 .. k /\ a \in DOMAIN S /\ ~(i <= m) /\ b < a
      BY <1>1, <1>8, <2>4
    <3>2. order[i] = S[a]
      BY <1>2, <1>6, <3>1
    <3> HIDE DEF a, b
    <3> QED
      BY <2>1, <2>2, <3>1, <3>2 DEF LowestAbove
  <2> QED
    BY <1>1, <2>3, <2>4
<1> QED
  BY <1>1, <1>9, <1>10

(***************************************************************************)
(* What the bisection reports are disjoint narrow windows in ascending     *)
(* order, all below whatever is still on the stack (compare.py:106-108),   *)
(* and those of settled rows still differ however often they are asked for *)
(* again.                                                                  *)
(***************************************************************************)
THEOREM LowestIsFirst == Spec => []LowestFirst
<1>1. LocalizeInv => LowestFirst
  <2> SUFFICES ASSUME LocalizeInv, Bisecting
               PROVE  /\ \A w \in WindowsOf(found) :
                           /\ w.hi - w.lo <= Narrow
                           /\ w.hi <= SettledTop =>
                                \A a \in WindowHashes(1, w), b \in WindowHashes(2, w) : a.says # b.says
                      /\ LET order == found \o Reverse(stack)
                         IN  \A i, j \in DOMAIN order : i < j => order[i].hi < order[j].lo
    BY DEF LowestFirst
  <2>1. /\ InputInv /\ LowestAbove(found, stack, Narrow)
        /\ stack \in Seq(Windows(table)) /\ found \in Seq(Windows(table)) /\ table \in Tables
        /\ \A i \in DOMAIN found :
             found[i].hi <= SettledOf(table, dbs) => AlwaysDiffers(table, dbs, found[i])
    BY DEF LocalizeInv, InputInv, OrderInv, DifferInv, WindowInv
  <2>2. LET order == found \o Reverse(stack)
        IN  \A i, j \in DOMAIN order : i < j => order[i].hi < order[j].lo
    BY <2>1, OrderAscends
  <2>3. ASSUME NEW w \in WindowsOf(found)
        PROVE  /\ w.hi - w.lo <= Narrow
               /\ w.hi <= SettledTop =>
                    \A a \in WindowHashes(1, w), b \in WindowHashes(2, w) : a.says # b.says
    <3>1. PICK i \in DOMAIN found : w = found[i]
      BY DEF WindowsOf
    <3>2. w.hi - w.lo <= Narrow
      BY <2>1, <3>1 DEF LowestAbove
    <3>3. ASSUME w.hi <= SettledTop, NEW a \in WindowHashes(1, w), NEW b \in WindowHashes(2, w)
          PROVE  a.says # b.says
      <4>1. AlwaysDiffers(table, dbs, w)
        BY <2>1, <3>1, <3>3, TopIs
      <4>2. PICK l1 \in Four(dbs, 1) : a.says = SetHash(RowsAt(table, dbs, 1, l1, w))
        BY <2>1, HashesSee DEF DB
      <4>3. PICK l2 \in Four(dbs, 2) : b.says = SetHash(RowsAt(table, dbs, 2, l2, w))
        BY <2>1, HashesSee DEF DB
      <4> QED
        BY <4>1, <4>2, <4>3 DEF AlwaysDiffers
    <3> QED
      BY <3>2, <3>3
  <2> QED
    BY <2>2, <2>3
<1>2. Spec => []LocalizeInv
  BY LocalizeInvariance
<1> QED
  BY <1>1, <1>2, PTL

-----------------------------------------------------------------------------
(***************************************************************************)
(* The boundary of an edge in a snapshot is at or before a row of its      *)
(* spine exactly when the edge is at or before the number of the row.      *)
(***************************************************************************)
LEMMA BoundaryReached ==
  ASSUME NEW S, WellTyped(S), InChainOrder(S), Linked(S), NEW edge \in Nat,
         NEW v \in Spine, BoundaryId(S, v, edge) # None,
         NEW q \in S[v], q.pos \in Numbered
  PROVE  BoundaryId(S, v, edge) <= q.id <=> edge <= BlockNo[q.pos]
<1> DEFINE b == FirstFrom(S["block"], edge)
           t == FirstFrom(S["tx"], b)
           f == FirstFrom(S["leaf"], t)
           p == q.pos
<1>0. BoundaryId(S, v, edge) = CASE v = "block" -> b [] v = "tx" -> t [] v = "leaf" -> f
  BY DEF BoundaryId
<1>1. \A u \in {"block", "tx", "leaf"} : Sorted({r \in S[u] : r.key # None})
  <2>1. Sorted({r \in S["block"] : r.key # None})
    BY SpineSorted
  <2>2. Sorted({r \in S["tx"] : r.key # None})
    <3>1. {r \in S["tx"] : r.key # None} \in SUBSET S["tx"]
      OBVIOUS
    <3> QED
      BY <3>1, SpineSorted, SortedSubset
  <2>3. Sorted({r \in S["leaf"] : r.key # None})
    <3>1. {r \in S["leaf"] : r.key # None} \in SUBSET S["leaf"]
      OBVIOUS
    <3> QED
      BY <3>1, SpineSorted, SortedSubset
  <2> QED
    BY <2>1, <2>2, <2>3
<1>2. b \in Nat \cup {None}
  BY <1>1, FirstFromIs
<1>3. ASSUME NEW r \in S["block"], r.pos = p, b # None
      PROVE  b <= r.id <=> edge <= BlockNo[p]
  <2>1. r.key = BlockNo[p] /\ r.key # None
    BY <1>3 DEF InChainOrder, Numbered
  <2> QED
    BY <1>1, <1>3, <2>1, FirstFromReached
<1> HIDE DEF b
<1>4. t \in Nat \cup {None}
  BY <1>1, <1>2, FirstFromIs
<1>5. ASSUME NEW u \in {"tx", "leaf"}, NEW r \in S[u], r.pos = p
      PROVE  r.key # None /\ \E o \in S[Parent(u)] : o.id = r.key /\ o.pos = p
  <2>1. r.key \in Nat /\ p # 0
    BY <1>5, PlacesType DEF WellTyped
  <2> QED
    BY <1>5, <2>1, NoneAssumption DEF Linked
<1>6. ASSUME NEW r \in S["tx"], r.pos = p, t # None
      PROVE  t <= r.id <=> edge <= BlockNo[p]
  <2>1. PICK o \in S["block"] : o.id = r.key /\ o.pos = p
    BY <1>5, <1>6 DEF Parent
  <2>2. r.key # None
    BY <1>5, <1>6
  <2>3. b \in Nat /\ (t <= r.id <=> b <= r.key)
    BY <1>1, <1>2, <1>6, <2>2, FirstFromReached
  <2> QED
    BY <1>3, <2>1, <2>3, NoneAssumption
<1> HIDE DEF t
<1>7. ASSUME NEW r \in S["leaf"], r.pos = p, f # None
      PROVE  f <= r.id <=> edge <= BlockNo[p]
  <2>1. PICK o \in S["tx"] : o.id = r.key /\ o.pos = p
    BY <1>5, <1>7 DEF Parent
  <2>2. r.key # None
    BY <1>5, <1>7
  <2>3. t \in Nat /\ (f <= r.id <=> t <= r.key)
    BY <1>1, <1>4, <1>7, <2>2, FirstFromReached
  <2> QED
    BY <1>6, <2>1, <2>3, NoneAssumption
<1> HIDE DEF f
<1>8. v = "block" \/ v = "tx" \/ v = "leaf"
  BY DEF Spine
<1>9. q \in S[v] /\ q.pos = p
  OBVIOUS
<1> HIDE DEF p
<1> QED
  BY <1>0, <1>3, <1>6, <1>7, <1>8, <1>9 DEF p

(* So is that of a row of the compared table, by its anchor. *)
LEMMA AnchorReached ==
  ASSUME NEW t \in Tables, t # "epoch",
         NEW S, WellTyped(S), InChainOrder(S), Linked(S), NEW edge \in Nat,
         BoundaryId(S, AnchorSpine(t), edge) # None,
         NEW r \in TableRows(t, S), r.pos \in Numbered
  PROVE  BoundaryId(S, AnchorSpine(t), edge) <= Anchor(t, r) <=> edge <= BlockNo[r.pos]
<1>1. AnchorSpine(t) \in Spine
  BY TableKinds
<1>2. \E q \in S[AnchorSpine(t)] : q.id = Anchor(t, r) /\ q.pos = r.pos
  <2>1. CASE t \in {"tx", "leaf", "committee"}
    <3>1. r \in S[t] /\ Parent(t) = AnchorSpine(t) /\ Anchor(t, r) = r.key
      BY <2>1, TableKinds DEF Anchor, TableRows
    <3>2. r.pos # 0
      BY PlacesType
    <3> QED
      BY <2>1, <3>1, <3>2 DEF Linked
  <2>2. CASE t \in {"block", "owner"}
    BY <2>2, TableKinds DEF Anchor, TableRows
  <2> QED
    BY <2>1, <2>2, TableKinds
<1> QED
  BY <1>1, <1>2, BoundaryReached

(***************************************************************************)
(* Bucket k means the same blocks in both databases although the           *)
(* thresholds are ids that drift (compare.py:159-167), read from databases *)
(* with different tips: the bucket of a settled row is the count of kept   *)
(* edges its number has reached.                                           *)
(***************************************************************************)
THEOREM BucketsLineUp == Spec => []BucketsAlign
<1>1. LocalizeInv => BucketsAlign
  <2> SUFFICES ASSUME LocalizeInv, pc = "hash", NEW d \in DB, NEW r \in NumberedRows(d)
               PROVE  BucketOf(d, r)
                        = Cardinality({k \in DOMAIN kept.edges : kept.edges[k] <= NumberOf(r)})
    BY DEF BucketsAlign
  <2>1. /\ table \in Tables /\ dbs \in Databases[table] /\ ~OnEpochs /\ table # "epoch"
        /\ kept \in Alignments(table, dbs)
    <3>1. ByBuckets /\ Len(kept.edges) >= 2
      BY DEF LocalizeInv, CourseInv
    <3>2. kept # NothingKept
      BY <3>1, NothingIsKept
    <3> QED
      BY <3>1, <3>2 DEF LocalizeInv, InputInv, WindowInv, ByBuckets, OnEpochs
  <2>2. kept.edges \in Seq(0 .. Cutoff)
    BY <2>1, AlignedKeeps
  <2>3. PICK i \in At(dbs, d) : Boundaries(table, dbs, d, i, kept.edges, kept.thresholds[d])
    BY <2>1, AlignedKeeps
  <2> DEFINE S == dbs.history[d][i]
             c == NumberOf(r)
  <2>4. WellTyped(S) /\ InChainOrder(S) /\ Linked(S)
    BY <2>1, SnapshotsGood DEF At
  <2>5. dbs.settled \in Nat /\ SettledTop \in Nat /\ SettledTop <= dbs.settled
    <3>1. Cutoff \in Nat /\ CutoffEpoch \in Nat
      BY LocalizeAssumption
    <3>2. dbs.settled \in Nat
      BY <2>1, DatabasesAssumption
    <3> QED
      BY <3>1, <3>2 DEF SettledTop, Top
  <2>6. r \in TableRows(table, dbs.history[d][1]) /\ c # None /\ c <= SettledTop
    BY DEF NumberedRows, Between, Snapshot
  <2>7. r.pos \in Numbered /\ c = BlockNo[r.pos] /\ Below(dbs, r.pos)
    <3>1. 1 \in At(dbs, d) /\ WellTyped(dbs.history[d][1])
      <4>1. 1 \in At(dbs, d)
        BY <2>1, SettledSame
      <4> QED
        BY <2>1, <4>1, SnapshotsGood DEF At
    <3>2. r.pos = 0 \/ r.pos \in Pos
      <4>1. table = "owner" \/ table \in Spine \cup {"committee"}
        BY <2>1, TableKinds DEF Spine
      <4> QED
        BY <2>6, <3>1, <4>1 DEF TableRows, WellTyped, Spine
    <3>3. r.pos # 0
      BY <2>1, <2>6 DEF NumberOf
    <3>4. r.pos \in Pos /\ r.pos > 0
      BY <3>2, <3>3, PlacesType
    <3>5. c = BlockNo[r.pos]
      BY <2>1, <3>4 DEF NumberOf
    <3>6. r.pos \in Numbered /\ BlockNo[r.pos] \in Nat /\ r.pos \in Nat
      BY <2>6, <3>4, <3>5, PlacesType DEF Numbered
    <3>7. BlockNo[r.pos] <= dbs.settled /\ r.pos <= r.pos
      BY <2>5, <2>6, <3>5, <3>6
    <3> QED
      BY <3>4, <3>5, <3>6, <3>7 DEF Below, SettledPlaces
  <2>8. r \in TableRows(table, S)
    <3> DEFINE u == IF table = "owner" THEN "leaf" ELSE table
    <3>1. u \in Spine \cup {"committee"} /\ \A Q : TableRows(table, Q) = Q[u]
      BY <2>1, TableKinds DEF Spine
    <3> HIDE DEF u
    <3> QED
      BY <2>1, <2>6, <2>7, <3>1, SettledIn
  <2> HIDE DEF S, c
  <2>9. \A k \in DOMAIN kept.edges : k \in 1 .. Len(kept.edges) /\ kept.edges[k] \in Nat
    <3>1. DOMAIN kept.edges = 1 .. Len(kept.edges)
      BY <2>2, LenProperties
    <3>2. \A k \in 1 .. Len(kept.edges) : kept.edges[k] \in 0 .. Cutoff
      BY <2>2, ElementOfSeq
    <3> QED
      BY <3>1, <3>2
  <2>10. \A k \in DOMAIN kept.edges : kept.thresholds[d][k] <= Anchor(table, r) <=> kept.edges[k] <= c
    <3> SUFFICES ASSUME NEW k \in DOMAIN kept.edges
                 PROVE  kept.thresholds[d][k] <= Anchor(table, r) <=> kept.edges[k] <= c
      OBVIOUS
    <3>1. /\ kept.thresholds[d][k] # None
          /\ kept.thresholds[d][k] = BoundaryId(S, AnchorSpine(table), kept.edges[k])
      BY <2>3, <2>9 DEF Boundaries, S
    <3> QED
      BY <2>1, <2>4, <2>7, <2>8, <2>9, <3>1, AnchorReached
  <2>11. DOMAIN kept.thresholds[d] = DOMAIN kept.edges
    BY <2>2, <2>3, LenProperties DEF Boundaries
  <2>12. {k \in DOMAIN kept.thresholds[d] : kept.thresholds[d][k] <= Anchor(table, r)}
           = {k \in DOMAIN kept.edges : kept.edges[k] <= c}
    BY <2>10, <2>11
  <2> QED
    BY <2>12 DEF BucketOf, WidthBucket, c
<1>2. Spec => []LocalizeInv
  BY LocalizeInvariance
<1> QED
  BY <1>1, <1>2, PTL
=============================================================================
