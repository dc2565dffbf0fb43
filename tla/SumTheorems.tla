---------------------------- MODULE SumTheorems ----------------------------
(***************************************************************************)
(* Facts about natural numbers, images and sums over finite sets           *)
(* (SumFunctionOnSet of module Functions) that the proofs of several       *)
(* components need: the value proof adds up a column, the deep check       *)
(* counts keys, and the run counts connections.                            *)
(***************************************************************************)
EXTENDS Integers, FiniteSetTheorems, WellFoundedInduction, Functions, TLAPS

(***************************************************************************)
(* A non-empty set of naturals has a least element.                        *)
(***************************************************************************)
LEMMA NatLeast ==
  ASSUME NEW S \in SUBSET Nat, S # {}
  PROVE  \E m \in S : \A n \in S : m <= n
<1>1. \E m \in S : \A n \in S : ~ (<<n, m>> \in OpToRel(<, Nat))
  BY WFMin, NatLessThanWellFounded
<1>2. \A n, m \in Nat : n < m => <<n, m>> \in OpToRel(<, Nat)
  BY DEF OpToRel
<1>3. \A n, m \in Nat : n < m \/ m <= n
  OBVIOUS
<1> QED
  BY <1>1, <1>2, <1>3

(* Induction, for a property given as the set of numbers that have it. *)
LEMMA NatSetInduction ==
  ASSUME NEW P, 0 \in P, \A n \in Nat : n \in P => n + 1 \in P
  PROVE  Nat \subseteq P
<1> DEFINE Q == {n \in Nat : n \notin P}
<1> SUFFICES ASSUME Q # {}
             PROVE  FALSE
  OBVIOUS
<1>1. PICK m \in Q : \A n \in Q : m <= n
  <2> HIDE DEF Q
  <2>1. Q \in SUBSET Nat
    BY DEF Q
  <2> QED
    BY <2>1, NatLeast
<1>2. m \in Nat /\ m # 0 /\ m - 1 \in Nat
  OBVIOUS
<1>3. m - 1 \in P
  BY <1>1, <1>2
<1>4. (m - 1) + 1 \in P
  BY <1>2, <1>3
<1> QED
  BY <1>2, <1>4

-----------------------------------------------------------------------------
(* The image of a finite set is finite. *)
LEMMA ImageFinite ==
  ASSUME NEW S, IsFiniteSet(S), NEW f
  PROVE  IsFiniteSet({f[x] : x \in S})
<1> DEFINE g == [x \in S |-> f[x]]
<1>1. g \in Surjection(S, {f[x] : x \in S})
  BY DEF Surjection
<1> QED
  BY <1>1, FS_Surjection

-----------------------------------------------------------------------------
(***************************************************************************)
(* The function that computes sums over the subsets of S, by taking out    *)
(* some element of a subset.                                               *)
(***************************************************************************)
Some(s) == CHOOSE x \in s : TRUE

Sums(h, f, C) ==
  h = [s \in C |-> IF s = {} THEN 0 ELSE f[Some(s)] + h[s \ {Some(s)}]]

SumsOf(h, f, S) == Sums(h, f, SUBSET S)

Small(S, n) == {s \in SUBSET S : Cardinality(s) <= n}

Agree(f, g, S) == \A x \in S : f[x] = g[x]

LEMMA SomeIn == ASSUME NEW s, s # {} PROVE Some(s) \in s
  BY DEF Some

(* Taking an element out of a subset. *)
LEMMA SmallerSubset ==
  ASSUME NEW S, IsFiniteSet(S), NEW s \in SUBSET S, s # {}, NEW x \in s
  PROVE  /\ IsFiniteSet(s) /\ Cardinality(s) \in Nat \ {0}
         /\ s \ {x} \in SUBSET S
         /\ Cardinality(s \ {x}) = Cardinality(s) - 1
<1>1. IsFiniteSet(s)
  BY FS_Subset
<1>2. Cardinality(s) \in Nat /\ Cardinality(s) # 0
  BY <1>1, FS_CardinalityType, FS_EmptySet
<1> QED
  BY <1>1, <1>2, FS_RemoveElement

(***************************************************************************)
(* That function exists: it does for the subsets of up to n elements, for  *)
(* every n.                                                                *)
(***************************************************************************)
LEMMA SumsExists ==
  ASSUME NEW S, IsFiniteSet(S), NEW f
  PROVE  \E h : SumsOf(h, f, S)
<1> DEFINE P == {n \in Nat : \E h : Sums(h, f, Small(S, n))}
<1>0. \A s \in SUBSET S : IsFiniteSet(s) /\ Cardinality(s) \in Nat
  BY FS_Subset, FS_CardinalityType
<1>1. 0 \in P
  <2> DEFINE h == [s \in Small(S, 0) |-> 0]
  <2>1. \A s \in Small(S, 0) : s = {}
    BY <1>0, FS_EmptySet DEF Small
  <2>2. Sums(h, f, Small(S, 0))
    BY <2>1 DEF Sums
  <2> QED
    BY <2>2
<1>2. \A n \in Nat : n \in P => n + 1 \in P
  <2> SUFFICES ASSUME NEW n \in Nat, NEW g, Sums(g, f, Small(S, n))
               PROVE  \E h : Sums(h, f, Small(S, n + 1))
    OBVIOUS
  <2> DEFINE h == [s \in Small(S, n + 1) |-> IF s = {} THEN 0 ELSE f[Some(s)] + g[s \ {Some(s)}]]
  <2>1. \A s \in Small(S, n) : s \in Small(S, n + 1)
    BY <1>0 DEF Small
  <2>2. \A s \in Small(S, n) : g[s] = h[s]
    BY <2>1 DEF Sums
  <2>3. \A s \in Small(S, n + 1) : s # {} => s \ {Some(s)} \in Small(S, n)
    <3> SUFFICES ASSUME NEW s \in Small(S, n + 1), s # {}
                 PROVE  s \ {Some(s)} \in Small(S, n)
      OBVIOUS
    <3>1. s \in SUBSET S /\ Cardinality(s) <= n + 1 /\ Some(s) \in s
      BY SomeIn DEF Small
    <3>2. /\ s \ {Some(s)} \in SUBSET S /\ Cardinality(s) \in Nat
          /\ Cardinality(s \ {Some(s)}) = Cardinality(s) - 1
      BY <3>1, SmallerSubset
    <3> QED
      BY <3>1, <3>2 DEF Small
  <2>4. Sums(h, f, Small(S, n + 1))
    BY <2>2, <2>3 DEF Sums
  <2> QED
    BY <2>4
<1>3. Cardinality(S) \in P
  <2> HIDE DEF P
  <2>1. Nat \subseteq P
    BY <1>1, <1>2, NatSetInduction
  <2> QED
    BY <2>1, FS_CardinalityType
<1>4. Small(S, Cardinality(S)) = SUBSET S
  BY FS_Subset DEF Small
<1> QED
  BY <1>3, <1>4 DEF SumsOf

(* It is unique, and the same for a smaller set. *)
LEMMA SumsUnique ==
  ASSUME NEW S, IsFiniteSet(S), NEW T \in SUBSET S, NEW f, NEW g, Agree(f, g, T),
         NEW h, SumsOf(h, f, S), NEW k, SumsOf(k, g, T)
  PROVE  h[T] = k[T]
<1> DEFINE P == {n \in Nat : \A s \in Small(T, n) : h[s] = k[s]}
<1>0. IsFiniteSet(T) /\ \A s \in SUBSET T : IsFiniteSet(s) /\ Cardinality(s) \in Nat
  BY FS_Subset, FS_CardinalityType
<1>1. /\ \A s \in SUBSET T : h[s] = IF s = {} THEN 0 ELSE f[Some(s)] + h[s \ {Some(s)}]
      /\ \A s \in SUBSET T : k[s] = IF s = {} THEN 0 ELSE g[Some(s)] + k[s \ {Some(s)}]
  <2>1. \A s \in SUBSET T : s \in SUBSET S
    OBVIOUS
  <2>2. \A s \in SUBSET S : h[s] = IF s = {} THEN 0 ELSE f[Some(s)] + h[s \ {Some(s)}]
    BY DEF SumsOf, Sums
  <2>3. \A s \in SUBSET T : k[s] = IF s = {} THEN 0 ELSE g[Some(s)] + k[s \ {Some(s)}]
    BY DEF SumsOf, Sums
  <2> QED
    BY <2>1, <2>2, <2>3
<1>2. 0 \in P
  <2>1. \A s \in Small(T, 0) : s = {} /\ s \in SUBSET T
    BY <1>0, FS_EmptySet DEF Small
  <2> QED
    BY <1>1, <2>1
<1>3. \A n \in Nat : n \in P => n + 1 \in P
  <2> SUFFICES ASSUME NEW n \in Nat, \A s \in Small(T, n) : h[s] = k[s],
                      NEW s \in Small(T, n + 1)
               PROVE  h[s] = k[s]
    OBVIOUS
  <2>1. s \in SUBSET T /\ Cardinality(s) <= n + 1
    BY DEF Small
  <2>2. CASE s = {}
    BY <1>1, <2>1, <2>2
  <2>3. CASE s # {}
    <3>1. Some(s) \in s /\ Some(s) \in T
      BY <2>1, <2>3, SomeIn
    <3>2. /\ s \ {Some(s)} \in SUBSET T /\ Cardinality(s) \in Nat
          /\ Cardinality(s \ {Some(s)}) = Cardinality(s) - 1
      BY <1>0, <2>1, <3>1, SmallerSubset
    <3>3. s \ {Some(s)} \in Small(T, n)
      BY <2>1, <3>2 DEF Small
    <3> QED
      BY <1>1, <2>1, <2>3, <3>1, <3>3 DEF Agree
  <2> QED
    BY <2>2, <2>3
<1>4. Cardinality(T) \in P
  <2> HIDE DEF P
  <2>1. Nat \subseteq P
    BY <1>2, <1>3, NatSetInduction
  <2> QED
    BY <1>0, <2>1
<1>5. T \in Small(T, Cardinality(T))
  BY <1>0 DEF Small
<1> QED
  BY <1>4, <1>5

(* The sum of module Functions is what that function gives. *)
LEMMA SumIsSums ==
  ASSUME NEW S, IsFiniteSet(S), NEW f
  PROVE  \E h : SumsOf(h, f, S) /\ SumFunctionOnSet(f, S) = h[S]
<1>1. PICK g : SumsOf(g, f, S)
  BY SumsExists
<1> QED
  BY <1>1 DEF SumFunctionOnSet, FoldFunctionOnSet, MapThenFoldSet, SumsOf, Sums, Some
-----------------------------------------------------------------------------
(***************************************************************************)
(* What a sum depends on, and how it changes.                              *)
(***************************************************************************)
LEMMA SumEqual ==
  ASSUME NEW S, IsFiniteSet(S), NEW f, NEW g, \A x \in S : f[x] = g[x]
  PROVE  SumFunctionOnSet(f, S) = SumFunctionOnSet(g, S)
<1>1. PICK h : SumsOf(h, f, S) /\ SumFunctionOnSet(f, S) = h[S]
  BY SumIsSums
<1>2. PICK k : SumsOf(k, g, S) /\ SumFunctionOnSet(g, S) = k[S]
  BY SumIsSums
<1>3. S \in SUBSET S /\ Agree(f, g, S)
  BY DEF Agree
<1>4. h[S] = k[S]
  BY <1>1, <1>2, <1>3, SumsUnique
<1> QED
  BY <1>1, <1>2, <1>4

LEMMA SumEmpty ==
  ASSUME NEW f
  PROVE  SumFunctionOnSet(f, {}) = 0
<1>1. IsFiniteSet({}) /\ {} \in SUBSET {}
  BY FS_EmptySet
<1>2. PICK h : SumsOf(h, f, {}) /\ SumFunctionOnSet(f, {}) = h[{}]
  BY <1>1, SumIsSums
<1> QED
  BY <1>1, <1>2 DEF SumsOf, Sums

(* One step of the computation. *)
LEMMA SumStep ==
  ASSUME NEW S, IsFiniteSet(S), S # {}, NEW f
  PROVE  SumFunctionOnSet(f, S) = f[Some(S)] + SumFunctionOnSet(f, S \ {Some(S)})
<1> DEFINE T == S \ {Some(S)}
<1>1. T \in SUBSET S /\ S \in SUBSET S
  OBVIOUS
<1>2. IsFiniteSet(T)
  BY <1>1, FS_Subset
<1>3. PICK h : SumsOf(h, f, S) /\ SumFunctionOnSet(f, S) = h[S]
  BY SumIsSums
<1> HIDE DEF T
<1>4. PICK k : SumsOf(k, f, T) /\ SumFunctionOnSet(f, T) = k[T]
  BY <1>2, SumIsSums
<1>5. h[T] = k[T]
  <2>1. SumsOf(h, f, S) /\ SumsOf(k, f, T) /\ Agree(f, f, T)
    BY <1>3, <1>4 DEF Agree
  <2> QED
    BY <1>1, <2>1, SumsUnique
<1>6. h[S] = f[Some(S)] + h[S \ {Some(S)}]
  BY <1>1, <1>3 DEF SumsOf, Sums
<1> QED
  BY <1>3, <1>4, <1>5, <1>6 DEF T

(* A sum of integers is an integer, and one of naturals a natural. *)
LEMMA SumType ==
  ASSUME NEW S, IsFiniteSet(S), NEW N \in {Nat, Int}, NEW f, \A x \in S : f[x] \in N
  PROVE  SumFunctionOnSet(f, S) \in N
<1> DEFINE P == {n \in Nat : \A s \in SUBSET S : Cardinality(s) = n => SumFunctionOnSet(f, s) \in N}
<1>0. \A s \in SUBSET S : IsFiniteSet(s) /\ Cardinality(s) \in Nat
  BY FS_Subset, FS_CardinalityType
<1>1. 0 \in P
  BY <1>0, FS_EmptySet, SumEmpty
<1>2. \A n \in Nat : n \in P => n + 1 \in P
  <2> SUFFICES ASSUME NEW n \in Nat,
                      \A s \in SUBSET S : Cardinality(s) = n => SumFunctionOnSet(f, s) \in N,
                      NEW s \in SUBSET S, Cardinality(s) = n + 1
               PROVE  SumFunctionOnSet(f, s) \in N
    OBVIOUS
  <2>1. IsFiniteSet(s) /\ s # {}
    BY <1>0, FS_EmptySet
  <2>2. Some(s) \in s
    BY <2>1, SomeIn
  <2>3. s \ {Some(s)} \in SUBSET S /\ Cardinality(s \ {Some(s)}) = n
    BY <2>1, <2>2, SmallerSubset
  <2>4. SumFunctionOnSet(f, s \ {Some(s)}) \in N /\ f[Some(s)] \in N
    BY <2>2, <2>3
  <2>5. \A a, b \in N : a + b \in N
    OBVIOUS
  <2> QED
    BY <2>1, <2>4, <2>5, SumStep
<1>3. Cardinality(S) \in P
  <2> HIDE DEF P
  <2>1. Nat \subseteq P
    BY <1>1, <1>2, NatSetInduction
  <2> QED
    BY <2>1, FS_CardinalityType
<1> QED
  BY <1>3

(* Any element may be taken out of a sum. *)
LEMMA SumRemove ==
  ASSUME NEW S, IsFiniteSet(S), NEW f, \A x \in S : f[x] \in Int, NEW y \in S
  PROVE  SumFunctionOnSet(f, S) = f[y] + SumFunctionOnSet(f, S \ {y})
<1> DEFINE Holds(s) == \A x \in s : SumFunctionOnSet(f, s) = f[x] + SumFunctionOnSet(f, s \ {x})
           P == {n \in Nat : \A s \in SUBSET S : Cardinality(s) = n => Holds(s)}
<1>0. \A s \in SUBSET S : IsFiniteSet(s) /\ Cardinality(s) \in Nat
  BY FS_Subset, FS_CardinalityType
<1>1. \A s \in SUBSET S : SumFunctionOnSet(f, s) \in Int
  <2> SUFFICES ASSUME NEW s \in SUBSET S
               PROVE  SumFunctionOnSet(f, s) \in Int
    OBVIOUS
  <2>1. \A x \in s : f[x] \in Int
    OBVIOUS
  <2> QED
    BY <1>0, <2>1, SumType
<1>2. 0 \in P
  <2>1. \A s \in SUBSET S : Cardinality(s) = 0 => s = {}
    BY <1>0, FS_EmptySet
  <2> QED
    BY <2>1
<1>3. \A n \in Nat : n \in P => n + 1 \in P
  <2> HIDE DEF Holds
  <2> SUFFICES ASSUME NEW n \in Nat, n \in P,
                      NEW s \in SUBSET S, Cardinality(s) = n + 1
               PROVE  Holds(s)
    OBVIOUS
  <2>0. SUFFICES ASSUME NEW x \in s
                 PROVE  SumFunctionOnSet(f, s) = f[x] + SumFunctionOnSet(f, s \ {x})
    BY DEF Holds
  <2> DEFINE z == Some(s)
             A == s \ {x}
             B == s \ {z}
             C == s \ {x, z}
  <2>1. IsFiniteSet(s) /\ s # {} /\ z \in s /\ z \in S
    BY <1>0, SomeIn
  <2>2. SumFunctionOnSet(f, s) = f[z] + SumFunctionOnSet(f, B)
    BY <2>1, SumStep
  <2>3. CASE z = x
    BY <2>2, <2>3
  <2>4. CASE z # x
    <3>1. A \in SUBSET S /\ B \in SUBSET S /\ C \in SUBSET S
      OBVIOUS
    <3>2. Cardinality(A) = n /\ Cardinality(B) = n
      BY <2>1, SmallerSubset
    <3>3. z \in A /\ x \in B /\ A \ {z} = C /\ B \ {x} = C
      BY <2>1, <2>4
    <3> HIDE DEF A, B, C, z
    <3>4. SumFunctionOnSet(f, B) = f[x] + SumFunctionOnSet(f, C)
      BY <3>1, <3>2, <3>3 DEF Holds
    <3>5. SumFunctionOnSet(f, A) = f[z] + SumFunctionOnSet(f, C)
      BY <3>1, <3>2, <3>3 DEF Holds
    <3>6. f[x] \in Int /\ f[z] \in Int /\ SumFunctionOnSet(f, C) \in Int
      BY <1>1, <2>1, <3>1
    <3>7. SumFunctionOnSet(f, s) = f[x] + SumFunctionOnSet(f, A)
      BY <2>2, <3>4, <3>5, <3>6
    <3> QED
      BY <3>7 DEF A
  <2> QED
    BY <2>3, <2>4
<1>4. Cardinality(S) \in P
  <2> HIDE DEF P
  <2>1. Nat \subseteq P
    BY <1>2, <1>3, NatSetInduction
  <2> QED
    BY <2>1, FS_CardinalityType
<1> HIDE DEF Holds
<1>5. Holds(S)
  BY <1>4
<1> QED
  BY <1>5 DEF Holds

(* Changing one summand. *)
LEMMA SumUpdate ==
  ASSUME NEW S, IsFiniteSet(S), NEW f, NEW g, NEW y \in S,
         \A x \in S : f[x] \in Int /\ g[x] \in Int,
         \A x \in S \ {y} : g[x] = f[x]
  PROVE  SumFunctionOnSet(g, S) = SumFunctionOnSet(f, S) - f[y] + g[y]
<1>1. IsFiniteSet(S \ {y}) /\ S \ {y} \in SUBSET S
  BY FS_RemoveElement
<1>2. SumFunctionOnSet(g, S \ {y}) = SumFunctionOnSet(f, S \ {y})
  BY <1>1, SumEqual
<1>3. SumFunctionOnSet(f, S \ {y}) \in Int
  BY <1>1, SumType
<1>4. /\ SumFunctionOnSet(f, S) = f[y] + SumFunctionOnSet(f, S \ {y})
      /\ SumFunctionOnSet(g, S) = g[y] + SumFunctionOnSet(g, S \ {y})
  BY SumRemove
<1> QED
  BY <1>2, <1>3, <1>4

(* A sum of nothing but zeros. *)
LEMMA SumZero ==
  ASSUME NEW S, IsFiniteSet(S), NEW f, \A x \in S : f[x] = 0
  PROVE  SumFunctionOnSet(f, S) = 0
<1> DEFINE P == {n \in Nat : \A s \in SUBSET S : Cardinality(s) = n => SumFunctionOnSet(f, s) = 0}
<1>0. \A s \in SUBSET S : IsFiniteSet(s) /\ Cardinality(s) \in Nat
  BY FS_Subset, FS_CardinalityType
<1>1. 0 \in P
  BY <1>0, FS_EmptySet, SumEmpty
<1>2. \A n \in Nat : n \in P => n + 1 \in P
  <2> SUFFICES ASSUME NEW n \in Nat,
                      \A s \in SUBSET S : Cardinality(s) = n => SumFunctionOnSet(f, s) = 0,
                      NEW s \in SUBSET S, Cardinality(s) = n + 1
               PROVE  SumFunctionOnSet(f, s) = 0
    OBVIOUS
  <2>1. IsFiniteSet(s) /\ s # {}
    BY <1>0, FS_EmptySet
  <2>2. Some(s) \in s
    BY <2>1, SomeIn
  <2>3. s \ {Some(s)} \in SUBSET S /\ Cardinality(s \ {Some(s)}) = n
    BY <2>1, <2>2, SmallerSubset
  <2>4. SumFunctionOnSet(f, s \ {Some(s)}) = 0 /\ f[Some(s)] = 0
    BY <2>2, <2>3
  <2> QED
    BY <2>1, <2>4, SumStep
<1>3. Cardinality(S) \in P
  <2> HIDE DEF P
  <2>1. Nat \subseteq P
    BY <1>1, <1>2, NatSetInduction
  <2> QED
    BY <2>1, FS_CardinalityType
<1> QED
  BY <1>3

(* Of at most c summed up over S, c times its size is the most. *)
LEMMA SumBound ==
  ASSUME NEW S, IsFiniteSet(S), NEW c \in Nat, NEW f, \A x \in S : f[x] \in 0 .. c
  PROVE  SumFunctionOnSet(f, S) <= c * Cardinality(S)
<1> DEFINE P == {n \in Nat : \A s \in SUBSET S : Cardinality(s) = n => SumFunctionOnSet(f, s) <= c * n}
<1>0. \A s \in SUBSET S : IsFiniteSet(s) /\ Cardinality(s) \in Nat
  BY FS_Subset, FS_CardinalityType
<1>1. 0 \in P
  BY <1>0, FS_EmptySet, SumEmpty
<1>2. \A n \in Nat : n \in P => n + 1 \in P
  <2> SUFFICES ASSUME NEW n \in Nat, n \in P, NEW s \in SUBSET S, Cardinality(s) = n + 1
               PROVE  SumFunctionOnSet(f, s) <= c * (n + 1)
    OBVIOUS
  <2>1. IsFiniteSet(s) /\ s # {}
    BY <1>0, FS_EmptySet
  <2> DEFINE x == Some(s)
             t == s \ {x}
  <2>2. x \in s /\ t \in SUBSET S /\ Cardinality(t) = n
    <3>1. x \in s
      BY <2>1, SomeIn
    <3>2. Cardinality(t) = Cardinality(s) - 1
      BY <2>1, <3>1, FS_RemoveElement
    <3> QED
      BY <3>1, <3>2
  <2>3. SumFunctionOnSet(f, s) = f[x] + SumFunctionOnSet(f, t)
    BY <2>1, SumStep
  <2> HIDE DEF x, t
  <2>4. SumFunctionOnSet(f, t) <= c * n
    BY <2>2
  <2>5. SumFunctionOnSet(f, t) \in Int /\ f[x] \in Int /\ f[x] <= c
    <3>1. \A y \in t : f[y] \in Int
      BY <2>2
    <3> QED
      BY <1>0, <2>2, <3>1, SumType
  <2>6. c * (n + 1) = c * n + c /\ c * n \in Int
    OBVIOUS
  <2> QED
    BY <2>3, <2>4, <2>5, <2>6
<1>3. Cardinality(S) \in P
  <2> HIDE DEF P
  <2>1. Nat \subseteq P
    BY <1>1, <1>2, NatSetInduction
  <2> QED
    BY <2>1, FS_CardinalityType
<1> QED
  BY <1>3

(* Two sets with as many elements of every class: C for S, and D for T. *)
SameClasses(S, C, T, D) ==
  \A c : Cardinality({x \in S : C[x] = c}) = Cardinality({y \in T : D[y] = c})

(* They have equal sums when the class of an element determines its summand. *)
LEMMA SumByClass ==
  ASSUME NEW S, IsFiniteSet(S), NEW T, IsFiniteSet(T), NEW f, NEW g, NEW C, NEW D,
         \A x \in S : f[x] \in Int, \A y \in T : g[y] \in Int,
         \A x \in S, y \in T : C[x] = D[y] => f[x] = g[y],
         SameClasses(S, C, T, D)
  PROVE  SumFunctionOnSet(f, S) = SumFunctionOnSet(g, T)
<1> DEFINE Alike(s, t) == \A c : Cardinality({x \in s : C[x] = c}) = Cardinality({y \in t : D[y] = c})
           P == {n \in Nat : \A s \in SUBSET S, t \in SUBSET T :
                   Cardinality(s) = n /\ Alike(s, t) =>
                     SumFunctionOnSet(f, s) = SumFunctionOnSet(g, t)}
<1>0. /\ \A s \in SUBSET S : IsFiniteSet(s) /\ Cardinality(s) \in Nat
      /\ \A t \in SUBSET T : IsFiniteSet(t) /\ Cardinality(t) \in Nat
  BY FS_Subset, FS_CardinalityType
<1>1. 0 \in P
  <2> SUFFICES ASSUME NEW s \in SUBSET S, NEW t \in SUBSET T, Cardinality(s) = 0, Alike(s, t)
               PROVE  SumFunctionOnSet(f, s) = SumFunctionOnSet(g, t)
    OBVIOUS
  <2>1. s = {}
    BY <1>0, FS_EmptySet
  <2>2. t = {}
    <3> SUFFICES ASSUME NEW y \in t
                 PROVE  FALSE
      OBVIOUS
    <3> DEFINE same == {u \in t : D[u] = D[y]}
    <3>1. same \in SUBSET T /\ y \in same /\ {x \in s : C[x] = D[y]} = {}
      BY <2>1
    <3>2. Cardinality(same) = 0
      BY <3>1, FS_EmptySet
    <3> QED
      BY <1>0, <3>1, <3>2, FS_EmptySet
  <2> QED
    BY <2>1, <2>2, SumEmpty
<1>2. \A n \in Nat : n \in P => n + 1 \in P
  <2> HIDE DEF Alike
  <2> SUFFICES ASSUME NEW n \in Nat, n \in P,
                      NEW s \in SUBSET S, NEW t \in SUBSET T,
                      Cardinality(s) = n + 1, Alike(s, t)
               PROVE  SumFunctionOnSet(f, s) = SumFunctionOnSet(g, t)
    OBVIOUS
  <2>1. IsFiniteSet(s) /\ IsFiniteSet(t) /\ s # {}
    BY <1>0, FS_EmptySet
  <2>2. PICK x \in s : TRUE
    BY <2>1
  <2>3. \E y \in t : D[y] = C[x]
    <3> DEFINE same == {u \in s : C[u] = C[x]}
    <3>1. same \in SUBSET S /\ x \in same
      OBVIOUS
    <3>2. Cardinality(same) # 0
      BY <1>0, <3>1, FS_EmptySet
    <3>3. Cardinality({u \in t : D[u] = C[x]}) # 0
      BY <3>2 DEF Alike
    <3>4. {u \in t : D[u] = C[x]} # {}
      BY <3>3, FS_EmptySet
    <3> QED
      BY <3>4
  <2>4. PICK y \in t : D[y] = C[x]
    BY <2>3
  <2> DEFINE s1 == s \ {x}
             t1 == t \ {y}
  <2>5. s1 \in SUBSET S /\ t1 \in SUBSET T /\ Cardinality(s1) = n
    <3>1. Cardinality(s1) = Cardinality(s) - 1
      BY <2>1, FS_RemoveElement
    <3> QED
      BY <3>1
  <2>6. Alike(s1, t1)
    <3> SUFFICES ASSUME NEW c
                 PROVE  Cardinality({u \in s1 : C[u] = c}) = Cardinality({u \in t1 : D[u] = c})
      BY DEF Alike
    <3> DEFINE sc == {u \in s : C[u] = c}
               tc == {u \in t : D[u] = c}
    <3>1. IsFiniteSet(sc) /\ IsFiniteSet(tc) /\ Cardinality(sc) = Cardinality(tc)
      <4>1. sc \in SUBSET S /\ tc \in SUBSET T /\ Cardinality(sc) = Cardinality(tc)
        BY DEF Alike
      <4> QED
        BY <1>0, <4>1
    <3>2. {u \in s1 : C[u] = c} = sc \ {x} /\ {u \in t1 : D[u] = c} = tc \ {y}
      OBVIOUS
    <3>3. x \in sc <=> y \in tc
      BY <2>4
    <3> HIDE DEF sc, tc
    <3>4. /\ Cardinality(sc \ {x}) = IF x \in sc THEN Cardinality(sc) - 1 ELSE Cardinality(sc)
          /\ Cardinality(tc \ {y}) = IF y \in tc THEN Cardinality(tc) - 1 ELSE Cardinality(tc)
      BY <3>1, FS_RemoveElement
    <3> QED
      BY <3>1, <3>2, <3>3, <3>4
  <2> HIDE DEF s1, t1
  <2>7. SumFunctionOnSet(f, s1) = SumFunctionOnSet(g, t1)
    BY <2>5, <2>6
  <2>8. SumFunctionOnSet(f, s) = f[x] + SumFunctionOnSet(f, s1)
    BY <2>1, SumRemove DEF s1
  <2>9. SumFunctionOnSet(g, t) = g[y] + SumFunctionOnSet(g, t1)
    BY <2>1, SumRemove DEF t1
  <2> QED
    BY <2>4, <2>7, <2>8, <2>9
<1>3. Cardinality(S) \in P
  <2> HIDE DEF P
  <2>1. Nat \subseteq P
    BY <1>1, <1>2, NatSetInduction
  <2> QED
    BY <2>1, FS_CardinalityType
<1> HIDE DEF Alike
<1>4. Alike(S, T)
  BY DEF Alike, SameClasses
<1> QED
  BY <1>3, <1>4

(* A sum of ones counts. *)
LEMMA SumOnes ==
  ASSUME NEW S, IsFiniteSet(S), NEW f, \A x \in S : f[x] = 1
  PROVE  SumFunctionOnSet(f, S) = Cardinality(S)
<1> DEFINE P == {n \in Nat : \A s \in SUBSET S : Cardinality(s) = n => SumFunctionOnSet(f, s) = n}
<1>0. \A s \in SUBSET S : IsFiniteSet(s) /\ Cardinality(s) \in Nat
  BY FS_Subset, FS_CardinalityType
<1>1. 0 \in P
  <2> SUFFICES ASSUME NEW s \in SUBSET S, Cardinality(s) = 0
               PROVE  SumFunctionOnSet(f, s) = 0
    OBVIOUS
  <2>1. s = {}
    BY <1>0, FS_EmptySet
  <2> QED
    BY <2>1, SumEmpty
<1>2. \A n \in Nat : n \in P => n + 1 \in P
  <2> SUFFICES ASSUME NEW n \in Nat, n \in P, NEW s \in SUBSET S, Cardinality(s) = n + 1
               PROVE  SumFunctionOnSet(f, s) = n + 1
    OBVIOUS
  <2>1. IsFiniteSet(s) /\ s # {}
    BY <1>0, FS_EmptySet
  <2>2. PICK x \in s : TRUE
    BY <2>1
  <2>3. s \ {x} \in SUBSET S /\ Cardinality(s \ {x}) = n
    <3>1. Cardinality(s \ {x}) = Cardinality(s) - 1
      BY <2>1, <2>2, FS_RemoveElement
    <3> QED
      BY <3>1
  <2>4. SumFunctionOnSet(f, s) = f[x] + SumFunctionOnSet(f, s \ {x})
    BY <2>1, <2>2, SumRemove
  <2> QED
    BY <2>3, <2>4
<1>3. Cardinality(S) \in P
  <2> HIDE DEF P
  <2>1. Nat \subseteq P
    BY <1>1, <1>2, NatSetInduction
  <2> QED
    BY <2>1, FS_CardinalityType
<1> QED
  BY <1>3

(* Sets with as many elements of every class are of one size. *)
LEMMA SameClassesSameSize ==
  ASSUME NEW S, IsFiniteSet(S), NEW T, IsFiniteSet(T), NEW C, NEW D, SameClasses(S, C, T, D)
  PROVE  Cardinality(S) = Cardinality(T)
<1> DEFINE f == [x \in S |-> 1]
           g == [y \in T |-> 1]
<1>1. (\A x \in S : f[x] = 1) /\ (\A y \in T : g[y] = 1)
  OBVIOUS
<1> HIDE DEF f, g
<1>2. SumFunctionOnSet(f, S) = SumFunctionOnSet(g, T)
  BY <1>1, SumByClass
<1> QED
  BY <1>1, <1>2, SumOnes
=============================================================================
