---------------------------- MODULE BucketProofs ----------------------------
(***************************************************************************)
(* What is proved of localize_buckets: between them the buckets see every  *)
(* settled row, those without a number included, and a place where the     *)
(* databases differ is in a window reported.  Of both localizers: they     *)
(* keep the promise of module Localization.  And of the bisection: what it *)
(* drops is alike.                                                         *)
(***************************************************************************)
EXTENDS LocalizeProofs

(***************************************************************************)
(* Database d reaches place p: it has a settled block at or after it.      *)
(***************************************************************************)
Reaches(t, x, d, p) ==
  \E b \in x.history[d][1]["block"] : p <= b.pos /\ Between(b.key, 0, SettledOf(t, x))

(* The rows of the table at place p. *)
PlaceRows(t, x, d, p) == {r \in TableRows(t, x.history[d][1]) : r.pos = p}

(* What is reached is settled. *)
LEMMA ReachedIsSettled ==
  ASSUME NEW t \in Tables, t # "epoch", NEW x \in Databases[t], NEW d \in DB, NEW p \in Pos,
         NEW b \in x.history[d][1]["block"], p <= b.pos, Between(b.key, 0, SettledOf(t, x))
  PROVE  /\ b.pos \in Numbered /\ b.key = BlockNo[b.pos] /\ b.key \in Nat
         /\ b.key <= x.settled /\ b.key <= Cutoff
         /\ Below(x, b.pos) /\ Below(x, p) /\ p # 0
<1>1. 1 \in At(x, d) /\ WellTyped(x.history[d][1]) /\ InChainOrder(x.history[d][1])
  <2>1. 1 \in At(x, d)
    BY SettledSame
  <2> QED
    BY <2>1, SnapshotsGood DEF At
<1>2. b.pos \in Pos /\ b.key = BlockNo[b.pos] /\ b.key # None
  BY <1>1 DEF WellTyped, InChainOrder, Spine, Between
<1>3. b.pos \in Numbered /\ b.key \in Nat /\ b.pos \in Nat
  BY <1>2, PlacesType DEF Numbered
<1>4. x.settled \in Nat /\ Cutoff \in Nat
  BY DatabasesAssumption, LocalizeAssumption
<1>5. b.key <= x.settled /\ b.key <= Cutoff
  BY <1>3, <1>4 DEF Between, SettledOf, TopOf
<1>6. b.pos <= b.pos /\ BlockNo[b.pos] <= x.settled
  BY <1>2, <1>3, <1>5
<1>7. Below(x, b.pos)
  BY <1>2, <1>3, <1>6 DEF Below, SettledPlaces
<1>8. Below(x, p)
  BY <1>2, <1>7, EarlierBelow
<1> QED
  BY <1>2, <1>3, <1>5, <1>7, <1>8, PlacesType

(***************************************************************************)
(* The ranges up to the cutoff miss no row at a place that is reached.     *)
(***************************************************************************)
LEMMA BlocksHeld ==
  ASSUME NEW S, WellTyped(S), InChainOrder(S),
         NEW b \in S["block"], b.key # None, b.key <= Cutoff,
         NEW q \in S["block"], q.pos <= b.pos
  PROVE  LET range == BlockRange(S["block"], Cutoff, None)
         IN  range.lo \in Nat /\ range.hi \in Nat /\ Between(q.id, range.lo, range.hi)
<1> DEFINE keyed == {r \in S["block"] : r.key # None}
           below == {r \in S["block"] : r.key # None /\ r.key <= Cutoff}
           range == BlockRange(S["block"], Cutoff, None)
           l == LastRow(below)
<1>1. b \in below /\ below \in SUBSET keyed /\ Sorted(keyed)
  BY SpineSorted
<1>2. range = [lo |-> 0, hi |-> l.id]
  BY <1>1 DEF BlockRange
<1>3. Sorted(below)
  <2> HIDE DEF below, keyed
  <2> QED
    BY <1>1, SortedSubset
<1>4. l \in below /\ \A r \in below : r.id <= l.id
  <2> HIDE DEF below
  <2> QED
    BY <1>1, <1>3, FirstAndLast
<1>5. /\ \A r \in S["block"] : r.id \in Nat /\ r.pos \in Pos /\ r.key = BlockNo[r.pos]
      /\ \A r, o \in S["block"] : r.id <= o.id => r.pos <= o.pos
  BY DEF WellTyped, InChainOrder, Spine
<1>6. q.id <= l.id
  <2>1. CASE q.id <= b.id
    BY <1>1, <1>4, <1>5, <2>1
  <2>2. CASE b.id <= q.id
    <3>1. b.pos <= q.pos /\ b.pos \in Nat /\ q.pos \in Nat
      BY <1>5, <2>2, PlacesType
    <3>2. b.pos = q.pos
      BY <3>1
    <3>3. q \in below
      BY <1>5, <3>2
    <3> QED
      BY <1>4, <3>3
  <2> QED
    BY <1>5, <2>1, <2>2
<1>7. l.id \in Nat /\ q.id \in Nat
  BY <1>4, <1>5
<1> HIDE DEF range, l
<1>8. range.lo = 0 /\ range.hi = l.id
  BY <1>2
<1>9. range.lo \in Nat /\ range.hi \in Nat /\ Between(q.id, range.lo, range.hi)
  BY <1>6, <1>7, <1>8, NoneAssumption DEF Between
<1> QED
  BY <1>9 DEF range

(* The walk up to the cutoff, range by range. *)
LEMMA CutoffRanges ==
  ASSUME NEW x, NEW d, NEW l
  PROVE  LET h == x.history[d]
             b == BlockRange(h[l[1]]["block"], Cutoff, None)
             c == ChildRange(h[l[2]]["tx"], b)
             ranges == RangesAt(x, d, l, None)
         IN  /\ ranges["block"] = b
             /\ ranges["tx"] = c
             /\ ranges["leaf"] = ChildRange(h[l[3]]["leaf"], c)
  BY DEF RangesAt, ComputeSpineRanges, Spine

Encloses(range, id) == range.lo \in Nat /\ range.hi \in Nat /\ Between(id, range.lo, range.hi)

LEMMA ChildHeld ==
  ASSUME NEW t \in Tables, t # "epoch", NEW x \in Databases[t], NEW d \in DB, NEW k \in At(x, d),
         NEW v \in {"tx", "leaf"}, NEW range, NEW p \in Pos, Below(x, p),
         \A o \in x.history[d][1][Parent(v)] : o.pos = p => Encloses(range, o.id),
         NEW q \in x.history[d][1][v], q.pos = p
  PROVE  Encloses(ChildRange(x.history[d][k][v], range), q.id)
<1> DEFINE h == x.history[d]
<1>1. 1 \in At(x, d) /\ v \in Spine /\ p # 0
  BY SettledSame, PlacesType DEF Spine
<1>2. q \in h[k][v]
  BY <1>1, SettledIn
<1>3. Linked(h[1])
  BY <1>1, SnapshotsGood DEF At
<1>4. Sorted(KeysIn(h[k][v], range.lo, range.hi))
  BY SortedIn
<1>5. \A o \in h[1][Parent(v)] : o.pos = p => Encloses(range, o.id)
  OBVIOUS
<1>6. q \in h[1][v]
  OBVIOUS
<1> HIDE DEF h
<1>7. PICK o \in h[1][Parent(v)] : o.id = q.key /\ o.pos = p
  BY <1>1, <1>3, <1>6 DEF Linked
<1>8. range.lo \in Nat /\ range.hi \in Nat /\ Between(q.key, range.lo, range.hi)
  BY <1>5, <1>7 DEF Encloses
<1>9. ChildRange(h[k][v], range) = Minmax(h[k][v], range.lo, range.hi)
  BY <1>8, NoneAssumption DEF ChildRange
<1>10. Encloses(ChildRange(h[k][v], range), q.id)
  BY <1>2, <1>4, <1>8, <1>9, MinmaxHolds DEF Encloses
<1> QED
  BY <1>10 DEF h

LEMMA ReachedHeld ==
  ASSUME NEW t \in Tables, t # "epoch", NEW x \in Databases[t], NEW d \in DB, NEW l \in Four(x, d),
         NEW p \in Pos, Reaches(t, x, d, p),
         NEW v \in Spine, NEW q \in x.history[d][1][v], q.pos = p
  PROVE  Encloses(RangesAt(x, d, l, None)[v], q.id)
<1> DEFINE h == x.history[d]
           b == BlockRange(h[l[1]]["block"], Cutoff, None)
           c == ChildRange(h[l[2]]["tx"], b)
           f == ChildRange(h[l[3]]["leaf"], c)
           R == RangesAt(x, d, l, None)
<1>0. /\ l[1] \in At(x, d) /\ l[2] \in At(x, d) /\ l[3] \in At(x, d)
      /\ 1 \in At(x, d)
  BY SettledSame DEF Four
<1>1. PICK a \in h[1]["block"] : p <= a.pos /\ Between(a.key, 0, SettledOf(t, x))
  BY DEF Reaches
<1>2. /\ a.pos \in Numbered /\ a.key = BlockNo[a.pos] /\ a.key \in Nat /\ a.key <= Cutoff
      /\ Below(x, a.pos) /\ Below(x, p)
  BY <1>1, ReachedIsSettled
<1>3. R["block"] = b /\ R["tx"] = c /\ R["leaf"] = f
  BY CutoffRanges
<1>4. ASSUME NEW r \in h[1]["block"], r.pos = p
      PROVE  Encloses(b, r.id)
  <2> DEFINE S == h[l[1]]
  <2>1. WellTyped(S) /\ InChainOrder(S)
    BY <1>0, SnapshotsGood DEF At
  <2>2. a \in S["block"] /\ r \in S["block"]
    BY <1>0, <1>1, <1>2, <1>4, SettledIn DEF Spine
  <2>3. a.key # None
    BY <1>2, NoneAssumption
  <2> HIDE DEF S
  <2> QED
    BY <1>1, <1>2, <1>4, <2>1, <2>2, <2>3, BlocksHeld DEF Encloses, S
<1> HIDE DEF b, R
<1>5. ASSUME NEW r \in h[1]["tx"], r.pos = p
      PROVE  Encloses(c, r.id)
  <2>1. Parent("tx") = "block"
    BY DEF Parent
  <2> QED
    BY <1>0, <1>2, <1>4, <1>5, <2>1, ChildHeld
<1> HIDE DEF c
<1>6. ASSUME NEW r \in h[1]["leaf"], r.pos = p
      PROVE  Encloses(f, r.id)
  <2>1. Parent("leaf") = "tx"
    BY DEF Parent
  <2> QED
    BY <1>0, <1>2, <1>5, <1>6, <2>1, ChildHeld
<1> HIDE DEF f
<1>7. q \in h[1][v] /\ v \in {"block", "tx", "leaf"}
  BY DEF Spine
<1> HIDE DEF h
<1> QED
  BY <1>3, <1>4, <1>5, <1>6, <1>7 DEF R

(* The rows at a place that is reached, as every query of them all sees them. *)
LEMMA PlaceHeld ==
  ASSUME NEW t \in Tables, t # "epoch", NEW x \in Databases[t], NEW d \in DB, NEW l \in Four(x, d),
         NEW p \in Pos, Reaches(t, x, d, p)
  PROVE  {r \in IdRangeRowsAt(t, x, d, l, None) : r.pos = p} = PlaceRows(t, x, d, p)
<1> DEFINE h == x.history[d]
           u == IF t = "owner" THEN "leaf" ELSE t
           range == RangesAt(x, d, l, None)[AnchorSpine(t)]
           A == {r \in IdRangeRowsAt(t, x, d, l, None) : r.pos = p}
<1>0. l[4] \in At(x, d) /\ 1 \in At(x, d)
  BY SettledSame DEF Four
<1>1. u \in Spine \cup {"committee"} /\ \A S : TableRows(t, S) = S[u]
  BY TableKinds DEF Spine
<1>2. \A r : r \in A <=> r \in h[l[4]][u] /\ r.pos = p /\ Between(Anchor(t, r), range.lo, range.hi)
  BY <1>1 DEF IdRangeRowsAt, Selected
<1>3. \A r : r \in PlaceRows(t, x, d, p) <=> r \in h[1][u] /\ r.pos = p
  BY <1>1 DEF PlaceRows
<1>4. Below(x, p) /\ p # 0
  BY ReachedIsSettled DEF Reaches
<1> HIDE DEF A, u, range
<1>5. \A r : r \in A => r \in PlaceRows(t, x, d, p)
  BY <1>0, <1>1, <1>2, <1>3, <1>4, SettledIn
<1>6. ASSUME NEW r \in PlaceRows(t, x, d, p)
      PROVE  r \in A
  <2>1. r \in h[1][u] /\ r.pos = p
    BY <1>3
  <2>2. r \in h[l[4]][u]
    BY <1>0, <1>1, <1>4, <2>1, SettledIn
  <2>3. AnchorSpine(t) \in Spine
    BY TableKinds
  <2>4. \A q \in h[1][AnchorSpine(t)] : q.pos = p => Between(q.id, range.lo, range.hi)
    BY <2>3, ReachedHeld DEF Encloses, range
  <2>5. \E q \in h[1][AnchorSpine(t)] : q.id = Anchor(t, r) /\ q.pos = p
    <3>1. Linked(h[1])
      BY <1>0, SnapshotsGood DEF At
    <3> HIDE DEF h
    <3>2. CASE t \in {"tx", "leaf", "committee"}
      <4>1. u = t /\ Parent(t) = AnchorSpine(t) /\ Anchor(t, r) = r.key
        BY <3>2, TableKinds DEF u, Anchor
      <4> QED
        BY <1>4, <2>1, <3>1, <3>2, <4>1 DEF Linked
    <3>3. CASE t \in {"block", "owner"}
      <4>1. u = AnchorSpine(t) /\ Anchor(t, r) = r.id
        BY <3>3, TableKinds DEF u, Anchor
      <4> QED
        BY <2>1, <4>1
    <3> QED
      BY <3>2, <3>3, TableKinds
  <2> QED
    BY <1>2, <2>1, <2>2, <2>4, <2>5
<1>7. A \subseteq PlaceRows(t, x, d, p) /\ PlaceRows(t, x, d, p) \subseteq A
  BY <1>5, <1>6
<1>8. A = PlaceRows(t, x, d, p)
  BY <1>7
<1> QED
  BY <1>8 DEF A

(***************************************************************************)
(* The same at a settled number the database may not have: if it has a row *)
(* there, it has the block.                                                *)
(***************************************************************************)
Told(t, x, d, p) == Reaches(t, x, d, p) \/ (p \in Numbered /\ BlockNo[p] <= SettledOf(t, x))

LEMMA RowReaches ==
  ASSUME NEW t \in Tables, t # "epoch", NEW x \in Databases[t], NEW d \in DB, NEW k \in At(x, d),
         NEW p \in Pos, Told(t, x, d, p), NEW r \in TableRows(t, x.history[d][k]), r.pos = p
  PROVE  Reaches(t, x, d, p)
<1> DEFINE S == x.history[d][k]
<1> SUFFICES ASSUME p \in Numbered, BlockNo[p] <= SettledOf(t, x)
             PROVE  Reaches(t, x, d, p)
  BY DEF Told
<1>1. WellTyped(S) /\ InChainOrder(S) /\ Linked(S)
  BY SnapshotsGood DEF At
<1>2. p # 0 /\ p \in Nat /\ BlockNo[p] \in Nat
  BY PlacesType
<1>3. \E b \in S["block"] : b.pos = p
  <2> HIDE DEF S
  <2>1. \A q \in S["tx"] : q.pos = p => \E b \in S["block"] : b.pos = p
    BY <1>1, <1>2 DEF Linked, Parent
  <2>2. \A q \in S["leaf"] : q.pos = p => \E o \in S["tx"] : o.pos = p
    BY <1>1, <1>2 DEF Linked, Parent
  <2>3. \A q \in S["committee"] : q.pos = p => \E o \in S["leaf"] : o.pos = p
    BY <1>1, <1>2 DEF Linked, Parent
  <2>4. \E u \in {"block", "tx", "leaf", "committee"} : r \in S[u]
    BY TableKinds DEF S
  <2> QED
    BY <2>1, <2>2, <2>3, <2>4
<1>4. PICK b \in S["block"] : b.pos = p
  BY <1>3
<1>5. SettledOf(t, x) \in Nat /\ SettledOf(t, x) <= x.settled
  BY DatabasesAssumption, LocalizeAssumption DEF SettledOf, TopOf
<1>6. Below(x, p)
  <2>1. x.settled \in Nat
    BY DatabasesAssumption
  <2>2. BlockNo[p] <= x.settled /\ p <= p
    BY <1>2, <1>5, <2>1
  <2> QED
    BY <2>2 DEF Below, SettledPlaces
<1>7. b \in x.history[d][1]["block"]
  BY <1>4, <1>6, SettledIn DEF Spine
<1>8. b.key = BlockNo[p] /\ p <= b.pos
  BY <1>1, <1>2, <1>4 DEF InChainOrder
<1>9. Between(b.key, 0, SettledOf(t, x))
  BY <1>2, <1>5, <1>8, NoneAssumption DEF Between
<1> QED
  BY <1>7, <1>8, <1>9 DEF Reaches

LEMMA PlaceTold ==
  ASSUME NEW t \in Tables, t # "epoch", NEW x \in Databases[t], NEW d \in DB, NEW l \in Four(x, d),
         NEW p \in Pos, Told(t, x, d, p)
  PROVE  /\ {r \in IdRangeRowsAt(t, x, d, l, None) : r.pos = p} = PlaceRows(t, x, d, p)
         /\ PlaceRows(t, x, d, p) # {} => Reaches(t, x, d, p)
<1>1. CASE Reaches(t, x, d, p)
  BY <1>1, PlaceHeld
<1>2. CASE ~Reaches(t, x, d, p)
  <2>1. 1 \in At(x, d) /\ l[4] \in At(x, d)
    BY SettledSame DEF Four
  <2>2. \A k \in At(x, d) : \A r \in TableRows(t, x.history[d][k]) : r.pos # p
    BY <1>2, RowReaches
  <2>3. PlaceRows(t, x, d, p) = {}
    BY <2>1, <2>2 DEF PlaceRows
  <2>4. \A r \in IdRangeRowsAt(t, x, d, l, None) : r \in TableRows(t, x.history[d][l[4]])
    BY DEF IdRangeRowsAt, Selected
  <2>5. \A r \in IdRangeRowsAt(t, x, d, l, None) : r.pos # p
    BY <2>1, <2>2, <2>4
  <2> QED
    BY <2>3, <2>5
<1> QED
  BY <1>1, <1>2

-----------------------------------------------------------------------------
(***************************************************************************)
(* A boundary is the id of a row with a number at or above the edge: what  *)
(* comes before all such rows is below it.                                 *)
(***************************************************************************)
LEMMA BoundaryRow ==
  ASSUME NEW S, WellTyped(S), InChainOrder(S), Linked(S), NEW edge \in Nat,
         NEW v \in Spine, BoundaryId(S, v, edge) # None
  PROVE  \E f \in S[v] : /\ BoundaryId(S, v, edge) = f.id
                         /\ f.pos \in Numbered /\ edge <= BlockNo[f.pos]
<1> DEFINE b == FirstFrom(S["block"], edge)
           t == FirstFrom(S["tx"], b)
           l == FirstFrom(S["leaf"], t)
           Fits(u, i) == \E f \in S[u] : i = f.id /\ f.pos \in Numbered /\ edge <= BlockNo[f.pos]
<1>0. BoundaryId(S, v, edge) = CASE v = "block" -> b [] v = "tx" -> t [] v = "leaf" -> l
  BY DEF BoundaryId
<1>1. \A u \in {"tx", "leaf"} : Sorted({r \in S[u] : r.key # None})
  <2> SUFFICES ASSUME NEW u \in {"tx", "leaf"}
               PROVE  Sorted({r \in S[u] : r.key # None})
    OBVIOUS
  <2>1. Sorted(S[u]) /\ {r \in S[u] : r.key # None} \in SUBSET S[u]
    BY SpineSorted
  <2> QED
    BY <2>1, SortedSubset
<1>2. Sorted({r \in S["block"] : r.key # None})
  BY SpineSorted
<1>3. b # None => Fits("block", b)
  <2> SUFFICES ASSUME b # None
               PROVE  Fits("block", b)
    OBVIOUS
  <2>1. PICK f \in S["block"] : f.key # None /\ edge <= f.key /\ b = f.id
    BY <1>2, FirstFromIs
  <2>2. f.pos \in Pos /\ f.key = BlockNo[f.pos]
    BY DEF WellTyped, InChainOrder, Spine
  <2> QED
    BY <2>1, <2>2 DEF Numbered
<1>4. b \in Nat \cup {None}
  BY <1>2, FirstFromIs
<1> HIDE DEF b
<1>5. ASSUME NEW u \in {"tx", "leaf"}, NEW i \in Nat \cup {None},
             i # None => Fits(Parent(u), i), FirstFrom(S[u], i) # None
      PROVE  Fits(u, FirstFrom(S[u], i))
  <2>1. PICK f \in S[u] : f.key # None /\ i # None /\ i <= f.key /\ FirstFrom(S[u], i) = f.id
    BY <1>1, <1>5, FirstFromIs
  <2>2. PICK o \in S[Parent(u)] : i = o.id /\ o.pos \in Numbered /\ edge <= BlockNo[o.pos]
    BY <1>5, <2>1
  <2>3. u \in Spine /\ f.pos \in Pos /\ f.pos # 0
    BY PlacesType DEF WellTyped, Spine
  <2>4. PICK q \in S[Parent(u)] : q.id = f.key /\ q.pos = f.pos
    BY <2>3 DEF Linked
  <2>5. Parent(u) \in Spine
    BY DEF Parent, Spine
  <2>6. o.pos <= f.pos
    BY <2>1, <2>2, <2>4, <2>5 DEF InChainOrder
  <2>7. f.pos \in Numbered
    <3>1. o.pos \in Nat /\ f.pos \in Nat
      BY <2>2, <2>3, PlacesType
    <3>2. o.pos < f.pos => f.pos \in Numbered
      BY <2>2, <2>3 DEF Linked
    <3> QED
      BY <2>2, <2>6, <3>1, <3>2
  <2>8. BlockNo[o.pos] <= BlockNo[f.pos]
    <3>1. o.pos \in Nat /\ f.pos \in Nat /\ BlockNo[o.pos] \in Nat /\ BlockNo[f.pos] \in Nat
      BY <2>2, <2>7, PlacesType
    <3>2. o.pos < f.pos => BlockNo[o.pos] < BlockNo[f.pos]
      BY <2>2, <2>7, LocalizeAssumption
    <3>3. o.pos = f.pos \/ o.pos < f.pos
      BY <2>6, <3>1
    <3> QED
      BY <3>1, <3>2, <3>3
  <2>9. edge <= BlockNo[f.pos]
    BY <2>2, <2>7, <2>8, PlacesType
  <2> QED
    BY <2>1, <2>7, <2>9
<1> HIDE DEF Fits
<1>6. t \in Nat \cup {None} /\ (t # None => Fits("tx", t))
  <2>1. t \in Nat \cup {None}
    BY <1>1, <1>4, FirstFromIs
  <2>2. Parent("tx") = "block"
    BY DEF Parent
  <2> QED
    BY <1>3, <1>4, <1>5, <2>1, <2>2
<1> HIDE DEF t
<1>7. l # None => Fits("leaf", l)
  <2>1. Parent("leaf") = "tx"
    BY DEF Parent
  <2> QED
    BY <1>5, <1>6, <2>1
<1> HIDE DEF l
<1>8. Fits(v, BoundaryId(S, v, edge))
  BY <1>0, <1>3, <1>6, <1>7 DEF Spine
<1> QED
  BY <1>8 DEF Fits

LEMMA BoundaryAbove ==
  ASSUME NEW S, WellTyped(S), InChainOrder(S), Linked(S), NEW edge \in Nat,
         NEW v \in Spine, BoundaryId(S, v, edge) # None,
         NEW q \in S[v], \A n \in Numbered : n <= q.pos => BlockNo[n] < edge
  PROVE  ~(BoundaryId(S, v, edge) <= q.id)
<1>1. PICK f \in S[v] : /\ BoundaryId(S, v, edge) = f.id
                        /\ f.pos \in Numbered /\ edge <= BlockNo[f.pos]
  BY BoundaryRow
<1>2. ASSUME f.id <= q.id
      PROVE  FALSE
  <2>1. f.pos <= q.pos
    BY <1>2 DEF InChainOrder
  <2>2. BlockNo[f.pos] < edge /\ BlockNo[f.pos] \in Nat
    BY <1>1, <2>1, PlacesType
  <2> QED
    BY <1>1, <2>2
<1> QED
  BY <1>1, <1>2

(* The last number at or before a place, if there is one. *)
LEMMA LastNumberIs ==
  ASSUME NEW p \in Pos
  PROVE  \/ LastNumber[p] = 0 /\ \A n \in Numbered : ~(n <= p)
         \/ \E q \in Numbered : /\ q <= p /\ LastNumber[p] = BlockNo[q]
                                /\ \A n \in Numbered : n <= p => n <= q
<1> DEFINE M == {n \in Numbered : n <= p}
           V == {0} \cup {BlockNo[q] : q \in M}
<1>1. LastNumber[p] = Max(V)
  BY DEF LastNumber
<1>2. Max(V) = CHOOSE m \in V : \A v \in V : m >= v
  BY DEF Max
<1>3. CASE M = {}
  <2>1. V = {0}
    BY <1>3
  <2>2. Max(V) = 0
    BY <1>2, <2>1
  <2> QED
    BY <1>1, <1>3, <2>2
<1>4. CASE M # {}
  <2>1. M \in SUBSET Nat /\ IsFiniteSet(M)
    <3>1. p \in Nat /\ \A n \in Numbered : n \in Nat /\ 1 <= n
      BY PlacesType
    <3>2. M \in SUBSET (1 .. p) /\ M \in SUBSET Nat /\ IsFiniteSet(1 .. p)
      BY <3>1, FS_Interval
    <3> HIDE DEF M
    <3> QED
      BY <3>2, FS_Subset
  <2>2. PICK q \in M : \A n \in M : n <= q
    <3> HIDE DEF M
    <3> QED
      BY <1>4, <2>1, Greatest
  <2>3. \A n \in M : BlockNo[n] \in Nat /\ BlockNo[n] <= BlockNo[q]
    <3> SUFFICES ASSUME NEW n \in M
                 PROVE  BlockNo[n] \in Nat /\ BlockNo[n] <= BlockNo[q]
      OBVIOUS
    <3>1. n \in Numbered /\ q \in Numbered /\ n \in Nat /\ q \in Nat /\ n <= q
      BY <2>1, <2>2
    <3>2. BlockNo[n] \in Nat /\ BlockNo[q] \in Nat
      BY <3>1, PlacesType
    <3>3. n < q => BlockNo[n] < BlockNo[q]
      BY <3>1, LocalizeAssumption
    <3> HIDE DEF M
    <3>4. n = q \/ n < q
      BY <3>1
    <3> QED
      BY <3>2, <3>3, <3>4
  <2>4. BlockNo[q] \in V /\ \A v \in V : BlockNo[q] >= v /\ v \in Nat
    BY <2>3
  <2> HIDE DEF V
  <2>5. Max(V) = BlockNo[q]
    <3>1. Max(V) \in V /\ \A v \in V : Max(V) >= v
      BY <1>2, <2>4
    <3>2. Max(V) >= BlockNo[q] /\ BlockNo[q] >= Max(V) /\ Max(V) \in Nat /\ BlockNo[q] \in Nat
      BY <2>4, <3>1
    <3> HIDE DEF M
    <3> QED
      BY <3>2
  <2> QED
    BY <1>1, <2>2, <2>5
<1> QED
  BY <1>3, <1>4

-----------------------------------------------------------------------------
(***************************************************************************)
(* How many edges a number has reached, and the window of that bucket.     *)
(***************************************************************************)
EdgesUpTo(edges, c) == Cardinality({k \in DOMAIN edges : edges[k] <= c})

LEMMA AscendingCount ==
  ASSUME NEW n \in Nat, NEW f, DOMAIN f = 1 .. n, \A k \in 1 .. n : f[k] \in Int, Ascends(f),
         NEW c \in Int
  PROVE  LET v == Cardinality({k \in DOMAIN f : f[k] <= c})
         IN  v \in 0 .. n /\ \A k \in 1 .. n : f[k] <= c <=> k <= v
<1> DEFINE U == {k \in DOMAIN f : f[k] <= c}
<1>1. n \in Nat /\ DOMAIN f = 1 .. n /\ \A k \in 1 .. n : f[k] \in Int
  OBVIOUS
<1>2. \A k \in 1 .. n : k \in U <=> f[k] <= c
  BY <1>1
<1>3. U \subseteq 1 .. n
  BY <1>1
<1>4. \A j, k \in 1 .. n : j < k => f[j] < f[k]
  BY <1>1 DEF Ascends
<1> HIDE DEF U
<1>5. \E m \in 0 .. n : U = 1 .. m
  <2>1. CASE U = {}
    <3>1. 1 .. 0 = {} /\ 0 \in 0 .. n
      BY <1>1
    <3> QED
      BY <2>1, <3>1
  <2>2. CASE U # {}
    <3>1. U \in SUBSET Nat /\ IsFiniteSet(U)
      <4>0. IsFiniteSet(1 .. n) /\ U \in SUBSET (1 .. n)
        BY <1>1, <1>3, FS_Interval
      <4>1. IsFiniteSet(U)
        BY <4>0, FS_Subset
      <4>2. \A k \in 1 .. n : k \in Nat
        BY <1>1
      <4> QED
        BY <1>3, <4>1, <4>2
    <3>2. PICK m \in U : \A k \in U : k <= m
      BY <2>2, <3>1, Greatest
    <3>3. m \in 1 .. n /\ f[m] <= c
      BY <1>2, <1>3, <3>2
    <3>4. \A k \in 1 .. m : k \in U
      <4> SUFFICES ASSUME NEW k \in 1 .. m
                   PROVE  k \in U
        OBVIOUS
      <4>1. k \in 1 .. n /\ (k = m \/ k < m)
        BY <1>1, <3>3
      <4>2. f[k] <= c
        BY <1>1, <1>4, <3>3, <4>1
      <4> QED
        BY <1>2, <4>1, <4>2
    <3>5. \A k \in U : k \in 1 .. m
      BY <1>1, <1>3, <3>2, <3>3
    <3>6. U \subseteq 1 .. m /\ 1 .. m \subseteq U
      BY <3>4, <3>5
    <3>7. U = 1 .. m
      BY <3>6
    <3>8. m \in 0 .. n
      BY <1>1, <3>3
    <3> QED
      BY <3>7, <3>8
  <2> QED
    BY <2>1, <2>2
<1>6. PICK m \in 0 .. n : U = 1 .. m
  BY <1>5
<1>7. m \in Nat /\ Cardinality(1 .. m) = m
  BY <1>1, <1>6, FS_Interval
<1>8. Cardinality(U) = m
  BY <1>6, <1>7
<1>9. \A k \in 1 .. n : f[k] <= c <=> k <= m
  BY <1>1, <1>2, <1>6
<1> QED
  BY <1>6, <1>8, <1>9 DEF U

LEMMA EdgesBelow ==
  ASSUME NEW edges \in Seq(0 .. Cutoff), Ascends(edges), NEW c \in Int
  PROVE  LET v == EdgesUpTo(edges, c)
         IN  /\ v \in 0 .. Len(edges)
             /\ \A k \in 1 .. Len(edges) : edges[k] <= c <=> k <= v
<1>1. Len(edges) \in Nat /\ DOMAIN edges = 1 .. Len(edges) /\ \A k \in 1 .. Len(edges) : edges[k] \in Int
  BY LenProperties, ElementOfSeq, LocalizeAssumption
<1> QED
  BY <1>1, AscendingCount DEF EdgesUpTo

LEMMA WindowHolds ==
  ASSUME NEW edges \in Seq(0 .. Cutoff), Ascends(edges), 1 <= Len(edges),
         NEW c \in Nat, c <= Cutoff, NEW v,
         v = EdgesUpTo(edges, c) \/ (v = 0 /\ c = 0)
  PROVE  /\ v \in 0 .. Len(edges)
         /\ BucketWindow(v, edges, Cutoff).lo <= c
         /\ c <= BucketWindow(v, edges, Cutoff).hi
<1> DEFINE n == Len(edges)
           w == BucketWindow(v, edges, Cutoff)
<1>1. n \in Nat /\ (\A k \in 1 .. n : edges[k] \in Nat) /\ 1 <= n
  <2>1. Cutoff \in Nat
    BY LocalizeAssumption
  <2>2. n \in Nat /\ \A k \in 1 .. n : edges[k] \in 0 .. Cutoff
    BY LenProperties, ElementOfSeq
  <2> HIDE DEF n
  <2> QED
    BY <2>1, <2>2 DEF n
<1>2. v \in 0 .. n /\ \A k \in 1 .. n : IF k <= v THEN edges[k] <= c ELSE c <= edges[k]
  <2>1. CASE v = EdgesUpTo(edges, c)
    <3>1. v \in 0 .. n /\ \A k \in 1 .. n : edges[k] <= c <=> k <= v
      BY <2>1, EdgesBelow
    <3> HIDE DEF n
    <3> QED
      BY <1>1, <3>1
  <2>2. CASE v = 0 /\ c = 0
    <3> HIDE DEF n
    <3> QED
      BY <1>1, <2>2
  <2> QED
    BY <2>1, <2>2
<1>3. CASE v = 0
  <2>1. w = [lo |-> 0, hi |-> edges[1]]
    BY <1>3 DEF BucketWindow
  <2>2. 1 \in 1 .. n /\ ~(1 <= v)
    <3> HIDE DEF n
    <3> QED
      BY <1>1, <1>3
  <2> HIDE DEF n, w
  <2>3. v \in 0 .. n /\ w.lo <= c /\ c <= w.hi
    BY <1>2, <2>1, <2>2
  <2> QED
    BY <2>3 DEF n, w
<1>4. CASE v \in 1 .. n - 1
  <2>1. v # 0 /\ ~(v >= n) /\ v \in 1 .. n /\ v + 1 \in 1 .. n /\ v <= v /\ ~(v + 1 <= v)
    <3> HIDE DEF n
    <3> QED
      BY <1>1, <1>4
  <2>2. w = [lo |-> edges[v], hi |-> edges[v + 1]]
    BY <1>4, <2>1 DEF BucketWindow
  <2> HIDE DEF n, w
  <2>3. v \in 0 .. n /\ w.lo <= c /\ c <= w.hi
    BY <1>2, <2>1, <2>2
  <2> QED
    BY <2>3 DEF n, w
<1>5. CASE v = n
  <2>1. v # 0 /\ v \notin 1 .. n - 1 /\ v >= n /\ n \in 1 .. n /\ n <= v
    <3> HIDE DEF n
    <3> QED
      BY <1>1, <1>5
  <2>2. w = [lo |-> edges[n], hi |-> Cutoff]
    BY <2>1 DEF BucketWindow
  <2> HIDE DEF n, w
  <2>3. v \in 0 .. n /\ w.lo <= c /\ c <= w.hi
    BY <1>2, <2>1, <2>2
  <2> QED
    BY <2>3 DEF n, w
<1>6. v = 0 \/ v \in 1 .. n - 1 \/ v = n
  <2> HIDE DEF n
  <2> QED
    BY <1>1, <1>2
<1> QED
  BY <1>3, <1>4, <1>5, <1>6

(***************************************************************************)
(* The bucket of the rows at a place p that is reached: that of the last   *)
(* number at or before p, if the databases have that block, and the first  *)
(* bucket if there is none.                                                *)
(***************************************************************************)
LEMMA PlaceInSnapshot ==
  ASSUME NEW t \in Tables, t # "epoch", NEW x \in Databases[t], NEW d \in DB, NEW i \in At(x, d),
         NEW p \in Pos, Reaches(t, x, d, p), NEW r \in PlaceRows(t, x, d, p)
  PROVE  LET S == x.history[d][i]
         IN  /\ WellTyped(S) /\ InChainOrder(S) /\ Linked(S) /\ AnchorSpine(t) \in Spine
             /\ r \in TableRows(t, S) /\ r.pos = p /\ p # 0
             /\ \E q \in S[AnchorSpine(t)] : q.id = Anchor(t, r) /\ q.pos = p
<1> DEFINE S == x.history[d][i]
           u == IF t = "owner" THEN "leaf" ELSE t
<1>1. WellTyped(S) /\ InChainOrder(S) /\ Linked(S)
  BY SnapshotsGood DEF At
<1>2. Below(x, p) /\ p # 0
  BY ReachedIsSettled DEF Reaches
<1>3. u \in Spine \cup {"committee"} /\ \A Q : TableRows(t, Q) = Q[u]
  BY TableKinds DEF Spine
<1>4. r \in x.history[d][1][u] /\ r.pos = p
  BY <1>3 DEF PlaceRows
<1>5. r \in S[u]
  BY <1>2, <1>3, <1>4, SettledIn
<1> HIDE DEF S
<1>6. \E q \in S[AnchorSpine(t)] : q.id = Anchor(t, r) /\ q.pos = p
  <2>1. CASE t \in {"tx", "leaf", "committee"}
    <3>1. u = t /\ Parent(t) = AnchorSpine(t) /\ Anchor(t, r) = r.key
      BY <2>1, TableKinds DEF u, Anchor
    <3> QED
      BY <1>1, <1>2, <1>4, <1>5, <2>1, <3>1 DEF Linked
  <2>2. CASE t \in {"block", "owner"}
    <3>1. u = AnchorSpine(t) /\ Anchor(t, r) = r.id
      BY <2>2, TableKinds DEF u, Anchor
    <3> QED
      BY <1>4, <1>5, <3>1
  <2> QED
    BY <2>1, <2>2, TableKinds
<1>7. AnchorSpine(t) \in Spine /\ r \in TableRows(t, S)
  BY <1>3, <1>5, TableKinds
<1> QED
  BY <1>1, <1>2, <1>4, <1>6, <1>7 DEF S

(* The last number at or before a place, or -1. *)
MarkOf(p) == IF \E n \in Numbered : n <= p THEN LastNumber[p] ELSE -1

(* Database d has the block of the last number at or before p. *)
HasMark(x, d, p) ==
  \E q \in Numbered : /\ q <= p /\ LastNumber[p] = BlockNo[q]
                      /\ \A n \in Numbered : n <= p => n <= q
                      /\ \E b \in x.history[d][1]["block"] : b.pos = q

LEMMA MarkType ==
  ASSUME NEW p \in Pos
  PROVE  /\ MarkOf(p) \in Int /\ LastNumber[p] \in Nat
         /\ p \in Numbered => LastNumber[p] = BlockNo[p] /\ MarkOf(p) = BlockNo[p]
         /\ (\A n \in Numbered : ~(n <= p)) => LastNumber[p] = 0 /\ MarkOf(p) = -1
<1>1. LastNumber[p] \in Nat
  BY LastNumberIs, PlacesType
<1>2. ASSUME p \in Numbered
      PROVE  LastNumber[p] = BlockNo[p] /\ MarkOf(p) = BlockNo[p]
  <2>1. p \in Nat /\ p <= p
    BY PlacesType
  <2>2. PICK q \in Numbered : /\ q <= p /\ LastNumber[p] = BlockNo[q]
                              /\ \A n \in Numbered : n <= p => n <= q
    BY <1>2, <2>1, LastNumberIs
  <2>3. q \in Nat /\ p <= q
    BY <1>2, <2>1, <2>2, PlacesType
  <2>4. q = p
    BY <2>1, <2>2, <2>3
  <2> QED
    BY <1>2, <2>1, <2>2, <2>4 DEF MarkOf
<1>3. (\A n \in Numbered : ~(n <= p)) => LastNumber[p] = 0 /\ MarkOf(p) = -1
  BY LastNumberIs DEF MarkOf
<1> QED
  BY <1>1, <1>2, <1>3 DEF MarkOf

LEMMA PlaceMarked ==
  ASSUME NEW t \in Tables, t # "epoch", NEW x \in Databases[t], NEW d \in DB, NEW i \in At(x, d),
         NEW p \in Pos, Reaches(t, x, d, p), NEW r \in PlaceRows(t, x, d, p), NEW edge \in Nat,
         BoundaryId(x.history[d][i], AnchorSpine(t), edge) # None,
         \/ p \in Numbered
         \/ \A n \in Numbered : ~(n <= p)
         \/ t = "block" /\ HasMark(x, d, p)
  PROVE  BoundaryId(x.history[d][i], AnchorSpine(t), edge) <= Anchor(t, r) <=> edge <= MarkOf(p)
<1> DEFINE S == x.history[d][i]
           v == AnchorSpine(t)
           bound == BoundaryId(S, v, edge)
<1>1. /\ WellTyped(S) /\ InChainOrder(S) /\ Linked(S) /\ v \in Spine
      /\ r \in TableRows(t, S) /\ r.pos = p /\ p # 0
      /\ \E q \in S[v] : q.id = Anchor(t, r) /\ q.pos = p
  BY PlaceInSnapshot
<1>2. PICK a \in S[v] : a.id = Anchor(t, r) /\ a.pos = p
  BY <1>1
<1>3. bound # None
  OBVIOUS
<1>4. bound \in Nat
  BY <1>1, <1>3, BoundaryType
<1>5. ASSUME \A n \in Numbered : n <= p => BlockNo[n] < edge
      PROVE  ~(bound <= Anchor(t, r))
  <2> HIDE DEF S, v
  <2>1. ~(BoundaryId(S, v, edge) <= a.id)
    BY <1>1, <1>2, <1>3, <1>5, BoundaryAbove
  <2> QED
    BY <1>2, <2>1
<1>6. CASE p \in Numbered
  <2>1. bound <= Anchor(t, r) <=> edge <= BlockNo[r.pos]
    <3> HIDE DEF S
    <3> QED
      BY <1>1, <1>3, <1>6, AnchorReached
  <2> QED
    BY <1>1, <1>6, <2>1, MarkType
<1>7. CASE \A n \in Numbered : ~(n <= p)
  <2>1. MarkOf(p) = -1 /\ ~(edge <= -1)
    BY <1>7, MarkType
  <2> QED
    BY <1>5, <1>7, <2>1
<1>8. CASE t = "block" /\ HasMark(x, d, p) /\ p \notin Numbered
  <2>1. PICK q \in Numbered : /\ q <= p /\ LastNumber[p] = BlockNo[q]
                              /\ \A n \in Numbered : n <= p => n <= q
                              /\ \E b \in x.history[d][1]["block"] : b.pos = q
    BY <1>8 DEF HasMark
  <2>2. MarkOf(p) = BlockNo[q] /\ BlockNo[q] \in Nat /\ q \in Nat /\ p \in Nat /\ q \in Pos /\ q < p
    <3>1. BlockNo[q] \in Nat /\ q \in Nat /\ p \in Nat /\ q \in Pos /\ q # p
      BY <1>8, <2>1, PlacesType
    <3> QED
      BY <2>1, <3>1 DEF MarkOf
  <2>3. PICK b \in x.history[d][1]["block"] : b.pos = q
    BY <2>1
  <2>4. b \in S["block"] /\ v = "block" /\ Anchor(t, r) = r.id /\ r \in S["block"]
    <3>1. Below(x, p)
      BY ReachedIsSettled DEF Reaches
    <3>2. Below(x, q)
      BY <2>1, <2>2, <3>1, EarlierBelow
    <3>3. b \in S["block"]
      BY <2>3, <3>2, SettledIn DEF Spine
    <3> QED
      BY <1>1, <1>8, <3>3, TableKinds DEF Anchor
  <2>5. b.id <= r.id /\ b.id \in Nat /\ r.id \in Nat
    <3> HIDE DEF S
    <3>1. b.id \in Nat /\ r.id \in Nat /\ (r.id <= b.id => p <= q)
      BY <1>1, <2>3, <2>4 DEF WellTyped, InChainOrder, Spine
    <3> QED
      BY <2>2, <3>1
  <2>6. bound <= b.id <=> edge <= BlockNo[q]
    <3> HIDE DEF S
    <3> QED
      BY <1>1, <1>3, <2>1, <2>3, <2>4, BoundaryReached
  <2>7. CASE edge <= BlockNo[q]
    <3>1. bound <= r.id
      <4> HIDE DEF bound
      <4> QED
        BY <1>4, <2>5, <2>6, <2>7
    <3> QED
      BY <2>2, <2>4, <2>7, <3>1
  <2>8. CASE ~(edge <= BlockNo[q])
    <3>1. ASSUME NEW n \in Numbered, n <= p
          PROVE  BlockNo[n] < edge
      <4>1. n <= q /\ n \in Nat /\ BlockNo[n] \in Nat
        BY <2>1, <3>1, PlacesType
      <4>2. n < q => BlockNo[n] < BlockNo[q]
        BY <2>1, LocalizeAssumption
      <4>3. n = q \/ n < q
        BY <2>2, <4>1
      <4> QED
        BY <2>2, <2>8, <4>1, <4>2, <4>3
    <3> QED
      BY <1>5, <2>2, <2>8, <3>1
  <2> QED
    BY <2>7, <2>8
<1> QED
  BY <1>6, <1>7, <1>8

LEMMA PlaceBucket ==
  ASSUME NEW t \in Tables, t # "epoch", NEW x \in Databases[t], NEW d \in DB, NEW i \in At(x, d),
         NEW edges \in Seq(0 .. Cutoff), NEW thr, Boundaries(t, x, d, i, edges, thr),
         NEW p \in Pos, Reaches(t, x, d, p), NEW r \in PlaceRows(t, x, d, p),
         \/ p \in Numbered
         \/ \A n \in Numbered : ~(n <= p)
         \/ t = "block" /\ HasMark(x, d, p)
  PROVE  WidthBucket(Anchor(t, r), thr) = EdgesUpTo(edges, MarkOf(p))
<1>1. /\ DOMAIN edges = 1 .. Len(edges) /\ DOMAIN thr = 1 .. Len(edges)
      /\ \A k \in 1 .. Len(edges) : edges[k] \in Nat
  BY LenProperties, ElementOfSeq, LocalizeAssumption DEF Boundaries
<1>2. \A k \in 1 .. Len(edges) : thr[k] <= Anchor(t, r) <=> edges[k] <= MarkOf(p)
  <2> SUFFICES ASSUME NEW k \in 1 .. Len(edges)
               PROVE  thr[k] <= Anchor(t, r) <=> edges[k] <= MarkOf(p)
    OBVIOUS
  <2>1. thr[k] # None /\ thr[k] = BoundaryId(x.history[d][i], AnchorSpine(t), edges[k])
    BY DEF Boundaries
  <2> QED
    BY <1>1, <2>1, PlaceMarked
<1>3. {k \in DOMAIN thr : thr[k] <= Anchor(t, r)} = {k \in DOMAIN edges : edges[k] <= MarkOf(p)}
  BY <1>1, <1>2
<1> QED
  BY <1>3 DEF WidthBucket, EdgesUpTo

(***************************************************************************)
(* If the databases differ at a place, they do in the bucket of its rows.  *)
(***************************************************************************)
BucketAt(t, x, d, l, thr, v) ==
  {r \in IdRangeRowsAt(t, x, d, l, None) : WidthBucket(Anchor(t, r), thr) = v}

LEMMA BucketAtType ==
  ASSUME NEW t \in Tables, t # "epoch", NEW x \in Databases[t], NEW d \in DB, NEW l \in Four(x, d),
         NEW thr, NEW v
  PROVE  LET B == BucketAt(t, x, d, l, thr, v)
         IN  /\ B \subseteq TableRows(t, x.history[d][l[4]])
             /\ IsFiniteSet(B) /\ l[4] \in At(x, d)
<1> DEFINE S == x.history[d][l[4]]
           B == BucketAt(t, x, d, l, thr, v)
<1>1. l[4] \in At(x, d)
  BY DEF Four
<1>2. WellTyped(S)
  BY <1>1, SnapshotsGood DEF At
<1>3. B \in SUBSET TableRows(t, S)
  BY DEF BucketAt, IdRangeRowsAt, Selected
<1> HIDE DEF S, B
<1>4. IsFiniteSet(TableRows(t, S))
  <2>1. t = "owner" \/ t \in Spine \cup {"committee"}
    BY TableKinds DEF Spine
  <2> QED
    BY <1>2, <2>1 DEF WellTyped, TableRows, Spine
<1>5. IsFiniteSet(B)
  BY <1>3, <1>4, FS_Subset
<1> QED
  BY <1>1, <1>3, <1>5 DEF B, S

LEMMA BucketTells ==
  ASSUME NEW t \in Tables, t # "epoch", NEW x \in Databases[t], x.tied,
         NEW p \in Pos, Told(t, x, 1, p), Told(t, x, 2, p), NEW v, NEW thr1, NEW thr2,
         \A r \in PlaceRows(t, x, 1, p) : WidthBucket(Anchor(t, r), thr1) = v,
         \A r \in PlaceRows(t, x, 2, p) : WidthBucket(Anchor(t, r), thr2) = v,
         NEW l1 \in Four(x, 1), NEW l2 \in Four(x, 2),
         SetHash(BucketAt(t, x, 1, l1, thr1, v)) = SetHash(BucketAt(t, x, 2, l2, thr2, v))
  PROVE  SetHash(PlaceRows(t, x, 1, p)) = SetHash(PlaceRows(t, x, 2, p))
<1> DEFINE R == BucketAt(t, x, 1, l1, thr1, v)
           T == BucketAt(t, x, 2, l2, thr2, v)
           A == {r \in R : r.pos = p}
           B == {r \in T : r.pos = p}
           S1 == x.history[1][l1[4]]
           S2 == x.history[2][l2[4]]
<1>0. 1 \in DB /\ 2 \in DB
  BY DEF DB
<1>1. A = PlaceRows(t, x, 1, p) /\ B = PlaceRows(t, x, 2, p)
  <2>1. /\ {r \in IdRangeRowsAt(t, x, 1, l1, None) : r.pos = p} = PlaceRows(t, x, 1, p)
        /\ {r \in IdRangeRowsAt(t, x, 2, l2, None) : r.pos = p} = PlaceRows(t, x, 2, p)
    BY <1>0, PlaceTold
  <2> QED
    BY <2>1 DEF BucketAt
<1>2. /\ IsFiniteSet(R) /\ IsFiniteSet(T)
      /\ R \subseteq TableRows(t, S1) /\ T \subseteq TableRows(t, S2)
      /\ l1[4] \in At(x, 1) /\ l2[4] \in At(x, 2)
  BY <1>0, BucketAtType
<1>3. TellsPlace(t, S1, S1) /\ TellsPlace(t, S1, S2) /\ TellsPlace(t, S2, S2)
  <2>1. \A d, e \in {1, 2} : \A i \in 1 .. Len(x.history[d]), j \in 1 .. Len(x.history[e]) :
          TellsPlace(t, x.history[d][i], x.history[e][j])
    BY DatabasesAssumption
  <2> QED
    BY <1>2, <2>1 DEF At
<1>4. SetHash(R) = SetHash(T) /\ A \in SUBSET R /\ B \in SUBSET T
  OBVIOUS
<1> HIDE DEF R, T, S1, S2
<1>5. /\ \A r, q \in R : r.content = q.content => (r \in A <=> q \in A)
      /\ \A r \in R, q \in T : r.content = q.content => (r \in A <=> q \in B)
      /\ \A r, q \in T : r.content = q.content => (r \in B <=> q \in B)
  BY <1>2, <1>3 DEF TellsPlace
<1> HIDE DEF A, B
<1>6. SetHash(A) = SetHash(B)
  BY <1>2, <1>4, <1>5, SamePartSameHash
<1> QED
  BY <1>1, <1>6

-----------------------------------------------------------------------------
(***************************************************************************)
(* What localize_buckets found: the windows of the buckets whose hashes    *)
(* differed, for the snapshots that its queries saw.                       *)
(***************************************************************************)
DifferentBuckets(t, x, k, l1, l2) ==
  {v \in 0 .. Len(k.edges) :
     SetHash(BucketAt(t, x, 1, l1, k.thresholds[1], v)) # SetHash(BucketAt(t, x, 2, l2, k.thresholds[2], v))}

BucketsFound(t, x, k, l1, l2) ==
  LET differs == Ascending(DifferentBuckets(t, x, k, l1, l2))
  IN  [i \in DOMAIN differs |-> BucketWindow(differs[i], k.edges, Cutoff)]

BucketInv ==
  Len(kept.edges) >= 2 =>
    /\ ByBuckets
    /\ pc \in {"nullrows", "done"} /\ "windows" \notin errors =>
         \E l1 \in Four(dbs, 1), l2 \in Four(dbs, 2) : found = BucketsFound(table, dbs, kept, l1, l2)

LEMMA LooksLater ==
  ASSUME NEW d \in DB, now[d] \in At(dbs, d), NEW l \in Looks(d, now[d])
  PROVE  l \in Four(dbs, d) /\ now[d] <= l[4]
<1>1. l \in Four(dbs, d) /\ \A k \in {l[1], l[2], l[3], l[4]} : k \in At(dbs, d)
  BY LooksIn
<1>2. l[1] <= l[2] /\ l[2] <= l[3] /\ l[3] <= l[4] /\ l[1] \in From(d, now[d])
  BY DEF Looks
<1>3. now[d] <= l[1] /\ \A k \in {l[1], l[2], l[3], l[4], now[d]} : k \in Int
  BY <1>1, <1>2 DEF From, At
<1> QED
  BY <1>1, <1>2, <1>3

(* What one database answers, bucket by bucket. *)
LEMMA BucketsSay ==
  ASSUME NEW d \in DB, now[d] \in At(dbs, d), NEW a \in BucketHashes(d)
  PROVE  \E l \in Four(dbs, d) :
           /\ now[d] <= l[4]
           /\ \A v \in 0 .. Len(kept.edges) :
                a.says[v] = SetHash(BucketAt(table, dbs, d, l, kept.thresholds[d], v))
<1> DEFINE H(l) == [v \in 0 .. Len(kept.edges) |->
                      SetHash({r \in IdRangeRows(d, l, None) : BucketOf(d, r) = v})]
<1>1. BucketHashes(d) = {[says |-> H(l), at |-> l[4]] : l \in Looks(d, now[d])}
  BY DEF BucketHashes, Answers
<1>2. \A l : \A v \in 0 .. Len(kept.edges) :
        H(l)[v] = SetHash(BucketAt(table, dbs, d, l, kept.thresholds[d], v))
  <2>1. \A l : IdRangeRows(d, l, None) = IdRangeRowsAt(table, dbs, d, l, None)
    BY DEF IdRangeRows, IdRangeRowsAt, RangesAt, Snapshot
  <2>2. \A r : BucketOf(d, r) = WidthBucket(Anchor(table, r), kept.thresholds[d])
    BY DEF BucketOf
  <2> QED
    BY <2>1, <2>2 DEF BucketAt
<1> HIDE DEF H
<1>3. PICK l \in Looks(d, now[d]) : a.says = H(l)
  BY <1>1
<1>4. l \in Four(dbs, d) /\ now[d] <= l[4]
  BY LooksLater
<1> QED
  BY <1>2, <1>3, <1>4

LEMMA HashFinds ==
  ASSUME LocalizeInv, HashBuckets
  PROVE  \E l1 \in Four(dbs, 1), l2 \in Four(dbs, 2) :
           /\ now[1] <= l1[4] /\ now[2] <= l2[4]
           /\ found' = BucketsFound(table, dbs, kept, l1, l2)
<1>1. PICK a \in BucketHashes(1), b \in BucketHashes(2) :
        LET differs == Ascending({v \in 0 .. Len(kept.edges) : a.says[v] # b.says[v]})
        IN  found' = [i \in DOMAIN differs |-> BucketWindow(differs[i], kept.edges, Cutoff)]
  BY DEF HashBuckets
<1>2. 1 \in DB /\ 2 \in DB /\ \A d \in DB : now[d] \in At(dbs, d)
  BY DEF LocalizeInv, InputInv, DB
<1>3. PICK l1 \in Four(dbs, 1) :
        /\ now[1] <= l1[4]
        /\ \A v \in 0 .. Len(kept.edges) :
             a.says[v] = SetHash(BucketAt(table, dbs, 1, l1, kept.thresholds[1], v))
  BY <1>2, BucketsSay
<1>4. PICK l2 \in Four(dbs, 2) :
        /\ now[2] <= l2[4]
        /\ \A v \in 0 .. Len(kept.edges) :
             b.says[v] = SetHash(BucketAt(table, dbs, 2, l2, kept.thresholds[2], v))
  BY <1>2, BucketsSay
<1>5. {v \in 0 .. Len(kept.edges) : a.says[v] # b.says[v]} = DifferentBuckets(table, dbs, kept, l1, l2)
  BY <1>3, <1>4 DEF DifferentBuckets
<1>6. found' = BucketsFound(table, dbs, kept, l1, l2)
  BY <1>1, <1>5 DEF BucketsFound
<1> QED
  BY <1>3, <1>4, <1>6

(* The inductive invariant of the buckets, on top of LocalizeInv. *)
THEOREM BucketInvariance == Spec => []BucketInv
<1>1. Init => BucketInv
  <2>1. Init => kept = NothingKept
    BY DEF Init
  <2> QED
    BY <2>1, NothingIsKept DEF BucketInv
<1>2. LocalizeInv /\ BucketInv /\ [Next]_vars => BucketInv'
  <2> SUFFICES ASSUME LocalizeInv, BucketInv, [Next]_vars
               PROVE  BucketInv'
    OBVIOUS
  <2>1. CASE Align
    <3>1. pc = "align" /\ ByBuckets /\ UNCHANGED <<table, method>> /\ pc' \in {"search", "hash"}
      BY <2>1 DEF Align, input, LocalizeInv, CourseInv
    <3> QED
      BY <3>1 DEF BucketInv, ByBuckets, OnEpochs
  <2>2. CASE HashBuckets
    <3>1. UNCHANGED <<table, method, dbs, kept>>
      BY <2>2 DEF HashBuckets, input
    <3> QED
      BY <2>2, <3>1, HashFinds DEF BucketInv, ByBuckets, OnEpochs
  <2>3. CASE Prune \/ Report \/ Split
    <3>1. pc' = "search" /\ UNCHANGED <<table, method, kept>>
      BY <2>3 DEF Prune, Report, Split, Searching, input
    <3> QED
      BY <3>1 DEF BucketInv, ByBuckets, OnEpochs
  <2>4. CASE Stop
    <3>1. pc = "search" /\ UNCHANGED <<table, method, kept>>
      BY <2>4 DEF Stop, input
    <3>2. ~(Len(kept.edges) >= 2)
      BY <3>1 DEF BucketInv, LocalizeInv, CourseInv
    <3> QED
      BY <3>1, <3>2 DEF BucketInv
  <2>5. CASE SearchFails
    <3>1. "windows" \in errors' /\ UNCHANGED <<table, method, kept>>
      BY <2>5 DEF SearchFails, input
    <3> QED
      BY <3>1 DEF BucketInv, ByBuckets, OnEpochs
  <2>6. CASE CheckNullRows
    <3>1. /\ pc = "nullrows" /\ UNCHANGED <<table, method, dbs, kept, found>>
          /\ "windows" \in errors => "windows" \in errors'
      BY <2>6 DEF CheckNullRows, input
    <3> QED
      BY <3>1 DEF BucketInv, ByBuckets, OnEpochs
  <2>7. CASE Finished \/ UNCHANGED vars
    <3>1. UNCHANGED <<table, method, dbs, kept, found, pc, errors>>
      BY <2>7 DEF Finished, vars, input
    <3> QED
      BY <3>1 DEF BucketInv, ByBuckets, OnEpochs
  <2> QED
    BY <2>1, <2>2, <2>3, <2>4, <2>5, <2>6, <2>7 DEF Next
<1>3. Spec => []LocalizeInv
  BY LocalizeInvariance
<1> QED
  BY <1>1, <1>2, <1>3, PTL DEF Spec

-----------------------------------------------------------------------------
(***************************************************************************)
(* A place where the databases differ is in the window of a bucket found.  *)
(***************************************************************************)
LEMMA FoundHolds ==
  ASSUME NEW t \in Tables, NEW x \in Databases[t], NEW k \in Alignments(t, x), Len(k.edges) >= 2,
         NEW l1, NEW l2, NEW v \in DifferentBuckets(t, x, k, l1, l2),
         NEW c \in Nat, c <= Cutoff, v = EdgesUpTo(k.edges, c) \/ (v = 0 /\ c = 0)
  PROVE  Holds(BucketsFound(t, x, k, l1, l2), c)
<1> DEFINE V == DifferentBuckets(t, x, k, l1, l2)
           f == Ascending(V)
           F == BucketsFound(t, x, k, l1, l2)
<1>1. k.edges \in Seq(0 .. Cutoff) /\ Ascends(k.edges) /\ Len(k.edges) \in Nat /\ 1 <= Len(k.edges)
  <2>1. k.edges \in Seq(0 .. Cutoff) /\ Ascends(k.edges)
    BY AlignedKeeps
  <2>2. Len(k.edges) \in Nat
    BY <2>1, LenProperties
  <2> QED
    BY <2>1, <2>2
<1>2. V \in SUBSET Nat /\ IsFiniteSet(V)
  <2>1. V \in SUBSET (0 .. Len(k.edges))
    BY DEF DifferentBuckets
  <2>2. IsFiniteSet(0 .. Len(k.edges))
    BY <1>1, FS_Interval
  <2>3. V \in SUBSET Nat
    BY <1>1 DEF DifferentBuckets
  <2> HIDE DEF V
  <2> QED
    BY <2>1, <2>2, <2>3, FS_Subset
<1>3. F = [i \in DOMAIN f |-> BucketWindow(f[i], k.edges, Cutoff)]
  BY DEF BucketsFound
<1>4. v \in V
  OBVIOUS
<1> HIDE DEF V
<1>5. \E i \in DOMAIN f : f[i] = v
  BY <1>2, <1>4, AscendingIs
<1> HIDE DEF f
<1>6. BucketWindow(v, k.edges, Cutoff).lo <= c /\ c <= BucketWindow(v, k.edges, Cutoff).hi
  BY <1>1, WindowHolds
<1> HIDE DEF F
<1>7. Holds(F, c)
  BY <1>3, <1>5, <1>6 DEF Holds
<1> QED
  BY <1>7 DEF F

LEMMA PlaceFound ==
  ASSUME NEW t \in Tables, t # "epoch", NEW x \in Databases[t], x.tied,
         NEW k \in Alignments(t, x), Len(k.edges) >= 2,
         NEW l1 \in Four(x, 1), NEW l2 \in Four(x, 2),
         NEW p \in Pos, Told(t, x, 1, p), Told(t, x, 2, p),
         SetHash(PlaceRows(t, x, 1, p)) # SetHash(PlaceRows(t, x, 2, p)),
         \/ p \in Numbered
         \/ \A n \in Numbered : ~(n <= p)
         \/ t = "block" /\ HasMark(x, 1, p) /\ HasMark(x, 2, p)
  PROVE  Holds(BucketsFound(t, x, k, l1, l2), LastNumber[p])
<1> DEFINE c == LastNumber[p]
           v == EdgesUpTo(k.edges, MarkOf(p))
<1>0. 1 \in DB /\ 2 \in DB
  BY DEF DB
<1>1. /\ k.edges \in Seq(0 .. Cutoff) /\ Ascends(k.edges)
      /\ \A d \in DB : \E i \in At(x, d) : Boundaries(t, x, d, i, k.edges, k.thresholds[d])
  BY AlignedKeeps
<1>2. \A d \in DB : \A r \in PlaceRows(t, x, d, p) : WidthBucket(Anchor(t, r), k.thresholds[d]) = v
  <2> SUFFICES ASSUME NEW d \in DB, NEW r \in PlaceRows(t, x, d, p)
               PROVE  WidthBucket(Anchor(t, r), k.thresholds[d]) = v
    OBVIOUS
  <2>1. PICK i \in At(x, d) : Boundaries(t, x, d, i, k.edges, k.thresholds[d])
    BY <1>1
  <2>2. Reaches(t, x, d, p) /\ (t = "block" => HasMark(x, d, p) \/ p \in Numbered \/ \A n \in Numbered : ~(n <= p))
    <3>1. PlaceRows(t, x, d, p) # {} /\ Told(t, x, d, p)
      BY DEF DB
    <3>2. PICK l \in Four(x, d) : TRUE
      BY DEF DB
    <3> QED
      BY <3>1, PlaceTold DEF DB
  <2> QED
    BY <1>1, <2>1, <2>2, PlaceBucket
<1>3. MarkOf(p) \in Int /\ c \in Nat
  BY MarkType
<1>4. v \in 0 .. Len(k.edges) /\ \A i \in 1 .. Len(k.edges) : k.edges[i] <= MarkOf(p) <=> i <= v
  BY <1>1, <1>3, EdgesBelow
<1>5. v \in DifferentBuckets(t, x, k, l1, l2)
  <2> HIDE DEF v
  <2>1. SetHash(BucketAt(t, x, 1, l1, k.thresholds[1], v)) # SetHash(BucketAt(t, x, 2, l2, k.thresholds[2], v))
    BY <1>0, <1>2, BucketTells
  <2> QED
    BY <1>4, <2>1 DEF DifferentBuckets
<1>6. c <= Cutoff
  <2>0. \E d \in DB : Reaches(t, x, d, p)
    <3>1. PlaceRows(t, x, 1, p) # {} \/ PlaceRows(t, x, 2, p) # {}
      BY DEF PlaceRows
    <3> QED
      BY <1>0, <3>1, PlaceTold
  <2> PICK d \in DB : Reaches(t, x, d, p)
    BY <2>0
  <2>1. PICK b \in x.history[d][1]["block"] : p <= b.pos /\ Between(b.key, 0, SettledOf(t, x))
    BY DEF Reaches
  <2>2. b.pos \in Numbered /\ b.key = BlockNo[b.pos] /\ b.key \in Nat /\ b.key <= Cutoff
    BY <2>1, ReachedIsSettled
  <2>3. CASE c = 0
    BY <2>3, LocalizeAssumption
  <2>4. ASSUME NEW q \in Numbered, q <= p, c = BlockNo[q]
        PROVE  c <= Cutoff
    <3>1. q \in Nat /\ p \in Nat /\ b.pos \in Nat /\ BlockNo[q] \in Nat /\ Cutoff \in Nat
      BY <2>2, PlacesType, LocalizeAssumption
    <3>2. q < b.pos => BlockNo[q] < BlockNo[b.pos]
      BY <2>2, LocalizeAssumption
    <3>3. q = b.pos \/ q < b.pos
      BY <2>1, <2>4, <3>1
    <3> HIDE DEF c
    <3> QED
      BY <2>2, <2>4, <3>1, <3>2, <3>3
  <2> QED
    BY <2>3, <2>4, LastNumberIs
<1>7. v = EdgesUpTo(k.edges, c) \/ (v = 0 /\ c = 0)
  <2>1. CASE \E n \in Numbered : n <= p
    BY <2>1 DEF MarkOf
  <2>2. CASE \A n \in Numbered : ~(n <= p)
    <3>1. MarkOf(p) = -1 /\ c = 0
      BY <2>2, MarkType
    <3>2. 1 \in 1 .. Len(k.edges) /\ k.edges[1] \in Nat /\ Len(k.edges) \in Nat
      <4>1. Len(k.edges) \in Nat /\ (1 \in 1 .. Len(k.edges) => k.edges[1] \in 0 .. Cutoff) /\ Cutoff \in Nat
        BY <1>1, LenProperties, ElementOfSeq, LocalizeAssumption
      <4> QED
        BY <4>1
    <3>3. ~(k.edges[1] <= MarkOf(p))
      BY <3>1, <3>2
    <3> HIDE DEF v
    <3>4. ~(1 <= v)
      BY <1>4, <3>2, <3>3
    <3>5. v = 0
      BY <1>4, <3>2, <3>4
    <3> QED
      BY <3>1, <3>5
  <2> QED
    BY <2>1, <2>2
<1> HIDE DEF v, c
<1>8. Holds(BucketsFound(t, x, k, l1, l2), c)
  BY <1>3, <1>5, <1>6, <1>7, FoundHolds
<1> QED
  BY <1>8 DEF c

(* Where the databases agree on a block, both have it: one of them does. *)
LEMMA BlocksInBoth ==
  ASSUME NEW x, "block" \in Tables, x \in Databases["block"], NEW q \in Numbered,
         Reaches("block", x, 1, q),
         SetHash(PlaceRows("block", x, 1, q)) = SetHash(PlaceRows("block", x, 2, q))
  PROVE  \A d \in DB : \E b \in x.history[d][1]["block"] : b.pos = q
<1>0. 1 \in DB /\ 2 \in DB /\ "block" # "epoch"
  BY DEF DB
<1>1. \A d \in DB : PlaceRows("block", x, d, q) = {b \in x.history[d][1]["block"] : b.pos = q}
  BY <1>0, TableKinds DEF PlaceRows
<1>2. BlockNo[q] <= x.settled
  <2>1. PICK b \in x.history[1][1]["block"] : q <= b.pos /\ Between(b.key, 0, SettledOf("block", x))
    BY DEF Reaches
  <2>2. q \in Pos /\ q \in Nat /\ BlockNo[q] \in Nat /\ x.settled \in Nat
    BY PlacesType, DatabasesAssumption
  <2>3. b.pos \in Numbered /\ b.key = BlockNo[b.pos] /\ b.key \in Nat /\ b.key <= x.settled
    BY <1>0, <2>1, <2>2, ReachedIsSettled
  <2>4. q < b.pos => BlockNo[q] < BlockNo[b.pos]
    BY <2>3, LocalizeAssumption
  <2>5. b.pos \in Nat
    BY <2>3, PlacesType
  <2>6. q = b.pos \/ q < b.pos
    BY <2>1, <2>2, <2>5
  <2> QED
    BY <2>2, <2>3, <2>4, <2>6
<1>3. \E d \in DB : \E b \in x.history[d][1]["block"] : b.pos = q
  BY <1>2, DatabasesAssumption DEF DB
<1>4. {r.content : r \in PlaceRows("block", x, 1, q)} = {r.content : r \in PlaceRows("block", x, 2, q)}
  <2> DEFINE Kinds(R) == {r.content : r \in R}
  <2>1. \A R : DOMAIN SetHash(R).h = Kinds(R)
    BY DEF SetHash
  <2> HIDE DEF Kinds
  <2>2. Kinds(PlaceRows("block", x, 1, q)) = Kinds(PlaceRows("block", x, 2, q))
    BY <2>1
  <2> QED
    BY <2>2 DEF Kinds
<1>5. PlaceRows("block", x, 1, q) # {} /\ PlaceRows("block", x, 2, q) # {}
  <2>1. PlaceRows("block", x, 1, q) # {} \/ PlaceRows("block", x, 2, q) # {}
    BY <1>1, <1>3 DEF DB
  <2> HIDE DEF PlaceRows
  <2> QED
    BY <1>4, <2>1
<1> QED
  BY <1>1, <1>5 DEF DB

(***************************************************************************)
(* Between them the buckets see every settled row: where content tells a   *)
(* row's place, every place at which the databases differ, those of        *)
(* genesis and of epoch boundary blocks too, is in the window of a bucket  *)
(* reported (docs/05:208: it checks every window).                         *)
(***************************************************************************)
THEOREM BucketsMissNothing == Spec => []BucketsSeeAll
<1>1. LocalizeInv /\ BucketInv => BucketsSeeAll
  <2> SUFFICES ASSUME LocalizeInv, BucketInv, pc \in {"nullrows", "done"}, errors = {},
                      Len(kept.edges) >= 2, dbs.tied, NEW c \in Differing
               PROVE  \E w \in WindowsOf(found) : w.lo <= c /\ c <= w.hi
    BY DEF BucketsSeeAll
  <2>1. /\ table \in Tables /\ dbs \in Databases[table] /\ ~OnEpochs /\ table # "epoch"
        /\ kept \in Alignments(table, dbs)
    <3>1. kept # NothingKept
      BY NothingIsKept
    <3> QED
      BY <3>1 DEF LocalizeInv, InputInv, WindowInv, BucketInv, ByBuckets, OnEpochs
  <2>2. PICK l1 \in Four(dbs, 1), l2 \in Four(dbs, 2) : found = BucketsFound(table, dbs, kept, l1, l2)
    BY DEF BucketInv
  <2>3. 1 \in DB /\ 2 \in DB /\ \A d \in DB : 1 \in At(dbs, d)
    BY <2>1, SettledSame DEF DB
  <2>4. \A p : BothReach(p) <=> p > 0 /\ Reaches(table, dbs, 1, p) /\ Reaches(table, dbs, 2, p)
    BY TopIs DEF BothReach, Reaches, Snapshot, DB
  <2>5. PICK p \in Pos : /\ Reaches(table, dbs, 1, p) /\ Reaches(table, dbs, 2, p)
                         /\ SetHash(PlaceRows(table, dbs, 1, p)) # SetHash(PlaceRows(table, dbs, 2, p))
                         /\ c = LastNumber[p]
                         /\ \E d \in DB : PlaceRows(table, dbs, d, p) # {}
    <3> DEFINE D == {o \in {r.pos : r \in ChainRows(1) \cup ChainRows(2)} :
                       SetHash({r \in ChainRows(1) : r.pos = o}) # SetHash({r \in ChainRows(2) : r.pos = o})}
    <3>1. PICK p \in D : c = LastNumber[p]
      BY <2>1 DEF Differing, DifferAt
    <3>2. PICK d \in DB : \E r \in ChainRows(d) : r.pos = p
      BY <2>3, <3>1
    <3>9. PICK r \in ChainRows(d) : r.pos = p
      BY <3>2
    <3>3. BothReach(p) /\ r \in TableRows(table, dbs.history[d][1])
      BY <3>9 DEF ChainRows, Snapshot
    <3>4. p \in Pos
      <4>1. WellTyped(dbs.history[d][1])
        BY <2>1, <2>3, SnapshotsGood DEF At
      <4>2. table = "owner" \/ table \in Spine \cup {"committee"}
        BY <2>1, TableKinds DEF Spine
      <4>3. p = 0 \/ p \in Pos
        BY <3>3, <3>9, <4>1, <4>2 DEF TableRows, WellTyped, Spine
      <4> QED
        BY <3>3, <4>3 DEF BothReach
    <3>5. \A e \in DB : {q \in ChainRows(e) : q.pos = p} = PlaceRows(table, dbs, e, p)
      BY <3>3 DEF ChainRows, PlaceRows, Snapshot
    <3>6. SetHash({q \in ChainRows(1) : q.pos = p}) # SetHash({q \in ChainRows(2) : q.pos = p})
      BY <3>1
    <3>7. SetHash(PlaceRows(table, dbs, 1, p)) # SetHash(PlaceRows(table, dbs, 2, p))
      BY <2>3, <3>5, <3>6
    <3>8. PlaceRows(table, dbs, d, p) # {}
      BY <3>3, <3>9 DEF PlaceRows
    <3> QED
      BY <2>4, <3>1, <3>3, <3>4, <3>7, <3>8
  <2>6. Holds(found, c)
    <3>1. CASE p \in Numbered \/ \A n \in Numbered : ~(n <= p)
      BY <2>1, <2>2, <2>5, <3>1, PlaceFound DEF Told
    <3>2. CASE p \notin Numbered /\ \E n \in Numbered : n <= p
      <4>1. PICK q \in Numbered : /\ q <= p /\ LastNumber[p] = BlockNo[q]
                                  /\ \A n \in Numbered : n <= p => n <= q
        BY <2>5, <3>2, LastNumberIs
      <4>2. q \in Pos /\ q \in Nat /\ p \in Nat /\ q < p /\ LastNumber[q] = c
        <5>1. q \in Pos /\ q \in Nat /\ p \in Nat /\ q # p
          BY <2>5, <3>2, <4>1, PlacesType
        <5> QED
          BY <2>5, <4>1, <5>1, MarkType
      <4>3. table = "block"
        <5>0. PICK d \in DB : PlaceRows(table, dbs, d, p) # {}
          BY <2>5
        <5>1. PICK r \in PlaceRows(table, dbs, d, p) : TRUE
          BY <5>0
        <5>2. Linked(dbs.history[d][1])
          BY <2>1, <2>3, SnapshotsGood DEF At
        <5>3. \A u \in {"tx", "leaf", "committee"} : r \notin dbs.history[d][1][u]
          <6>1. r.pos = p /\ p # 0
            BY <4>2 DEF PlaceRows
          <6> QED
            BY <3>2, <4>1, <4>2, <5>2, <6>1 DEF Linked
        <5>4. r \in TableRows(table, dbs.history[d][1])
          BY DEF PlaceRows
        <5> QED
          BY <2>1, <5>3, <5>4, TableKinds
      <4>4. Reaches(table, dbs, 1, q) /\ Reaches(table, dbs, 2, q)
        <5>1. \A d \in DB : \A b \in dbs.history[d][1]["block"] : p <= b.pos => q <= b.pos
          <6>1. \A d \in DB : \A b \in dbs.history[d][1]["block"] : b.pos \in Nat
            BY <2>1, <2>3, SnapshotsGood, PlacesType DEF At, WellTyped, Spine
          <6> QED
            BY <4>2, <6>1
        <5> QED
          BY <2>3, <2>5, <5>1 DEF Reaches
      <4>5. CASE SetHash(PlaceRows(table, dbs, 1, q)) # SetHash(PlaceRows(table, dbs, 2, q))
        BY <2>1, <2>2, <4>1, <4>2, <4>4, <4>5, PlaceFound DEF Told
      <4>6. CASE SetHash(PlaceRows(table, dbs, 1, q)) = SetHash(PlaceRows(table, dbs, 2, q))
        <5>1. \A d \in DB : \E b \in dbs.history[d][1]["block"] : b.pos = q
          BY <2>1, <4>1, <4>3, <4>4, <4>6, BlocksInBoth
        <5>2. \A d \in DB : HasMark(dbs, d, p)
          BY <4>1, <5>1 DEF HasMark
        <5> QED
          BY <2>1, <2>2, <2>3, <2>5, <4>3, <5>2, PlaceFound DEF Told
      <4> QED
        BY <4>5, <4>6
    <3> QED
      BY <3>1, <3>2
  <2> QED
    BY <2>6 DEF Holds, WindowsOf
<1>2. Spec => []LocalizeInv
  BY LocalizeInvariance
<1>3. Spec => []BucketInv
  BY BucketInvariance
<1> QED
  BY <1>1, <1>2, <1>3, PTL

-----------------------------------------------------------------------------
(***************************************************************************)
(* Phase 2 implements the promise of module Localization (PromiseKept).    *)
(* The argument, from the bottom up:                                       *)
(*                                                                         *)
(*   - If two sets of rows hash differently, so do their rows at some      *)
(*     place (SameParts).                                                  *)
(*   - The rows of a window of numbers are at places between numbers of    *)
(*     that window (WindowSpans), those of a bucket at places whose last   *)
(*     number is in the bucket's window (BucketPlaces), although its       *)
(*     thresholds are older than its rows: no id is given out twice.       *)
(*   - So a window that differs holds a difference of settled rows, or     *)
(*     reaches beyond them (WindowWithin, BucketWithin).  The one place    *)
(*     that a window may cut off is an epoch boundary block next to a      *)
(*     block that a database lacks; then that block is the difference.     *)
(*   - Buckets miss no number, even one that only one database has         *)
(*     settled (NumberFound).                                              *)
(*   - Every step is a step of the promise or changes nothing in it.       *)
(***************************************************************************)

(***************************************************************************)
(* A set hash says how often each content occurs, and no more.             *)
(***************************************************************************)
WithContent(S, c) == {r \in S : r.content = c}

LEMMA HashSaysContents ==
  ASSUME NEW A, IsFiniteSet(A), NEW B, IsFiniteSet(B), SetHash(A) = SetHash(B), NEW c
  PROVE  Cardinality(WithContent(A, c)) = Cardinality(WithContent(B, c))
<1> DEFINE Kinds(S) == {r.content : r \in S}
           Count(S) == [k \in Kinds(S) |-> Cardinality(WithContent(S, k))]
<1>1. Count(A) = Count(B)
  BY DEF SetHash, WithContent
<1>2. DOMAIN Count(A) = Kinds(A) /\ DOMAIN Count(B) = Kinds(B)
  OBVIOUS
<1>3. /\ \A k \in Kinds(A) : Count(A)[k] = Cardinality(WithContent(A, k))
      /\ \A k \in Kinds(B) : Count(B)[k] = Cardinality(WithContent(B, k))
  OBVIOUS
<1>4. \A S : c \notin Kinds(S) => WithContent(S, c) = {}
  BY DEF WithContent
<1> HIDE DEF Kinds, Count
<1>5. CASE c \in Kinds(A)
  BY <1>1, <1>2, <1>3, <1>5
<1>6. CASE c \notin Kinds(A)
  BY <1>1, <1>2, <1>4, <1>6
<1> QED
  BY <1>5, <1>6

LEMMA ContentsSayHash ==
  ASSUME NEW A, IsFiniteSet(A), NEW B, IsFiniteSet(B),
         \A c : Cardinality(WithContent(A, c)) = Cardinality(WithContent(B, c))
  PROVE  SetHash(A) = SetHash(B)
<1> DEFINE Kinds(S) == {r.content : r \in S}
           Count(S) == [k \in Kinds(S) |-> Cardinality(WithContent(S, k))]
           C == [r \in A |-> r.content]
           D == [r \in B |-> r.content]
<1>1. \A c : {r \in A : C[r] = c} = WithContent(A, c) /\ {r \in B : D[r] = c} = WithContent(B, c)
  BY DEF WithContent
<1>2. SameClasses(A, C, B, D)
  <2> HIDE DEF C, D
  <2> QED
    BY <1>1 DEF SameClasses
<1>3. Cardinality(A) = Cardinality(B)
  <2> HIDE DEF C, D
  <2> QED
    BY <1>2, SameClassesSameSize
<1>4. \A c : IsFiniteSet(WithContent(A, c)) /\ IsFiniteSet(WithContent(B, c))
  <2> SUFFICES ASSUME NEW c
               PROVE  IsFiniteSet(WithContent(A, c)) /\ IsFiniteSet(WithContent(B, c))
    OBVIOUS
  <2>1. WithContent(A, c) \in SUBSET A /\ WithContent(B, c) \in SUBSET B
    BY DEF WithContent
  <2> QED
    BY <2>1, FS_Subset
<1>5. \A S, c : c \in Kinds(S) <=> WithContent(S, c) # {}
  BY DEF WithContent
<1>6. \A c : c \in Kinds(A) <=> c \in Kinds(B)
  <2> SUFFICES ASSUME NEW c
               PROVE  WithContent(A, c) = {} <=> WithContent(B, c) = {}
    BY <1>5
  <2> QED
    BY <1>4, FS_EmptySet
<1> HIDE DEF Kinds
<1>7. Kinds(A) = Kinds(B)
  <2>1. Kinds(A) \subseteq Kinds(B) /\ Kinds(B) \subseteq Kinds(A)
    BY <1>6
  <2> QED
    BY <2>1
<1>8. Count(A) = Count(B)
  BY <1>7
<1> HIDE DEF Count
<1>9. \A S : SetHash(S) = [n |-> Cardinality(S), h |-> Count(S)]
  BY DEF SetHash, Count, Kinds, WithContent
<1> QED
  BY <1>3, <1>8, <1>9

(* Hence if all parts of two sets have equal hashes, so have the sets. *)
Alike(R, C, T, D) == \A p : SetHash({r \in R : C[r] = p}) = SetHash({r \in T : D[r] = p})

LEMMA SameParts ==
  ASSUME NEW R, IsFiniteSet(R), NEW T, IsFiniteSet(T), NEW C, NEW D, Alike(R, C, T, D)
  PROVE  SetHash(R) = SetHash(T)
<1> DEFINE A(p) == {r \in R : C[r] = p}
           B(p) == {r \in T : D[r] = p}
<1>1. ASSUME NEW c
      PROVE  Cardinality(WithContent(R, c)) = Cardinality(WithContent(T, c))
  <2> DEFINE U == WithContent(R, c)
             V == WithContent(T, c)
  <2>1. \A p : {r \in U : C[r] = p} = WithContent(A(p), c) /\ {r \in V : D[r] = p} = WithContent(B(p), c)
    BY DEF WithContent
  <2>2. \A p : Cardinality(WithContent(A(p), c)) = Cardinality(WithContent(B(p), c))
    <3> SUFFICES ASSUME NEW p
                 PROVE  Cardinality(WithContent(A(p), c)) = Cardinality(WithContent(B(p), c))
      OBVIOUS
    <3>1. A(p) \in SUBSET R /\ B(p) \in SUBSET T /\ SetHash(A(p)) = SetHash(B(p))
      BY DEF Alike
    <3> HIDE DEF A, B
    <3>2. IsFiniteSet(A(p)) /\ IsFiniteSet(B(p))
      BY <3>1, FS_Subset
    <3> QED
      BY <3>1, <3>2, HashSaysContents
  <2>3. U \in SUBSET R /\ V \in SUBSET T
    BY DEF WithContent
  <2> HIDE DEF A, B, U, V
  <2>4. SameClasses(U, C, V, D)
    BY <2>1, <2>2 DEF SameClasses
  <2>5. IsFiniteSet(U) /\ IsFiniteSet(V)
    BY <2>3, FS_Subset
  <2> QED
    BY <2>4, <2>5, SameClassesSameSize DEF U, V
<1> QED
  BY <1>1, ContentsSayHash

-----------------------------------------------------------------------------
(***************************************************************************)
(* Where the rows of a range are: all those of table u with an id in range *)
(* are at the places a to z.                                               *)
(***************************************************************************)
Spans(S, u, range, a, z) ==
  \/ range = NoRange
  \/ /\ range.lo \in Nat /\ range.hi \in Nat
     /\ \A r \in S[u] : Between(r.id, range.lo, range.hi) => a <= r.pos /\ r.pos <= z

(* What a row with a block points at. *)
LEMMA PointsAt ==
  ASSUME NEW S, WellTyped(S), Linked(S), NEW v \in {"tx", "leaf", "committee"},
         NEW r \in S[v], r.key # None
  PROVE  r.pos \in Pos /\ \E o \in S[Parent(v)] : o.id = r.key /\ o.pos = r.pos
<1>1. r.pos \in Pos
  <2>1. CASE v = "committee"
    BY <2>1 DEF WellTyped
  <2>2. CASE v # "committee"
    BY <2>2 DEF WellTyped, Spine
  <2> QED
    BY <2>1, <2>2
<1>2. r.pos # 0
  BY <1>1, PlacesType
<1> QED
  BY <1>1, <1>2 DEF Linked

LEMMA KeySpans ==
  ASSUME NEW S, WellTyped(S), Linked(S), NEW v \in {"tx", "leaf", "committee"},
         NEW range, NEW a, NEW z, Spans(S, Parent(v), range, a, z),
         NEW r \in S[v], Between(r.key, range.lo, range.hi)
  PROVE  r.pos \in Pos /\ a <= r.pos /\ r.pos <= z
<1>1. range # NoRange /\ r.key # None
  BY DEF Between, NoRange
<1>2. r.pos \in Pos
  BY <1>1, PointsAt
<1>3. PICK o \in S[Parent(v)] : o.id = r.key /\ o.pos = r.pos
  BY <1>1, PointsAt
<1>4. Between(o.id, range.lo, range.hi)
  BY <1>3
<1>5. a <= o.pos /\ o.pos <= z
  BY <1>1, <1>4 DEF Spans
<1> QED
  BY <1>2, <1>3, <1>5

LEMMA ChildSpans ==
  ASSUME NEW S, WellTyped(S), InChainOrder(S), Linked(S), NEW v \in {"tx", "leaf"},
         NEW range, NEW a \in Int, NEW z \in Int, Spans(S, Parent(v), range, a, z)
  PROVE  Spans(S, v, ChildRange(S[v], range), a, z)
<1> DEFINE in == KeysIn(S[v], range.lo, range.hi)
           child == ChildRange(S[v], range)
<1>1. CASE range = NoRange
  BY <1>1 DEF ChildRange, NoRange, Spans
<1>2. CASE range # NoRange
  <2>1. range.lo \in Nat /\ range.hi \in Nat /\ range.lo # None
    BY <1>2, NoneAssumption DEF Spans
  <2>2. \A r \in in : r \in S[v] /\ a <= r.pos /\ r.pos <= z
    BY KeySpans DEF KeysIn
  <2>3. Sorted(in)
    <3>1. Sorted(S[v]) /\ in \in SUBSET S[v]
      BY SpineSorted DEF KeysIn
    <3> HIDE DEF in
    <3> QED
      BY <3>1, SortedSubset
  <2>4. child = Minmax(S[v], range.lo, range.hi)
    BY <2>1 DEF ChildRange
  <2>5. child = NoRange \/ \E f, l \in in : child.lo = f.id /\ child.hi = l.id
    BY <2>1, <2>3, <2>4, MinmaxSpans
  <2>6. /\ \A r \in S[v] : r.id \in Nat /\ r.pos \in Pos /\ r.pos \in Nat
        /\ \A r, q \in S[v] : r.id <= q.id => r.pos <= q.pos
    BY PlacesType DEF WellTyped, InChainOrder, Spine
  <2> HIDE DEF in, child
  <2>7. CASE child = NoRange
    BY <2>7 DEF Spans, child
  <2>8. ASSUME NEW f \in in, NEW l \in in, child.lo = f.id, child.hi = l.id
        PROVE  Spans(S, v, child, a, z)
    <3>1. child.lo \in Nat /\ child.hi \in Nat
      BY <2>2, <2>6, <2>8
    <3>2. ASSUME NEW r \in S[v], Between(r.id, child.lo, child.hi)
          PROVE  a <= r.pos /\ r.pos <= z
      <4>1. f.id <= r.id /\ r.id <= l.id
        BY <2>8, <3>2 DEF Between
      <4>2. f.pos <= r.pos /\ r.pos <= l.pos
        BY <2>2, <2>6, <4>1
      <4> QED
        BY <2>2, <2>6, <4>2
    <3> QED
      BY <3>1, <3>2 DEF Spans
  <2> QED
    BY <2>5, <2>7, <2>8 DEF child
<1> QED
  BY <1>1, <1>2

LEMMA SelectedSpans ==
  ASSUME NEW t \in Tables, t # "epoch", NEW S, WellTyped(S), InChainOrder(S), Linked(S),
         NEW range, NEW a, NEW z, Spans(S, AnchorSpine(t), range, a, z),
         NEW r \in Selected(t, S, range)
  PROVE  r.pos \in Pos /\ a <= r.pos /\ r.pos <= z
<1>1. r \in TableRows(t, S) /\ Between(Anchor(t, r), range.lo, range.hi)
  BY DEF Selected
<1>2. CASE t \in {"tx", "leaf", "committee"}
  <2>1. r \in S[t] /\ Anchor(t, r) = r.key /\ Parent(t) = AnchorSpine(t)
    BY <1>1, <1>2, TableKinds DEF Anchor
  <2> QED
    BY <1>1, <1>2, <2>1, KeySpans
<1>3. CASE t \in {"block", "owner"}
  <2>1. r \in S[AnchorSpine(t)] /\ Anchor(t, r) = r.id /\ AnchorSpine(t) \in Spine
    BY <1>1, <1>3, TableKinds DEF Anchor, TableRows
  <2>2. range # NoRange
    BY <1>1 DEF Between, NoRange
  <2>3. a <= r.pos /\ r.pos <= z
    BY <1>1, <2>1, <2>2 DEF Spans
  <2> QED
    BY <2>1, <2>3 DEF WellTyped
<1> QED
  BY <1>2, <1>3, TableKinds

(* The walk from a block range that spans a to z, in one snapshot. *)
LEMMA WalkSpans ==
  ASSUME NEW S, WellTyped(S), InChainOrder(S), Linked(S), NEW a \in Int, NEW z \in Int,
         NEW b, Spans(S, "block", b, a, z)
  PROVE  LET c == ChildRange(S["tx"], b)
         IN  Spans(S, "tx", c, a, z) /\ Spans(S, "leaf", ChildRange(S["leaf"], c), a, z)
<1>1. Parent("tx") = "block" /\ Parent("leaf") = "tx"
  BY DEF Parent
<1>2. Spans(S, "tx", ChildRange(S["tx"], b), a, z)
  BY <1>1, ChildSpans
<1> QED
  BY <1>1, <1>2, ChildSpans

(***************************************************************************)
(* The rows of a window are from between two blocks with numbers in it.    *)
(***************************************************************************)
LEMMA WindowSpans ==
  ASSUME NEW t \in Tables, t # "epoch", NEW x \in Databases[t], NEW d \in DB, NEW w \in Windows(t),
         NEW r \in RowsAtRest(t, x, d, w)
  PROVE  /\ r.pos \in Pos
         /\ \E f, l \in Numbered : /\ f <= r.pos /\ r.pos <= l
                                   /\ w.lo <= BlockNo[f] /\ BlockNo[l] <= w.hi
<1> DEFINE S == x.history[d][1]
           one == <<1, 1, 1, 1>>
           b == Minmax(S["block"], w.lo, w.hi)
           c == ChildRange(S["tx"], b)
           e == ChildRange(S["leaf"], c)
           R == RangesAt(x, d, one, <<w.lo, w.hi>>)
           in == KeysIn(S["block"], w.lo, w.hi)
<1>1. WellTyped(S) /\ InChainOrder(S) /\ Linked(S)
  <2>1. 1 \in At(x, d)
    BY SettledSame
  <2> QED
    BY <2>1, SnapshotsGood DEF At
<1>2. w.lo \in Nat /\ w.hi \in Nat
  BY LocalizeAssumption DEF Windows, TopOf
<1>3. R["block"] = b /\ R["tx"] = c /\ R["leaf"] = e
  <2>1. one[1] = 1 /\ one[2] = 1 /\ one[3] = 1
    OBVIOUS
  <2> HIDE DEF one
  <2> QED
    BY <1>2, <2>1, RangesAre
<1>4. r \in Selected(t, S, R[AnchorSpine(t)])
  BY DEF RowsAtRest, RowsAt, IdRangeRowsAt, one
<1>5. Sorted(in)
  <2> DEFINE keyed == {o \in S["block"] : o.key # None}
  <2>1. Sorted(keyed) /\ in \in SUBSET keyed
    BY <1>1, SpineSorted DEF KeysIn, Between
  <2> HIDE DEF keyed, in
  <2> QED
    BY <2>1, SortedSubset
<1>6. b = NoRange \/ \E f, l \in in : b.lo = f.id /\ b.hi = l.id
  BY <1>2, <1>5, MinmaxSpans
<1>7. \A o \in in : /\ o \in S["block"] /\ o.id \in Nat /\ o.pos \in Numbered
                    /\ w.lo <= BlockNo[o.pos] /\ BlockNo[o.pos] <= w.hi
  BY <1>1 DEF KeysIn, Between, WellTyped, InChainOrder, Spine, Numbered
<1>8. \A o, q \in S["block"] : o.id <= q.id => o.pos <= q.pos
  BY <1>1 DEF InChainOrder, Spine
<1>9. \A o \in S["block"] : o.id \in Nat
  BY <1>1 DEF WellTyped, Spine
<1> HIDE DEF S, b, c, e, R, in
<1>10. ASSUME NEW a \in Int, NEW z \in Int, Spans(S, "block", b, a, z)
       PROVE  r.pos \in Pos /\ a <= r.pos /\ r.pos <= z
  <2>1. Spans(S, "tx", c, a, z) /\ Spans(S, "leaf", e, a, z)
    BY <1>1, <1>10, WalkSpans DEF c, e
  <2>2. Spans(S, AnchorSpine(t), R[AnchorSpine(t)], a, z)
    BY <1>3, <1>10, <2>1, TableKinds DEF Spine
  <2> QED
    BY <1>1, <1>4, <2>2, SelectedSpans
<1>11. CASE b = NoRange
  <2>1. Spans(S, "block", b, 0, 0)
    BY <1>11 DEF Spans
  <2>2. r.pos \in Pos /\ r.pos <= 0
    BY <1>10, <2>1
  <2> QED
    BY <2>2, PlacesType
<1>12. ASSUME NEW f \in in, NEW l \in in, b.lo = f.id, b.hi = l.id
       PROVE  r.pos \in Pos /\ f.pos <= r.pos /\ r.pos <= l.pos
  <2>1. \A o \in S["block"] : Between(o.id, b.lo, b.hi) => f.pos <= o.pos /\ o.pos <= l.pos
    BY <1>7, <1>8, <1>9, <1>12 DEF Between
  <2>2. Spans(S, "block", b, f.pos, l.pos)
    BY <1>7, <1>12, <2>1 DEF Spans
  <2>3. f.pos \in Int /\ l.pos \in Int
    BY <1>7, PlacesType
  <2> QED
    BY <1>10, <2>2, <2>3
<1> QED
  BY <1>6, <1>7, <1>11, <1>12

-----------------------------------------------------------------------------
(***************************************************************************)
(* A window that differs holds a number at which the databases differ, or  *)
(* reaches beyond what both have settled.                                  *)
(***************************************************************************)
Within(w, C) == \E c \in C : w.lo <= c /\ c <= w.hi

LEMMA PlaceDiffers ==
  ASSUME InputInv, ~OnEpochs, NEW p \in Pos, BothReach(p),
         SetHash(PlaceRows(table, dbs, 1, p)) # SetHash(PlaceRows(table, dbs, 2, p))
  PROVE  LastNumber[p] \in Differing
<1> DEFINE Place(r) == r.pos
           D == DifferAt(ChainRows(1), ChainRows(2), Place)
<1>1. \A d \in DB : {r \in ChainRows(d) : r.pos = p} = PlaceRows(table, dbs, d, p)
  BY DEF ChainRows, PlaceRows, Snapshot
<1>2. 1 \in DB /\ 2 \in DB
  BY DEF DB
<1>3. SetHash({r \in ChainRows(1) : r.pos = p}) # SetHash({r \in ChainRows(2) : r.pos = p})
  BY <1>1, <1>2
<1>4. \E r \in ChainRows(1) \cup ChainRows(2) : r.pos = p
  <2> SUFFICES ASSUME \A r \in ChainRows(1) \cup ChainRows(2) : r.pos # p
               PROVE  FALSE
    OBVIOUS
  <2>1. {r \in ChainRows(1) : r.pos = p} = {} /\ {r \in ChainRows(2) : r.pos = p} = {}
    OBVIOUS
  <2> QED
    BY <1>3, <2>1
<1>5. p \in D
  BY <1>3, <1>4 DEF DifferAt
<1>6. Differing = {LastNumber[q] : q \in D}
  BY DEF Differing
<1> HIDE DEF D
<1> QED
  BY <1>5, <1>6

(* A settled numbered block that one database lacks is a difference. *)
LEMMA LackDiffers ==
  ASSUME InputInv, table = "block", NEW q \in Numbered, BothReach(q),
         NEW d \in DB, \A b \in dbs.history[d][1]["block"] : b.pos # q
  PROVE  BlockNo[q] \in Differing
<1>1. table \in Tables /\ dbs \in Databases[table] /\ ~OnEpochs
  BY DEF InputInv, OnEpochs
<1>2. Reaches(table, dbs, 1, q)
  BY TopIs DEF BothReach, Reaches, Snapshot, DB
<1>3. SetHash(PlaceRows(table, dbs, 1, q)) # SetHash(PlaceRows(table, dbs, 2, q))
  BY <1>1, <1>2, BlocksInBoth
<1>4. q \in Pos /\ LastNumber[q] = BlockNo[q]
  BY PlacesType, MarkType
<1> QED
  BY <1>1, <1>3, <1>4, PlaceDiffers

LEMMA EpochsWithin ==
  ASSUME InputInv, OnEpochs, NEW l1 \in Four(dbs, 1), NEW l2 \in Four(dbs, 2),
         NEW w \in Windows(table), w.hi <= SettledTop,
         SetHash(RowsAt(table, dbs, 1, l1, w)) # SetHash(RowsAt(table, dbs, 2, l2, w))
  PROVE  Within(w, Differing)
<1> DEFINE S(d) == dbs.history[d][1]["epoch"]
           R(d) == {r \in S(d) : Between(r.key, w.lo, w.hi)}
           C(d) == [r \in R(d) |-> r.key]
<1>0. 1 \in DB /\ 2 \in DB
  BY DEF DB
<1>1. table \in Tables /\ dbs \in Databases[table] /\ table = "epoch"
  BY DEF InputInv, OnEpochs
<1>2. \A d \in DB : WellTyped(dbs.history[d][1])
  <2>1. \A d \in DB : 1 \in At(dbs, d)
    BY <1>1, SettledSame
  <2> QED
    BY <1>1, <2>1, SnapshotsGood DEF At
<1>3. \A d \in DB : RowsAtRest(table, dbs, d, w) = R(d)
  BY <1>1 DEF RowsAtRest, RowsAt
<1>4. SetHash(R(1)) # SetHash(R(2))
  <2>1. w.hi <= SettledOf(table, dbs)
    BY TopIs
  <2>2. /\ RowsAt(table, dbs, 1, l1, w) = RowsAtRest(table, dbs, 1, w)
        /\ RowsAt(table, dbs, 2, l2, w) = RowsAtRest(table, dbs, 2, w)
    BY <1>0, <1>1, <2>1, SettledWindow
  <2> HIDE DEF R
  <2> QED
    BY <1>0, <1>3, <2>2
<1>5. \A d \in DB : IsFiniteSet(R(d)) /\ \A r \in S(d) : r.key \in Nat
  <2> SUFFICES ASSUME NEW d \in DB
               PROVE  IsFiniteSet(R(d)) /\ \A r \in S(d) : r.key \in Nat
    OBVIOUS
  <2>1. IsFiniteSet(S(d)) /\ \A r \in S(d) : r.key \in Nat
    BY <1>2 DEF WellTyped
  <2>2. R(d) \in SUBSET S(d)
    OBVIOUS
  <2> HIDE DEF R, S
  <2> QED
    BY <2>1, <2>2, FS_Subset
<1>6. PICK c : SetHash({r \in R(1) : C(1)[r] = c}) # SetHash({r \in R(2) : C(2)[r] = c})
  <2>1. ~Alike(R(1), C(1), R(2), C(2))
    <3> HIDE DEF R, C
    <3> QED
      BY <1>0, <1>4, <1>5, SameParts
  <2> QED
    BY <2>1 DEF Alike
<1>7. \A d \in DB : {r \in R(d) : C(d)[r] = c} = {r \in R(d) : r.key = c}
  OBVIOUS
<1>8. PICK d \in DB : \E r \in R(d) : r.key = c
  <2> SUFFICES ASSUME \A d \in DB : \A r \in R(d) : r.key # c
               PROVE  FALSE
    OBVIOUS
  <2>1. {r \in R(1) : r.key = c} = {} /\ {r \in R(2) : r.key = c} = {}
    BY <1>0
  <2> HIDE DEF R, C
  <2> QED
    BY <1>0, <1>6, <1>7, <2>1
<1>9. c \in Nat /\ w.lo <= c /\ c <= w.hi
  BY <1>5, <1>8 DEF Between
<1>10. \A e \in DB : {r \in NumberedRows(e) : NumberOf(r) = c} = {r \in R(e) : r.key = c}
  <2> SUFFICES ASSUME NEW e \in DB, NEW r
               PROVE  /\ r \in NumberedRows(e) /\ NumberOf(r) = c
                      <=> r \in R(e) /\ r.key = c
    OBVIOUS
  <2>1. NumberOf(r) = r.key
    BY DEF NumberOf
  <2>2. r \in NumberedRows(e) <=> r \in S(e) /\ Between(r.key, 0, SettledTop)
    BY <1>1, <2>1 DEF NumberedRows, TableRows, Snapshot
  <2>3. SettledTop \in Int /\ w.lo \in Int /\ w.hi \in Int
    <3>1. Cutoff \in Nat /\ CutoffEpoch \in Nat
      BY LocalizeAssumption
    <3>2. dbs.settled \in Nat
      BY <1>1, DatabasesAssumption
    <3> QED
      BY <3>1, <3>2 DEF SettledTop, Top, Windows, TopOf
  <2>4. r.key = c => Between(r.key, 0, SettledTop) /\ Between(r.key, w.lo, w.hi)
    BY <1>9, <2>3, NoneAssumption DEF Between
  <2> QED
    BY <2>1, <2>2, <2>4
<1>11. c \in NumberedDiffering
  <2>1. SetHash({r \in NumberedRows(1) : NumberOf(r) = c}) # SetHash({r \in NumberedRows(2) : NumberOf(r) = c})
    BY <1>0, <1>6, <1>7, <1>10
  <2>2. \E r \in NumberedRows(d) : NumberOf(r) = c
    BY <1>8, <1>10
  <2>3. d = 1 \/ d = 2
    BY DEF DB
  <2>4. c \in {NumberOf(r) : r \in NumberedRows(1) \cup NumberedRows(2)}
    BY <2>2, <2>3
  <2> QED
    BY <2>1, <2>4 DEF NumberedDiffering, DifferAt
<1> QED
  BY <1>9, <1>11 DEF Within, Differing

(* Numbers grow along the chain. *)
LEMMA NumbersGrow ==
  ASSUME NEW n \in Numbered, NEW m \in Numbered
  PROVE  n <= m <=> BlockNo[n] <= BlockNo[m]
<1>1. n \in Nat /\ m \in Nat /\ BlockNo[n] \in Nat /\ BlockNo[m] \in Nat
  BY PlacesType
<1>2. (n < m => BlockNo[n] < BlockNo[m]) /\ (m < n => BlockNo[m] < BlockNo[n])
  BY LocalizeAssumption
<1>3. n < m \/ n = m \/ m < n
  BY <1>1
<1> QED
  BY <1>1, <1>2, <1>3

LEMMA LastNumberBetween ==
  ASSUME NEW p \in Pos, NEW f \in Numbered, f <= p
  PROVE  \E q \in Numbered : /\ q <= p /\ LastNumber[p] = BlockNo[q]
                             /\ \A n \in Numbered : n <= p => n <= q /\ BlockNo[n] <= LastNumber[p]
                             /\ \A n \in Numbered : p <= n => LastNumber[p] <= BlockNo[n]
<1>1. PICK q \in Numbered : /\ q <= p /\ LastNumber[p] = BlockNo[q]
                            /\ \A n \in Numbered : n <= p => n <= q
  BY LastNumberIs
<1>2. \A n \in Numbered : n <= p => BlockNo[n] <= BlockNo[q]
  BY <1>1, NumbersGrow
<1>3. ASSUME NEW n \in Numbered, p <= n
      PROVE  BlockNo[q] <= BlockNo[n]
  <2>1. q <= n
    BY <1>1, <1>3, PlacesType
  <2> QED
    BY <2>1, NumbersGrow
<1> QED
  BY <1>1, <1>2, <1>3

LEMMA EarlierReached ==
  ASSUME InputInv, ~OnEpochs, NEW z \in Pos, BothReach(z), NEW p \in Pos, p <= z
  PROVE  BothReach(p) /\ Reaches(table, dbs, 1, p) /\ Reaches(table, dbs, 2, p)
<1>1. table \in Tables /\ dbs \in Databases[table]
  BY DEF InputInv
<1>2. \A d \in DB : \A b \in dbs.history[d][1]["block"] : b.pos \in Pos
  <2>1. \A d \in DB : 1 \in At(dbs, d)
    BY <1>1, SettledSame
  <2> QED
    BY <1>1, <2>1, SnapshotsGood DEF At, WellTyped, Spine
<1>3. \A d \in DB : \A b \in dbs.history[d][1]["block"] : z <= b.pos => p <= b.pos
  BY <1>2, PlacesType
<1>4. BothReach(p)
  <2>1. p > 0
    BY PlacesType
  <2> QED
    BY <1>3, <2>1 DEF BothReach, Snapshot
<1> QED
  BY <1>4, TopIs DEF BothReach, Reaches, Snapshot, DB

LEMMA ReachedNumber ==
  ASSUME InputInv, ~OnEpochs, NEW z \in Numbered, BothReach(z)
  PROVE  BlockNo[z] <= SettledTop /\ BlockNo[z] <= Cutoff /\ BlockNo[z] <= dbs.settled /\ Below(dbs, z)
<1>1. table \in Tables /\ dbs \in Databases[table] /\ table # "epoch" /\ 1 \in DB
  BY DEF InputInv, OnEpochs, DB
<1>2. PICK b \in dbs.history[1][1]["block"] : z <= b.pos /\ Between(b.key, 0, SettledOf(table, dbs))
  BY <1>1, TopIs DEF BothReach, Snapshot
<1>3. z \in Pos /\ BlockNo[z] \in Nat
  BY PlacesType
<1>4. /\ b.pos \in Numbered /\ b.key = BlockNo[b.pos] /\ b.key \in Nat
      /\ b.key <= dbs.settled /\ b.key <= Cutoff /\ Below(dbs, z)
  BY <1>1, <1>2, <1>3, ReachedIsSettled
<1>5. BlockNo[z] <= BlockNo[b.pos]
  BY <1>2, <1>4, NumbersGrow
<1>6. b.key <= SettledTop
  BY <1>2, TopIs DEF Between
<1>7. dbs.settled \in Nat /\ Cutoff \in Nat /\ CutoffEpoch \in Nat
  BY <1>1, DatabasesAssumption, LocalizeAssumption
<1>8. SettledTop \in Nat
  BY <1>7 DEF SettledTop, Top
<1> QED
  BY <1>3, <1>4, <1>5, <1>6, <1>7, <1>8

(* Only blocks are at the places without a number after the first. *)
LEMMA BoundaryBlocks ==
  ASSUME NEW t \in Tables, t # "epoch", NEW S, Linked(S), NEW r \in TableRows(t, S),
         r.pos \in Pos, r.pos \notin Numbered, NEW f \in Numbered, f <= r.pos
  PROVE  t = "block"
<1>1. r.pos \in Nat /\ f \in Nat /\ r.pos # 0 /\ f # r.pos
  BY PlacesType
<1>2. f < r.pos
  BY <1>1
<1>3. \A u \in {"tx", "leaf", "committee"} : r \notin S[u]
  BY <1>1, <1>2 DEF Linked
<1> QED
  BY <1>3, TableKinds

(* A block between two that are in a window is in it too. *)
LEMMA BlockBetween ==
  ASSUME NEW x, "block" \in Tables, x \in Databases["block"], NEW d \in DB, NEW w \in Windows("block"),
         NEW a \in x.history[d][1]["block"], NEW z \in x.history[d][1]["block"],
         Between(a.key, w.lo, w.hi), Between(z.key, w.lo, w.hi),
         NEW r \in x.history[d][1]["block"], a.pos < r.pos, r.pos < z.pos
  PROVE  r \in RowsAtRest("block", x, d, w)
<1> DEFINE S == x.history[d][1]
           one == <<1, 1, 1, 1>>
           b == Minmax(S["block"], w.lo, w.hi)
           R == RangesAt(x, d, one, <<w.lo, w.hi>>)
           in == KeysIn(S["block"], w.lo, w.hi)
<1>1. WellTyped(S) /\ InChainOrder(S)
  <2>1. 1 \in At(x, d)
    BY SettledSame
  <2> QED
    BY <2>1, SnapshotsGood DEF At
<1>2. w.lo \in Nat /\ w.hi \in Nat
  BY LocalizeAssumption DEF Windows, TopOf
<1>3. R["block"] = b
  <2>1. one[1] = 1
    OBVIOUS
  <2> HIDE DEF one
  <2> QED
    BY <1>2, <2>1, RangesAre
<1>4. Sorted(in)
  <2> DEFINE keyed == {o \in S["block"] : o.key # None}
  <2>1. Sorted(keyed) /\ in \in SUBSET keyed
    BY <1>1, SpineSorted DEF KeysIn, Between
  <2> HIDE DEF keyed, in
  <2> QED
    BY <2>1, SortedSubset
<1>5. Between(a.id, b.lo, b.hi) /\ Between(z.id, b.lo, b.hi) /\ b.lo \in Nat /\ b.hi \in Nat
  BY <1>2, <1>4, MinmaxHolds
<1>6. \A o \in S["block"] : o.id \in Nat /\ o.pos \in Nat
  BY <1>1, PlacesType DEF WellTyped, Spine
<1>7. \A o, q \in S["block"] : o.id <= q.id => o.pos <= q.pos
  BY <1>1 DEF InChainOrder, Spine
<1>8. a \in S["block"] /\ z \in S["block"] /\ r \in S["block"]
  OBVIOUS
<1> HIDE DEF S, b, R
<1>9. a.id <= r.id /\ r.id <= z.id
  BY <1>6, <1>7, <1>8
<1>10. Between(r.id, b.lo, b.hi)
  BY <1>5, <1>6, <1>8, <1>9, NoneAssumption DEF Between
<1>11. AnchorSpine("block") = "block" /\ "block" # "epoch"
  BY DEF AnchorSpine
<1>12. r \in Selected("block", S, R[AnchorSpine("block")])
  BY <1>3, <1>8, <1>10, <1>11 DEF Selected, TableRows, Anchor
<1> QED
  BY <1>11, <1>12 DEF RowsAtRest, RowsAt, IdRangeRowsAt, one, R, S

(***************************************************************************)
(* The rows of a table at place p are all in a window that spans p, but    *)
(* for an epoch boundary block next to a block that the database lacks.    *)
(***************************************************************************)
LEMMA PlaceInWindow ==
  ASSUME NEW t \in Tables, t # "epoch", NEW x \in Databases[t], NEW d \in DB,
         NEW w \in Windows(t), w.hi <= SettledOf(t, x),
         NEW q \in Numbered, w.lo <= BlockNo[q], NEW z \in Numbered, BlockNo[z] <= w.hi,
         NEW p \in Pos, q <= p, p <= z, \A n \in Numbered : n <= p => n <= q,
         t = "block" => /\ \E b \in x.history[d][1]["block"] : b.pos = q
                        /\ \E b \in x.history[d][1]["block"] : b.pos = z
  PROVE  {r \in RowsAtRest(t, x, d, w) : r.pos = p} = PlaceRows(t, x, d, p)
<1> DEFINE S == x.history[d][1]
           one == <<1, 1, 1, 1>>
           R == RowsAtRest(t, x, d, w)
           c == BlockNo[p]
<1>1. WellTyped(S) /\ InChainOrder(S) /\ Linked(S) /\ 1 \in At(x, d)
  <2>1. 1 \in At(x, d)
    BY SettledSame
  <2> QED
    BY <2>1, SnapshotsGood DEF At
<1>2. one \in Four(x, d) /\ one[4] = 1
  BY <1>1 DEF Four
<1>3. R \subseteq TableRows(t, S)
  BY <1>2, RowsAtType DEF RowsAtRest
<1>4. ASSUME NEW r \in PlaceRows(t, x, d, p)
      PROVE  r \in R
  <2>1. r \in TableRows(t, S) /\ r.pos = p /\ p # 0
    BY PlacesType DEF PlaceRows
  <2>2. CASE p \in Numbered
    <3>1. w.lo <= c /\ c <= w.hi /\ c \in 0 .. SettledOf(t, x)
      <4>1. BlockNo[q] <= c /\ c <= BlockNo[z]
        BY <2>2, NumbersGrow
      <4>2. c \in Nat /\ BlockNo[q] \in Nat /\ BlockNo[z] \in Nat
        BY <2>2, PlacesType
      <4>3. Cutoff \in Nat /\ x.settled \in Nat
        BY DatabasesAssumption, LocalizeAssumption
      <4>4. w.lo \in Nat /\ w.hi \in Nat /\ SettledOf(t, x) \in Nat
        BY <4>3 DEF Windows, TopOf, SettledOf
      <4> QED
        BY <4>1, <4>2, <4>4
    <3>2. {o \in RowsAt(t, x, d, one, w) : NumberAt(t, o) = c} = RowsOf(t, x, d, c)
      <4> HIDE DEF one, c
      <4> QED
        BY <1>2, <3>1, RowsHeld
    <3>3. r \in RowsOf(t, x, d, c)
      BY <2>1 DEF RowsOf, NumberAt
    <3> QED
      BY <3>2, <3>3 DEF RowsAtRest
  <2>3. CASE p \notin Numbered
    <3>1. t = "block"
      BY <1>1, <2>1, <2>3, BoundaryBlocks
    <3>2. PICK a \in S["block"] : a.pos = q
      BY <3>1
    <3>3. PICK b \in S["block"] : b.pos = z
      BY <3>1
    <3>4. a.key = BlockNo[q] /\ b.key = BlockNo[z] /\ r \in S["block"]
      BY <1>1, <2>1, <3>1, <3>2, <3>3 DEF InChainOrder, TableRows
    <3>5. a.pos < r.pos /\ r.pos < b.pos
      <4>1. q \in Nat /\ z \in Nat /\ p \in Nat /\ q # p /\ z # p
        BY <2>3, PlacesType
      <4> QED
        BY <2>1, <3>2, <3>3, <4>1
    <3>6. Between(a.key, w.lo, w.hi) /\ Between(b.key, w.lo, w.hi)
      <4>1. BlockNo[q] <= BlockNo[z]
        <5>1. q <= z
          BY PlacesType
        <5> QED
          BY <5>1, NumbersGrow
      <4>2. BlockNo[q] \in Nat /\ BlockNo[z] \in Nat /\ w.lo \in Nat /\ w.hi \in Nat
        BY PlacesType, LocalizeAssumption DEF Windows, TopOf
      <4> QED
        BY <3>4, <4>1, <4>2, NoneAssumption DEF Between
    <3> QED
      BY <3>1, <3>2, <3>3, <3>4, <3>5, <3>6, BlockBetween
  <2> QED
    BY <2>2, <2>3
<1>5. \A r : r \in R /\ r.pos = p <=> r \in PlaceRows(t, x, d, p)
  BY <1>3, <1>4 DEF PlaceRows
<1>6. \A r \in PlaceRows(t, x, d, p) : r.pos = p
  BY DEF PlaceRows
<1> HIDE DEF R
<1>7. {r \in R : r.pos = p} = PlaceRows(t, x, d, p)
  BY <1>5, <1>6
<1> QED
  BY <1>7 DEF R

LEMMA PlacesWithin ==
  ASSUME InputInv, ~OnEpochs, NEW l1 \in Four(dbs, 1), NEW l2 \in Four(dbs, 2),
         NEW w \in Windows(table), NEW y \in Numbered, BothReach(y), w.hi <= BlockNo[y],
         SetHash(RowsAt(table, dbs, 1, l1, w)) # SetHash(RowsAt(table, dbs, 2, l2, w))
  PROVE  Within(w, Differing)
<1> DEFINE R(d) == RowsAtRest(table, dbs, d, w)
           C(d) == [r \in R(d) |-> r.pos]
           one == <<1, 1, 1, 1>>
<1>0. 1 \in DB /\ 2 \in DB
  BY DEF DB
<1>1. table \in Tables /\ dbs \in Databases[table] /\ table # "epoch"
  BY DEF InputInv, OnEpochs
<1>2. w.hi <= SettledOf(table, dbs) /\ w.lo \in Nat /\ w.hi \in Nat /\ SettledTop \in Nat
  <2>1. BlockNo[y] <= SettledTop /\ BlockNo[y] \in Nat
    BY ReachedNumber, PlacesType
  <2>2. Cutoff \in Nat /\ CutoffEpoch \in Nat /\ dbs.settled \in Nat
    BY <1>1, DatabasesAssumption, LocalizeAssumption
  <2>3. SettledTop \in Nat /\ w.hi \in Nat /\ w.lo \in Nat
    BY <1>1, <2>2 DEF SettledTop, Top, Windows, TopOf
  <2> QED
    BY <2>1, <2>3, TopIs
<1>3. SetHash(R(1)) # SetHash(R(2))
  <2>1. /\ RowsAt(table, dbs, 1, l1, w) = R(1)
        /\ RowsAt(table, dbs, 2, l2, w) = R(2)
    BY <1>0, <1>1, <1>2, SettledWindow
  <2> HIDE DEF R
  <2> QED
    BY <2>1
<1>4. \A d \in DB : IsFiniteSet(R(d)) /\ R(d) \subseteq TableRows(table, dbs.history[d][1])
  <2> SUFFICES ASSUME NEW d \in DB
               PROVE  IsFiniteSet(R(d)) /\ R(d) \subseteq TableRows(table, dbs.history[d][1])
    OBVIOUS
  <2>1. one \in Four(dbs, d) /\ one[4] = 1
    <3>1. 1 \in At(dbs, d)
      BY <1>1, SettledSame
    <3> QED
      BY <3>1 DEF Four
  <2> HIDE DEF one
  <2> QED
    BY <1>1, <2>1, RowsAtType DEF RowsAtRest, one
<1> HIDE DEF R
<1>5. PICK p : SetHash({r \in R(1) : C(1)[r] = p}) # SetHash({r \in R(2) : C(2)[r] = p})
  <2>1. ~Alike(R(1), C(1), R(2), C(2))
    <3> HIDE DEF C
    <3> QED
      BY <1>0, <1>3, <1>4, SameParts
  <2> QED
    BY <2>1 DEF Alike
<1>6. \A d \in DB : {r \in R(d) : C(d)[r] = p} = {r \in R(d) : r.pos = p}
  OBVIOUS
<1> HIDE DEF C
<1>7. SetHash({r \in R(1) : r.pos = p}) # SetHash({r \in R(2) : r.pos = p})
  BY <1>0, <1>5, <1>6
<1>8. PICK d \in DB : \E r \in R(d) : r.pos = p
  <2> SUFFICES ASSUME \A d \in DB : \A r \in R(d) : r.pos # p
               PROVE  FALSE
    OBVIOUS
  <2>1. {r \in R(1) : r.pos = p} = {} /\ {r \in R(2) : r.pos = p} = {}
    BY <1>0
  <2> QED
    BY <1>7, <2>1
<1>9. PICK r \in R(d) : r.pos = p
  BY <1>8
<1>10. /\ p \in Pos
       /\ \E f, l \in Numbered : f <= p /\ p <= l /\ w.lo <= BlockNo[f] /\ BlockNo[l] <= w.hi
  BY <1>1, <1>9, WindowSpans DEF R
<1>11. PICK f \in Numbered, z \in Numbered : f <= p /\ p <= z /\ w.lo <= BlockNo[f] /\ BlockNo[z] <= w.hi
  BY <1>10
<1>12. PICK q \in Numbered : /\ q <= p /\ LastNumber[p] = BlockNo[q]
                             /\ \A n \in Numbered : n <= p => n <= q /\ BlockNo[n] <= LastNumber[p]
                             /\ \A n \in Numbered : p <= n => LastNumber[p] <= BlockNo[n]
  BY <1>10, <1>11, LastNumberBetween
<1>13. /\ BlockNo[q] \in Nat /\ w.lo <= BlockNo[q] /\ BlockNo[q] <= w.hi
       /\ BlockNo[z] \in Nat /\ w.lo <= BlockNo[z] /\ BlockNo[z] <= w.hi
  <2>1. BlockNo[f] <= BlockNo[q] /\ BlockNo[q] <= BlockNo[z]
    BY <1>11, <1>12
  <2> QED
    BY <1>2, <1>11, <2>1, PlacesType
<1>14. z <= y /\ p <= y /\ q <= y /\ z \in Pos /\ q \in Pos /\ y \in Pos
  <2>1. BlockNo[z] <= BlockNo[y]
    BY <1>2, <1>13, PlacesType
  <2>2. z <= y
    BY <2>1, NumbersGrow
  <2>3. z \in Nat /\ y \in Nat /\ p \in Nat /\ q \in Nat
    BY <1>10, PlacesType
  <2> QED
    BY <1>11, <1>12, <2>2, <2>3, PlacesType
<1>15. BothReach(p) /\ BothReach(q) /\ BothReach(z)
  BY <1>10, <1>14, EarlierReached
<1>16. CASE SetHash(PlaceRows(table, dbs, 1, p)) # SetHash(PlaceRows(table, dbs, 2, p))
  <2>1. LastNumber[p] \in Differing
    BY <1>10, <1>15, <1>16, PlaceDiffers
  <2> QED
    BY <1>12, <1>13, <2>1 DEF Within
<1>17. CASE SetHash(PlaceRows(table, dbs, 1, p)) = SetHash(PlaceRows(table, dbs, 2, p))
  <2>1. PICK e \in DB : {o \in R(e) : o.pos = p} # PlaceRows(table, dbs, e, p)
    BY <1>0, <1>7, <1>17
  <2>2. table = "block" /\ \E m \in {q, z} : \A b \in dbs.history[e][1]["block"] : b.pos # m
    <3> SUFFICES ASSUME table = "block" => /\ \E b \in dbs.history[e][1]["block"] : b.pos = q
                                           /\ \E b \in dbs.history[e][1]["block"] : b.pos = z
                 PROVE  FALSE
      OBVIOUS
    <3>1. \A n \in Numbered : n <= p => n <= q
      BY <1>12
    <3>2. {o \in RowsAtRest(table, dbs, e, w) : o.pos = p} = PlaceRows(table, dbs, e, p)
      BY <1>1, <1>2, <1>10, <1>11, <1>12, <1>13, <3>1, PlaceInWindow
    <3> QED
      BY <2>1, <3>2 DEF R
  <2>3. PICK m \in {q, z} : \A b \in dbs.history[e][1]["block"] : b.pos # m
    BY <2>2
  <2>4. m \in Numbered /\ BothReach(m)
    BY <1>15
  <2>5. BlockNo[m] \in Differing
    BY <2>2, <2>3, <2>4, LackDiffers
  <2> QED
    BY <1>13, <2>5 DEF Within
<1> QED
  BY <1>16, <1>17

LEMMA BeyondIs ==
  ASSUME InputInv, NEW c \in 0 .. Top, c \notin Beyond
  PROVE  IF OnEpochs THEN c <= SettledTop
                     ELSE \E y \in Numbered : BothReach(y) /\ c <= BlockNo[y]
<1>1. c \in Nat /\ SettledTop \in Int /\ \A y \in Numbered : BlockNo[y] \in Nat
  <2>1. Cutoff \in Nat /\ CutoffEpoch \in Nat /\ dbs.settled \in Nat
    BY DatabasesAssumption, LocalizeAssumption DEF InputInv
  <2> QED
    BY <2>1, PlacesType DEF SettledTop, Top
<1> QED
  BY <1>1 DEF Beyond

LEMMA WindowWithin ==
  ASSUME InputInv, NEW l1 \in Four(dbs, 1), NEW l2 \in Four(dbs, 2), NEW w \in Windows(table),
         SetHash(RowsAt(table, dbs, 1, l1, w)) # SetHash(RowsAt(table, dbs, 2, l2, w))
  PROVE  Within(w, Differing \cup Beyond)
<1>1. w.lo <= w.hi /\ w.hi \in 0 .. Top /\ w.lo \in Nat
  <2>1. Top \in Nat
    BY LocalizeAssumption DEF Top
  <2> QED
    BY <2>1, TopIs DEF Windows
<1>2. CASE w.hi \in Beyond
  BY <1>1, <1>2 DEF Within
<1>3. CASE w.hi \notin Beyond
  <2>1. Within(w, Differing)
    BY <1>1, <1>3, BeyondIs, EpochsWithin, PlacesWithin
  <2> QED
    BY <2>1 DEF Within
<1> QED
  BY <1>2, <1>3

-----------------------------------------------------------------------------
(***************************************************************************)
(* Where the rows of a bucket are, whose thresholds are of an earlier      *)
(* snapshot than the rows.                                                 *)
(***************************************************************************)
LEMMA AnchorRow ==
  ASSUME NEW t \in Tables, t # "epoch", NEW S, WellTyped(S), Linked(S),
         NEW r \in TableRows(t, S), Anchor(t, r) # None
  PROVE  /\ r.pos \in Pos
         /\ \E a \in S[AnchorSpine(t)] : a.id = Anchor(t, r) /\ a.pos = r.pos
<1>1. CASE t \in {"tx", "leaf", "committee"}
  <2>1. r \in S[t] /\ Anchor(t, r) = r.key /\ Parent(t) = AnchorSpine(t)
    BY <1>1, TableKinds DEF Anchor
  <2> QED
    BY <1>1, <2>1, PointsAt
<1>2. CASE t \in {"block", "owner"}
  <2>1. r \in S[AnchorSpine(t)] /\ Anchor(t, r) = r.id /\ AnchorSpine(t) \in Spine
    BY <1>2, TableKinds DEF Anchor, TableRows
  <2> QED
    BY <2>1 DEF WellTyped
<1> QED
  BY <1>1, <1>2, TableKinds

LEMMA ThresholdsReached ==
  ASSUME NEW t \in Tables, t # "epoch", NEW x \in Databases[t], NEW d \in DB, NEW i \in At(x, d),
         NEW edges \in Seq(0 .. Cutoff), NEW thr, Boundaries(t, x, d, i, edges, thr), Ascends(thr),
         NEW id \in Nat
  PROVE  /\ WidthBucket(id, thr) \in 0 .. Len(edges)
         /\ \A k \in 1 .. Len(edges) : thr[k] <= id <=> k <= WidthBucket(id, thr)
<1>1. Len(edges) \in Nat /\ \A k \in 1 .. Len(edges) : edges[k] \in Nat
  BY LenProperties, ElementOfSeq, LocalizeAssumption
<1>2. AnchorSpine(t) \in Spine
  BY TableKinds
<1>3. WellTyped(x.history[d][i]) /\ InChainOrder(x.history[d][i])
  BY SnapshotsGood DEF At
<1>4. \A k \in 1 .. Len(edges) : thr[k] \in Int
  <2> SUFFICES ASSUME NEW k \in 1 .. Len(edges)
               PROVE  thr[k] \in Int
    OBVIOUS
  <2>1. BoundaryId(x.history[d][i], AnchorSpine(t), edges[k]) \in Nat \cup {None}
    BY <1>1, <1>2, <1>3, BoundaryType
  <2> QED
    BY <2>1 DEF Boundaries
<1>5. DOMAIN thr = 1 .. Len(edges)
  BY DEF Boundaries
<1>6. Len(edges) \in Nat /\ id \in Int /\ Ascends(thr)
  BY <1>1
<1> HIDE DEF Boundaries
<1>7. LET v == Cardinality({k \in DOMAIN thr : thr[k] <= id})
      IN  v \in 0 .. Len(edges) /\ \A k \in 1 .. Len(edges) : thr[k] <= id <=> k <= v
  BY ONLY <1>4, <1>5, <1>6, AscendingCount
<1> QED
  BY <1>7 DEF WidthBucket

(* A row of an earlier snapshot, told by its id. *)
LEMMA NotReused ==
  ASSUME NEW t \in Tables, NEW x \in Databases[t], NEW d \in DB,
         NEW i \in At(x, d), NEW j \in At(x, d), i <= j, NEW u \in Spine,
         NEW f \in x.history[d][i][u], NEW a \in x.history[d][j][u], a.id <= f.id
  PROVE  a \in x.history[d][i][u]
<1>1. f.id \in Nat /\ a.id \in Nat
  BY SnapshotsGood DEF At, WellTyped
<1>2. CASE i = j
  BY <1>2
<1>3. CASE i < j
  <2>1. NeverReused(x.history[d])
    BY DatabasesAssumption DEF DB
  <2>2. a \in x.history[d][i][u] \/ f.id < a.id
    BY <1>3, <2>1 DEF NeverReused, At
  <2> QED
    BY <1>1, <2>2
<1>4. i \in Int /\ j \in Int
  BY DEF At
<1> QED
  BY <1>2, <1>3, <1>4

LEMMA AboveThreshold ==
  ASSUME NEW S, WellTyped(S), InChainOrder(S), Linked(S), NEW edge \in Nat,
         NEW v \in Spine, BoundaryId(S, v, edge) # None,
         NEW a \in S[v], BoundaryId(S, v, edge) <= a.id
  PROVE  edge <= LastNumber[a.pos] /\ \E f \in Numbered : f <= a.pos
<1>1. PICK f \in S[v] : /\ BoundaryId(S, v, edge) = f.id
                        /\ f.pos \in Numbered /\ edge <= BlockNo[f.pos]
  BY BoundaryRow
<1>2. f.pos <= a.pos /\ a.pos \in Pos
  BY <1>1 DEF InChainOrder, WellTyped
<1>3. BlockNo[f.pos] <= LastNumber[a.pos]
  BY <1>1, <1>2, LastNumberBetween
<1>4. BlockNo[f.pos] \in Nat /\ LastNumber[a.pos] \in Nat
  BY <1>1, <1>2, PlacesType, MarkType
<1> QED
  BY <1>1, <1>2, <1>3, <1>4

(* The last number before an epoch boundary block below a threshold. *)
LEMMA BoundaryBelow ==
  ASSUME InputInv, table = "block", NEW d \in DB, NEW i \in At(dbs, d), NEW edge \in Nat,
         BoundaryId(dbs.history[d][i], "block", edge) # None,
         NEW a \in dbs.history[d][i]["block"], a.pos \notin Numbered,
         ~(BoundaryId(dbs.history[d][i], "block", edge) <= a.id),
         NEW q \in Numbered, q <= a.pos, \A n \in Numbered : n <= a.pos => n <= q,
         NEW y \in Numbered, BothReach(y), edge <= BlockNo[y]
  PROVE  BlockNo[q] < edge \/ edge \in Differing
<1> DEFINE S == dbs.history[d][i]
           first == BoundaryId(S, "block", edge)
<1>1. table \in Tables /\ dbs \in Databases[table] /\ table # "epoch" /\ ~OnEpochs
  BY DEF InputInv, OnEpochs
<1>2. WellTyped(S) /\ InChainOrder(S) /\ Linked(S)
  BY <1>1, SnapshotsGood DEF At
<1>3. \A b \in S["block"] : b.id \in Nat /\ b.pos \in Pos /\ b.pos \in Nat
  BY <1>2, PlacesType DEF WellTyped, Spine
<1>4. first \in Nat /\ "block" \in Spine /\ first # None
  BY <1>2, BoundaryType DEF Spine
<1>5. \A b \in S["block"] : b.pos \in Numbered => (first <= b.id <=> edge <= BlockNo[b.pos])
  BY <1>2, <1>4, BoundaryReached
<1>6. \A b, o \in S["block"] : b.id <= o.id => b.pos <= o.pos
  BY <1>2 DEF InChainOrder, Spine
<1>7. a \in S["block"] /\ ~(first <= a.id)
  OBVIOUS
<1>8. q # a.pos /\ q \in Nat /\ BlockNo[q] \in Nat
  BY PlacesType
<1>9. PICK b \in S["block"] : b.pos \in Numbered /\ b.pos < a.pos
  <2>1. q < a.pos
    BY <1>3, <1>7, <1>8
  <2> HIDE DEF S
  <2> QED
    BY <1>2, <1>7, <2>1 DEF Linked
<1> HIDE DEF S, first
<1>10. BlockNo[b.pos] < edge /\ b.pos <= q
  <2>1. ~(a.id <= b.id)
    BY <1>3, <1>6, <1>7, <1>9
  <2>2. ~(first <= b.id)
    BY <1>3, <1>4, <1>7, <1>9, <2>1
  <2>3. ~(edge <= BlockNo[b.pos])
    BY <1>5, <1>9, <2>2
  <2> QED
    BY <1>3, <1>7, <1>9, <2>3, PlacesType
<1>11. ASSUME ~(BlockNo[q] < edge)
       PROVE  edge \in Differing
  <2>1. edge \in BlockNo[b.pos] .. BlockNo[q]
    <3>1. BlockNo[b.pos] \in Nat
      BY <1>9, PlacesType
    <3> QED
      BY <1>8, <1>10, <1>11, <3>1
  <2>2. PICK m \in Numbered : BlockNo[m] = edge
    BY <1>9, <2>1, LocalizeAssumption
  <2>3. m <= q /\ m <= y
    <3>1. BlockNo[m] <= BlockNo[q] /\ BlockNo[m] <= BlockNo[y]
      BY <1>8, <1>11, <2>2
    <3> QED
      BY <3>1, NumbersGrow
  <2>4. m < a.pos
    <3>1. m \in Nat /\ a.pos \in Nat
      BY <1>3, <1>7, PlacesType
    <3> QED
      BY <1>8, <2>3, <3>1
  <2>5. \A o \in S["block"] : o.pos # m
    <3> SUFFICES ASSUME NEW o \in S["block"], o.pos = m
                 PROVE  FALSE
      OBVIOUS
    <3>1. first <= o.id
      BY <1>5, <2>2
    <3>2. a.id <= o.id
      BY <1>3, <1>4, <1>7, <3>1
    <3>3. a.pos <= o.pos
      BY <1>6, <1>7, <3>2
    <3> QED
      BY <1>3, <1>7, <2>4, <3>3
  <2>6. m \in Pos /\ y \in Pos
    BY PlacesType
  <2>7. BothReach(m)
    BY <1>1, <2>3, <2>6, EarlierReached
  <2>8. Below(dbs, m)
    BY <1>1, <2>7, ReachedNumber
  <2>9. \A o \in dbs.history[d][1]["block"] : o.pos # m
    <3> SUFFICES ASSUME NEW o \in dbs.history[d][1]["block"], o.pos = m
                 PROVE  FALSE
      OBVIOUS
    <3>1. o \in dbs.history[d][i]["block"]
      BY <1>1, <2>8, SettledIn DEF Spine
    <3> QED
      BY <2>5, <3>1 DEF S
  <2> QED
    BY <2>2, <2>7, <2>9, LackDiffers
<1> QED
  BY <1>11

(***************************************************************************)
(* If both databases have settled the cutoff block, all rows below the     *)
(* cutoff are at or before that block.                                     *)
(***************************************************************************)
LEMMA CutoffRows ==
  ASSUME InputInv, ~OnEpochs, NEW d \in DB, NEW l \in Four(dbs, d),
         NEW y \in Numbered, BothReach(y), Cutoff <= BlockNo[y],
         NEW r \in IdRangeRowsAt(table, dbs, d, l, None)
  PROVE  /\ BlockNo[y] = Cutoff
         /\ r \in TableRows(table, dbs.history[d][1]) /\ r.pos \in Pos /\ r.pos <= y
<1> DEFINE h == dbs.history[d]
           S == h[1]
           below == {b \in h[l[1]]["block"] : b.key # None /\ b.key <= Cutoff}
           b == BlockRange(h[l[1]]["block"], Cutoff, None)
           c == ChildRange(h[l[2]]["tx"], b)
           e == ChildRange(h[l[3]]["leaf"], c)
           R == RangesAt(dbs, d, l, None)
<1>1. table \in Tables /\ dbs \in Databases[table] /\ table # "epoch"
  BY DEF InputInv, OnEpochs
<1>2. 1 \in At(dbs, d) /\ l[1] \in At(dbs, d) /\ l[2] \in At(dbs, d) /\ l[3] \in At(dbs, d) /\ l[4] \in At(dbs, d)
  BY <1>1, SettledSame DEF Four
<1>3. \A k \in At(dbs, d) : WellTyped(h[k]) /\ InChainOrder(h[k]) /\ Linked(h[k])
  BY <1>1, SnapshotsGood DEF At
<1>4. BlockNo[y] = Cutoff /\ Below(dbs, y) /\ y \in Pos /\ Cutoff \in Nat
  <2>1. BlockNo[y] <= Cutoff /\ Below(dbs, y)
    BY ReachedNumber
  <2> QED
    BY <2>1, PlacesType, LocalizeAssumption
<1>5. \A k \in At(dbs, d) : \A o \in h[k]["block"] :
        /\ o.pos \in Pos /\ o.pos \in Nat /\ o.id \in Nat /\ o.key = BlockNo[o.pos]
        /\ o.key # None => o.pos \in Numbered
  BY <1>3, PlacesType DEF WellTyped, InChainOrder, Spine, Numbered
<1>6. PICK b0 \in S["block"] : y <= b0.pos /\ Between(b0.key, 0, SettledOf(table, dbs))
  BY TopIs DEF BothReach, Snapshot
<1>7. /\ b0.pos \in Numbered /\ b0.key = BlockNo[b0.pos] /\ b0.key \in Nat /\ b0.key <= Cutoff
      /\ Below(dbs, b0.pos)
  BY <1>1, <1>4, <1>6, ReachedIsSettled
<1>8. b0.pos = y /\ b0.key = Cutoff
  <2>1. b0.pos <= y
    BY <1>4, <1>7, NumbersGrow
  <2> QED
    BY <1>4, <1>6, <1>7, <2>1, PlacesType
<1>9. b0 \in below
  <2>1. b0 \in h[l[1]]["block"]
    BY <1>1, <1>2, <1>6, <1>7, SettledIn DEF Spine
  <2> QED
    BY <1>4, <1>7, <1>8, <2>1, NoneAssumption
<1>10. \A o \in below : o \in h[l[1]]["block"] /\ o.pos \in Numbered /\ o.pos <= y /\ o.key \in Nat
  <2> SUFFICES ASSUME NEW o \in below
               PROVE  o \in h[l[1]]["block"] /\ o.pos \in Numbered /\ o.pos <= y /\ o.key \in Nat
    OBVIOUS
  <2>1. o \in h[l[1]]["block"] /\ o.key # None /\ o.key <= Cutoff
    OBVIOUS
  <2>2. o.pos \in Numbered /\ o.key = BlockNo[o.pos]
    BY <1>2, <1>5, <2>1
  <2>3. o.pos <= y
    BY <1>4, <2>1, <2>2, NumbersGrow
  <2> QED
    BY <2>1, <2>2, <2>3, PlacesType
<1>11. Sorted(below)
  <2> DEFINE keyed == {o \in h[l[1]]["block"] : o.key # None}
  <2>1. WellTyped(h[l[1]]) /\ InChainOrder(h[l[1]])
    BY <1>2, <1>3
  <2>2. Sorted(keyed)
    BY <2>1, SpineSorted
  <2>3. below \in SUBSET keyed
    OBVIOUS
  <2> HIDE DEF keyed, below
  <2> QED
    BY <2>2, <2>3, SortedSubset
<1>12. b = [lo |-> 0, hi |-> LastRow(below).id]
  BY <1>9 DEF BlockRange
<1> HIDE DEF below
<1> DEFINE last == LastRow(below)
<1>13. last \in below /\ \A o \in below : o.key <= last.key
  BY <1>9, <1>11, FirstAndLast
<1>14. last \in S["block"] /\ Below(dbs, last.pos) /\ last.pos <= y /\ last.id \in Nat
  <2>1. last \in h[l[1]]["block"] /\ last.pos \in Numbered /\ last.pos <= y
    BY <1>10, <1>13
  <2>2. last.pos \in Pos /\ last.id \in Nat
    BY <1>2, <1>5, <2>1
  <2>3. Below(dbs, last.pos)
    BY <1>4, <2>1, <2>2, EarlierBelow
  <2> QED
    BY <1>1, <1>2, <2>1, <2>2, <2>3, SettledIn DEF Spine
<1> HIDE DEF last, b
<1>15. b.lo = 0 /\ b.hi = last.id
  BY <1>12 DEF last
<1>16. SettledRange("block", dbs, d, b)
  BY <1>14, <1>15 DEF SettledRange
<1>17. Spans(S, "block", b, 0, y)
  <2>1. ASSUME NEW o \in S["block"], Between(o.id, b.lo, b.hi)
        PROVE  0 <= o.pos /\ o.pos <= y
    <3>1. o.id <= last.id
      BY <1>15, <2>1 DEF Between
    <3>2. o.pos <= last.pos
      BY <1>2, <1>3, <1>14, <3>1 DEF InChainOrder, Spine
    <3>3. o.pos \in Nat /\ last.pos \in Nat /\ y \in Nat
      BY <1>2, <1>4, <1>5, <1>14, PlacesType
    <3> QED
      BY <1>14, <3>2, <3>3
  <2> QED
    BY <1>14, <1>15, <2>1 DEF Spans
<1>18. c = ChildRange(S["tx"], b) /\ SettledRange("tx", dbs, d, c)
  <2>1. Parent("tx") = "block"
    BY DEF Parent
  <2> QED
    BY <1>1, <1>2, <1>16, <2>1, ChildSame
<1> HIDE DEF c
<1>19. e = ChildRange(S["leaf"], c) /\ SettledRange("leaf", dbs, d, e)
  <2>1. Parent("leaf") = "tx"
    BY DEF Parent
  <2> QED
    BY <1>1, <1>2, <1>18, <2>1, ChildSame
<1>20. Spans(S, "tx", c, 0, y) /\ Spans(S, "leaf", e, 0, y)
  <2>1. WellTyped(S) /\ InChainOrder(S) /\ Linked(S) /\ 0 \in Int /\ y \in Int
    BY <1>2, <1>3, <1>4, PlacesType
  <2> QED
    BY <1>17, <1>18, <1>19, <2>1, WalkSpans
<1>21. R["block"] = b /\ R["tx"] = c /\ R["leaf"] = e
  BY CutoffRanges DEF b, c
<1> DEFINE u == AnchorSpine(table)
<1>22. u \in Spine
  BY <1>1, TableKinds
<1> HIDE DEF e, R, u
<1>23. SettledRange(u, dbs, d, R[u]) /\ Spans(S, u, R[u], 0, y)
  BY <1>16, <1>17, <1>18, <1>19, <1>20, <1>21, <1>22 DEF Spine
<1>24. r \in Selected(table, S, R[u])
  <2>1. r \in Selected(table, h[l[4]], R[u])
    BY DEF IdRangeRowsAt, R, u
  <2> QED
    BY <1>1, <1>2, <1>23, <2>1, SettledSelection DEF u
<1>25. r.pos \in Pos /\ r.pos <= y
  <2>1. WellTyped(S) /\ InChainOrder(S) /\ Linked(S)
    BY <1>2, <1>3
  <2> QED
    BY <1>1, <1>23, <1>24, <2>1, SelectedSpans DEF u
<1> QED
  BY <1>4, <1>24, <1>25 DEF Selected

(***************************************************************************)
(* A row of a bucket is at a place whose last number is in the window of   *)
(* the bucket, or the window holds a block that one database lacks.        *)
(***************************************************************************)
LEMMA AnchorBelow ==
  ASSUME InputInv, ~OnEpochs, NEW d \in DB, NEW i \in At(dbs, d), NEW edge \in Nat,
         BoundaryId(dbs.history[d][i], AnchorSpine(table), edge) # None,
         NEW a \in dbs.history[d][i][AnchorSpine(table)],
         ~(BoundaryId(dbs.history[d][i], AnchorSpine(table), edge) <= a.id),
         a.pos \in Numbered \/ table = "block" \/ \A n \in Numbered : ~(n <= a.pos),
         NEW y \in Numbered, BothReach(y), edge <= BlockNo[y]
  PROVE  edge \in Differing \/ (a.pos <= y /\ LastNumber[a.pos] <= edge)
<1> DEFINE S == dbs.history[d][i]
           u == AnchorSpine(table)
<1>1. table \in Tables /\ dbs \in Databases[table] /\ table # "epoch" /\ u \in Spine
  <2>1. table \in Tables /\ dbs \in Databases[table] /\ table # "epoch"
    BY DEF InputInv, OnEpochs
  <2> QED
    BY <2>1, TableKinds
<1>2. WellTyped(S) /\ InChainOrder(S) /\ Linked(S)
  BY <1>1, SnapshotsGood DEF At
<1>3. a.pos \in Pos /\ a.pos \in Nat /\ y \in Pos /\ y \in Nat /\ BlockNo[y] \in Nat
  BY <1>1, <1>2, PlacesType DEF WellTyped
<1>4. CASE a.pos \in Numbered
  <2>1. ~(edge <= BlockNo[a.pos])
    BY <1>1, <1>2, <1>4, BoundaryReached
  <2>2. BlockNo[a.pos] \in Nat /\ LastNumber[a.pos] = BlockNo[a.pos]
    BY <1>3, <1>4, PlacesType, MarkType
  <2>3. BlockNo[a.pos] <= BlockNo[y]
    BY <1>3, <2>1, <2>2
  <2>4. a.pos <= y
    BY <1>4, <2>3, NumbersGrow
  <2> QED
    BY <2>1, <2>2, <2>4
<1>5. CASE \A n \in Numbered : ~(n <= a.pos)
  <2>1. LastNumber[a.pos] = 0
    BY <1>3, <1>5, MarkType
  <2>2. ~(y <= a.pos)
    BY <1>5
  <2> QED
    BY <1>3, <2>1, <2>2
<1>6. CASE a.pos \notin Numbered /\ table = "block" /\ \E n \in Numbered : n <= a.pos
  <2>1. PICK q \in Numbered : /\ q <= a.pos /\ LastNumber[a.pos] = BlockNo[q]
                              /\ \A n \in Numbered : n <= a.pos => n <= q
    BY <1>3, <1>6, LastNumberIs
  <2>2. u = "block"
    BY <1>6 DEF AnchorSpine
  <2>3. BlockNo[q] < edge \/ edge \in Differing
    BY <1>6, <2>1, <2>2, BoundaryBelow
  <2>4. ASSUME BlockNo[q] < edge
        PROVE  a.pos <= y /\ LastNumber[a.pos] <= edge
    <3>1. BlockNo[q] \in Nat /\ q \in Nat
      BY PlacesType
    <3>2. ~(y <= q)
      <4>1. ~(BlockNo[y] <= BlockNo[q])
        BY <1>3, <2>4, <3>1
      <4> QED
        BY <4>1, NumbersGrow
    <3>3. ~(y <= a.pos)
      BY <2>1, <3>2
    <3> QED
      BY <1>3, <2>1, <2>4, <3>1, <3>3
  <2> QED
    BY <2>3, <2>4
<1> QED
  BY <1>4, <1>5, <1>6

LEMMA BucketPlaces ==
  ASSUME InputInv, ~OnEpochs, NEW d \in DB, NEW l \in Four(dbs, d), NEW i \in At(dbs, d), i <= l[4],
         NEW edges \in Seq(0 .. Cutoff), Ascends(edges), 1 <= Len(edges),
         NEW thr, Boundaries(table, dbs, d, i, edges, thr), Ascends(thr),
         NEW v \in 0 .. Len(edges), NEW r \in BucketAt(table, dbs, d, l, thr, v),
         NEW y \in Numbered, BothReach(y), BucketWindow(v, edges, Cutoff).hi <= BlockNo[y]
  PROVE  LET w == BucketWindow(v, edges, Cutoff)
         IN  \/ Within(w, Differing)
             \/ r.pos \in Pos /\ r.pos <= y /\ w.lo <= LastNumber[r.pos] /\ LastNumber[r.pos] <= w.hi
<1> DEFINE w == BucketWindow(v, edges, Cutoff)
           S == dbs.history[d][i]
           T == dbs.history[d][l[4]]
           u == AnchorSpine(table)
<1>1. table \in Tables /\ dbs \in Databases[table] /\ table # "epoch" /\ u \in Spine
  <2>1. table \in Tables /\ dbs \in Databases[table] /\ table # "epoch"
    BY DEF InputInv, OnEpochs
  <2> QED
    BY <2>1, TableKinds
<1>2. l[4] \in At(dbs, d)
  BY DEF Four
<1>3. WellTyped(S) /\ InChainOrder(S) /\ Linked(S) /\ WellTyped(T) /\ InChainOrder(T) /\ Linked(T)
  BY <1>1, <1>2, SnapshotsGood DEF At
<1>4. /\ r \in IdRangeRowsAt(table, dbs, d, l, None) /\ r \in TableRows(table, T)
      /\ Anchor(table, r) # None /\ WidthBucket(Anchor(table, r), thr) = v
  BY DEF BucketAt, IdRangeRowsAt, Selected, Between
<1>5. /\ r.pos \in Pos
      /\ \E a \in T[u] : a.id = Anchor(table, r) /\ a.pos = r.pos
  BY <1>1, <1>3, <1>4, AnchorRow
<1>6. PICK a \in T[u] : a.id = Anchor(table, r) /\ a.pos = r.pos
  BY <1>5
<1>7. a.id \in Nat /\ LastNumber[a.pos] \in Nat /\ a.pos \in Pos
  BY <1>1, <1>3, <1>5, <1>6, MarkType DEF WellTyped
<1>8. \A k \in 1 .. Len(edges) : thr[k] <= a.id <=> k <= v
  BY <1>1, <1>4, <1>6, <1>7, ThresholdsReached
<1>9. Len(edges) \in Nat /\ v \in Nat /\ \A k \in 1 .. Len(edges) : edges[k] \in 0 .. Cutoff /\ edges[k] \in Nat
  BY LenProperties, ElementOfSeq, LocalizeAssumption
<1>10. \A k \in 1 .. Len(edges) : thr[k] # None /\ thr[k] = BoundaryId(S, u, edges[k])
  BY DEF Boundaries
<1>11. w.lo \in Nat /\ w.hi \in Nat /\ w.lo <= w.hi
  BY BucketWindowType, LocalizeAssumption
<1> HIDE DEF S, T, u
<1>12. ASSUME a \in S[u]
       PROVE  w.lo <= LastNumber[a.pos]
  <2>1. CASE v = 0
    BY <1>7, <2>1 DEF BucketWindow
  <2>2. CASE v # 0
    <3>1. w.lo = edges[v] /\ v \in 1 .. Len(edges)
      BY <1>9, <2>2 DEF BucketWindow
    <3>2. thr[v] <= a.id
      BY <1>8, <1>9, <3>1
    <3> QED
      BY <1>1, <1>3, <1>9, <1>10, <1>12, <3>1, <3>2, AboveThreshold
  <2> QED
    BY <2>1, <2>2
<1>13. CASE v < Len(edges)
  <2> DEFINE next == v + 1
  <2>1. next \in 1 .. Len(edges) /\ w.hi = edges[next] /\ edges[next] \in Nat
    BY <1>9, <1>13 DEF BucketWindow
  <2>2. ~(thr[next] <= a.id)
    BY <1>8, <1>9, <2>1
  <2> HIDE DEF next
  <2>3. PICK f \in S[u] : thr[next] = f.id
    <3>1. BoundaryId(S, u, edges[next]) # None /\ thr[next] = BoundaryId(S, u, edges[next])
      BY <1>10, <2>1
    <3> QED
      BY <1>1, <1>3, <2>1, <3>1, BoundaryRow
  <2>4. a \in S[u]
    <3>1. f.id \in Nat
      BY <1>1, <1>3 DEF WellTyped
    <3>2. a.id <= f.id
      BY <1>7, <2>2, <2>3, <3>1
    <3> QED
      BY <1>1, <1>2, <3>2, NotReused DEF S, T
  <2>5. a.pos \in Numbered \/ table = "block" \/ \A n \in Numbered : ~(n <= a.pos)
    BY <1>1, <1>3, <1>4, <1>5, <1>6, BoundaryBlocks
  <2>6. w.hi \in Differing \/ (a.pos <= y /\ LastNumber[a.pos] <= w.hi)
    <3> DEFINE edge == edges[next]
    <3>1. BoundaryId(S, u, edge) # None /\ ~(BoundaryId(S, u, edge) <= a.id)
      BY <1>10, <2>1, <2>2
    <3>2. edge \in Nat /\ edge <= BlockNo[y] /\ w.hi = edge
      BY <2>1
    <3> HIDE DEF edge, w
    <3> QED
      BY <2>4, <2>5, <3>1, <3>2, AnchorBelow DEF S, u
  <2>7. w.hi \in Differing => Within(w, Differing)
    BY <1>11 DEF Within
  <2> QED
    BY <1>5, <1>6, <1>12, <2>4, <2>6, <2>7
<1>14. CASE v = Len(edges)
  <2>1. w.hi = Cutoff
    BY <1>9, <1>14 DEF BucketWindow
  <2>2. BlockNo[y] = Cutoff /\ r \in TableRows(table, dbs.history[d][1]) /\ r.pos <= y
    BY <1>4, <2>1, CutoffRows
  <2>3. LastNumber[r.pos] <= w.hi
    <3>1. CASE \E n \in Numbered : n <= r.pos
      <4>1. LastNumber[r.pos] <= BlockNo[y]
        BY <1>5, <2>2, <3>1, LastNumberBetween
      <4> QED
        BY <2>1, <2>2, <4>1
    <3>2. CASE \A n \in Numbered : ~(n <= r.pos)
      BY <1>5, <1>11, <3>2, MarkType
    <3> QED
      BY <3>1, <3>2
  <2>4. a \in S[u]
    <3>1. Below(dbs, a.pos)
      <4>1. Below(dbs, y) /\ y \in Pos
        BY ReachedNumber, PlacesType
      <4> QED
        BY <1>6, <1>7, <2>2, <4>1, EarlierBelow
    <3>2. a \in dbs.history[d][1][u]
      BY <1>1, <1>2, <3>1, SettledIn DEF T
    <3> QED
      BY <1>1, <3>1, <3>2, SettledIn DEF S
  <2> QED
    BY <1>5, <1>6, <1>12, <2>2, <2>3, <2>4
<1> QED
  BY <1>9, <1>13, <1>14

LEMMA BucketWithin ==
  ASSUME InputInv, ~OnEpochs, NEW i1 \in At(dbs, 1), NEW i2 \in At(dbs, 2),
         NEW k, k = AlignmentAt(table, dbs, i1, i2), Len(k.edges) >= 2,
         NEW l1 \in Four(dbs, 1), NEW l2 \in Four(dbs, 2), i1 <= l1[4], i2 <= l2[4],
         NEW v \in DifferentBuckets(table, dbs, k, l1, l2)
  PROVE  Within(BucketWindow(v, k.edges, Cutoff), Differing \cup Beyond)
<1> DEFINE w == BucketWindow(v, k.edges, Cutoff)
           l(d) == IF d = 1 THEN l1 ELSE l2
           i(d) == IF d = 1 THEN i1 ELSE i2
           R(d) == BucketAt(table, dbs, d, l(d), k.thresholds[d], v)
           C(d) == [r \in R(d) |-> r.pos]
<1>0. 1 \in DB /\ 2 \in DB /\ \A d \in DB : d = 1 \/ d = 2
  BY DEF DB
<1>1. table \in Tables /\ dbs \in Databases[table] /\ table # "epoch"
  BY DEF InputInv, OnEpochs
<1>2. /\ k.edges \in Seq(0 .. Cutoff) /\ Ascends(k.edges)
      /\ \A d \in DB : /\ l(d) \in Four(dbs, d) /\ i(d) \in At(dbs, d) /\ i(d) <= l(d)[4]
                       /\ Boundaries(table, dbs, d, i(d), k.edges, k.thresholds[d])
                       /\ Ascends(k.thresholds[d])
  <2> HIDE DEF Boundaries, Ascends
  <2>1. /\ k.edges \in Seq(0 .. Cutoff) /\ Ascends(k.edges)
        /\ Boundaries(table, dbs, 1, i1, k.edges, k.thresholds[1]) /\ Ascends(k.thresholds[1])
        /\ Boundaries(table, dbs, 2, i2, k.edges, k.thresholds[2]) /\ Ascends(k.thresholds[2])
    BY <1>1, AlignmentKeeps
  <2> QED
    BY <1>0, <2>1
<1>3. v \in 0 .. Len(k.edges) /\ SetHash(R(1)) # SetHash(R(2)) /\ Len(k.edges) \in Nat
  BY <1>2, LenProperties DEF DifferentBuckets
<1>4. w.lo \in Nat /\ w.hi \in 0 .. Cutoff /\ w.lo <= w.hi /\ Top = Cutoff
  <2>1. Top = Cutoff
    BY DEF Top
  <2>2. 1 <= Len(k.edges) /\ Cutoff \in Nat
    BY <1>3, LocalizeAssumption
  <2>3. w \in [lo : 0 .. Cutoff, hi : 0 .. Cutoff] /\ w.lo <= w.hi
    BY <1>2, <1>3, <2>2, BucketWindowType
  <2> HIDE DEF w
  <2> QED
    BY <2>1, <2>2, <2>3
<1>5. CASE w.hi \in Beyond
  BY <1>4, <1>5, LocalizeAssumption DEF Within
<1>6. CASE w.hi \notin Beyond
  <2>1. PICK y \in Numbered : BothReach(y) /\ w.hi <= BlockNo[y]
    BY <1>4, <1>6, BeyondIs
  <2> SUFFICES ASSUME ~Within(w, Differing)
               PROVE  FALSE
    BY DEF Within
  <2> HIDE DEF l, i, w
  <2>2. ASSUME NEW d \in DB, NEW r \in R(d)
        PROVE  r.pos \in Pos /\ r.pos <= y /\ w.lo <= LastNumber[r.pos] /\ LastNumber[r.pos] <= w.hi
    <3>1. 1 <= Len(k.edges)
      BY <1>3
    <3> QED
      BY <1>2, <1>3, <2>1, <2>2, <3>1, BucketPlaces DEF w
  <2>3. \A d \in DB : IsFiniteSet(R(d)) /\ R(d) \subseteq TableRows(table, dbs.history[d][l(d)[4]])
                      /\ l(d)[4] \in At(dbs, d)
    BY <1>1, <1>2, BucketAtType
  <2>4. \A d \in DB : \A p : {r \in R(d) : C(d)[r] = p} = {r \in R(d) : r.pos = p}
    OBVIOUS
  <2> HIDE DEF R
  <2>5. PICK p : SetHash({r \in R(1) : C(1)[r] = p}) # SetHash({r \in R(2) : C(2)[r] = p})
    <3>1. ~Alike(R(1), C(1), R(2), C(2))
      <4> HIDE DEF C
      <4> QED
        BY <1>0, <1>3, <2>3, SameParts
    <3> QED
      BY <3>1 DEF Alike
  <2> HIDE DEF C
  <2>6. SetHash({r \in R(1) : r.pos = p}) # SetHash({r \in R(2) : r.pos = p})
    BY <1>0, <2>4, <2>5
  <2>7. PICK d \in DB : \E r \in R(d) : r.pos = p
    <3> SUFFICES ASSUME \A d \in DB : \A r \in R(d) : r.pos # p
                 PROVE  FALSE
      OBVIOUS
    <3>1. {r \in R(1) : r.pos = p} = {} /\ {r \in R(2) : r.pos = p} = {}
      BY <1>0
    <3> QED
      BY <2>6, <3>1
  <2>8. PICK r \in R(d) : r.pos = p
    BY <2>7
  <2>9. p \in Pos /\ p <= y /\ w.lo <= LastNumber[p] /\ LastNumber[p] <= w.hi
    BY <2>2, <2>8
  <2>10. BothReach(p) /\ Reaches(table, dbs, 1, p) /\ Reaches(table, dbs, 2, p) /\ y \in Pos
    <3>1. y \in Pos
      BY PlacesType
    <3> QED
      BY <2>1, <2>9, <3>1, EarlierReached
  <2>11. LastNumber[p] \notin Differing
    BY <2>9 DEF Within
  <2> DEFINE Marked == \/ p \in Numbered
                       \/ \A n \in Numbered : ~(n <= p)
                       \/ table = "block" /\ HasMark(dbs, 1, p) /\ HasMark(dbs, 2, p)
  <2>12. CASE Marked
    <3> DEFINE b == EdgesUpTo(k.edges, MarkOf(p))
    <3>1. \A e \in DB : \A o \in PlaceRows(table, dbs, e, p) :
            WidthBucket(Anchor(table, o), k.thresholds[e]) = b
      <4> SUFFICES ASSUME NEW e \in DB, NEW o \in PlaceRows(table, dbs, e, p)
                   PROVE  WidthBucket(Anchor(table, o), k.thresholds[e]) = b
        OBVIOUS
      <4>1. Reaches(table, dbs, e, p)
        BY <1>0, <2>10
      <4>2. \/ p \in Numbered
            \/ \A n \in Numbered : ~(n <= p)
            \/ table = "block" /\ HasMark(dbs, e, p)
        BY <1>0, <2>12
      <4> QED
        BY <1>1, <1>2, <2>9, <4>1, <4>2, PlaceBucket
    <3>2. \A e \in DB : {o \in IdRangeRowsAt(table, dbs, e, l(e), None) : o.pos = p} = PlaceRows(table, dbs, e, p)
      BY <1>0, <1>1, <1>2, <2>9, <2>10, PlaceHeld
    <3> HIDE DEF b
    <3>3. r \in PlaceRows(table, dbs, d, p) /\ WidthBucket(Anchor(table, r), k.thresholds[d]) = v
      BY <2>8, <3>2 DEF R, BucketAt
    <3>4. b = v
      BY <3>1, <3>3
    <3>5. \A e \in DB : {o \in R(e) : o.pos = p} = PlaceRows(table, dbs, e, p)
      <4> SUFFICES ASSUME NEW e \in DB
                   PROVE  {o \in R(e) : o.pos = p} = PlaceRows(table, dbs, e, p)
        OBVIOUS
      <4>1. \A o : o \in R(e) <=> /\ o \in IdRangeRowsAt(table, dbs, e, l(e), None)
                                  /\ WidthBucket(Anchor(table, o), k.thresholds[e]) = v
        BY DEF R, BucketAt
      <4>2. \A o : o \in R(e) /\ o.pos = p <=> o \in PlaceRows(table, dbs, e, p)
        BY <3>1, <3>2, <3>4, <4>1
      <4>3. \A o \in PlaceRows(table, dbs, e, p) : o.pos = p
        BY DEF PlaceRows
      <4> QED
        BY <4>2, <4>3
    <3>6. SetHash(PlaceRows(table, dbs, 1, p)) # SetHash(PlaceRows(table, dbs, 2, p))
      BY <1>0, <2>6, <3>5
    <3> QED
      BY <2>9, <2>10, <2>11, <3>6, PlaceDiffers
  <2>13. CASE ~Marked
    <3>1. PICK q \in Numbered : /\ q <= p /\ LastNumber[p] = BlockNo[q]
                                /\ \A n \in Numbered : n <= p => n <= q
      BY <2>9, <2>13, LastNumberIs
    <3>2. table = "block"
      <4>1. Linked(dbs.history[d][l(d)[4]])
        BY <1>1, <2>3, SnapshotsGood DEF At
      <4>2. r \in TableRows(table, dbs.history[d][l(d)[4]])
        BY <2>3, <2>8
      <4> QED
        BY <1>1, <2>8, <2>9, <2>13, <3>1, <4>1, <4>2, BoundaryBlocks
    <3>3. PICK e \in DB : ~HasMark(dbs, e, p)
      BY <1>0, <2>13, <3>2
    <3>4. \A o \in dbs.history[e][1]["block"] : o.pos # q
      BY <3>1, <3>3 DEF HasMark
    <3>5. BothReach(q)
      <4>1. q \in Pos
        BY PlacesType
      <4> QED
        BY <2>9, <2>10, <3>1, <4>1, EarlierReached
    <3>6. BlockNo[q] \in Differing
      BY <3>2, <3>4, <3>5, LackDiffers
    <3> QED
      BY <2>11, <3>1, <3>6
  <2> QED
    BY <2>12, <2>13
<1> QED
  BY <1>5, <1>6

-----------------------------------------------------------------------------
(***************************************************************************)
(* Buckets miss no number at which settled rows differ, even beyond what   *)
(* one of the databases has.                                               *)
(***************************************************************************)
LEMMA NumberFound ==
  ASSUME NEW t \in Tables, t # "epoch", NEW x \in Databases[t], x.tied,
         NEW k \in Alignments(t, x), Len(k.edges) >= 2,
         NEW l1 \in Four(x, 1), NEW l2 \in Four(x, 2), NEW c, DiffersAt(t, x, c)
  PROVE  Holds(BucketsFound(t, x, k, l1, l2), c)
<1>0. 1 \in DB /\ 2 \in DB
  BY DEF DB
<1>1. c \in 0 .. SettledOf(t, x) /\ SetHash(RowsOf(t, x, 1, c)) # SetHash(RowsOf(t, x, 2, c))
  BY DEF DiffersAt
<1>2. SettledOf(t, x) \in Nat
  BY DatabasesAssumption, LocalizeAssumption DEF SettledOf, TopOf
<1>3. PICK d \in DB : RowsOf(t, x, d, c) # {}
  <2>1. RowsOf(t, x, 1, c) # {} \/ RowsOf(t, x, 2, c) # {}
    BY <1>1 DEF RowsOf
  <2> QED
    BY <1>0, <2>1
<1>4. \A e \in DB : \A r \in TableRows(t, x.history[e][1]) : r.pos = 0 \/ r.pos \in Pos
  <2> SUFFICES ASSUME NEW e \in DB, NEW r \in TableRows(t, x.history[e][1])
               PROVE  r.pos = 0 \/ r.pos \in Pos
    OBVIOUS
  <2>1. WellTyped(x.history[e][1])
    <3>1. 1 \in At(x, e)
      BY SettledSame
    <3> QED
      BY <3>1, SnapshotsGood DEF At
  <2> HIDE DEF WellTyped
  <2>2. \A u \in {"block", "tx", "leaf"} : \A o \in x.history[e][1][u] : o.pos \in Pos
    BY <2>1 DEF WellTyped, Spine
  <2>3. \A o \in x.history[e][1]["committee"] : o.pos = 0 \/ o.pos \in Pos
    BY <2>1 DEF WellTyped
  <2>4. \E u \in {"block", "tx", "leaf", "committee"} : r \in x.history[e][1][u]
    BY TableKinds
  <2> QED
    BY <2>2, <2>3, <2>4
<1>5. PICK r \in TableRows(t, x.history[d][1]) : NumberAt(t, r) = c
  BY <1>3 DEF RowsOf
<1>6. c \in Nat /\ c # None /\ c <= SettledOf(t, x)
  BY <1>1, <1>2, NoneAssumption
<1> DEFINE p == r.pos
<1>7. p # 0 /\ BlockNo[p] = c
  BY <1>5, <1>6 DEF NumberAt
<1>8. p \in Pos /\ p \in Numbered
  BY <1>4, <1>6, <1>7 DEF Numbered
<1>9. \A q \in Pos : BlockNo[q] = c <=> q = p
  <2> SUFFICES ASSUME NEW q \in Pos, BlockNo[q] = c
               PROVE  q = p
    BY <1>7
  <2>1. q \in Numbered
    BY <1>6 DEF Numbered
  <2>2. q <= p /\ p <= q
    BY <1>6, <1>7, <1>8, <2>1, NumbersGrow
  <2> QED
    BY <1>8, <2>2, PlacesType
<1> HIDE DEF p
<1>10. \A e \in DB : RowsOf(t, x, e, c) = PlaceRows(t, x, e, p)
  <2> SUFFICES ASSUME NEW e \in DB
               PROVE  RowsOf(t, x, e, c) = PlaceRows(t, x, e, p)
    OBVIOUS
  <2>1. \A o \in TableRows(t, x.history[e][1]) : NumberAt(t, o) = c <=> o.pos = p
    <3> SUFFICES ASSUME NEW o \in TableRows(t, x.history[e][1])
                 PROVE  NumberAt(t, o) = c <=> o.pos = p
      OBVIOUS
    <3>1. CASE o.pos = 0
      BY <1>6, <1>7, <3>1 DEF NumberAt
    <3>2. CASE o.pos \in Pos
      <4>1. o.pos # 0
        BY <3>2, PlacesType
      <4>2. NumberAt(t, o) = BlockNo[o.pos]
        BY <4>1 DEF NumberAt
      <4> QED
        BY <1>9, <3>2, <4>2
    <3> QED
      BY <1>4, <3>1, <3>2
  <2> QED
    BY <2>1 DEF RowsOf, PlaceRows
<1>11. SetHash(PlaceRows(t, x, 1, p)) # SetHash(PlaceRows(t, x, 2, p))
  BY <1>0, <1>1, <1>10
<1>12. Told(t, x, 1, p) /\ Told(t, x, 2, p)
  BY <1>6, <1>7, <1>8 DEF Told
<1>13. LastNumber[p] = c
  BY <1>7, <1>8, MarkType
<1> QED
  BY <1>8, <1>11, <1>12, <1>13, PlaceFound

(* The windows of buckets ascend, and meet at most in a common edge. *)
LEMMA BucketsAscend ==
  ASSUME NEW edges \in Seq(0 .. Cutoff), Ascends(edges), 1 <= Len(edges),
         NEW v \in 0 .. Len(edges), NEW u \in 0 .. Len(edges), v < u
  PROVE  BucketWindow(v, edges, Cutoff).hi <= BucketWindow(u, edges, Cutoff).lo
<1>1. /\ Len(edges) \in Nat /\ DOMAIN edges = 1 .. Len(edges)
      /\ \A k \in 1 .. Len(edges) : edges[k] \in Int
  BY LenProperties, ElementOfSeq, LocalizeAssumption
<1>2. BucketWindow(v, edges, Cutoff).hi = edges[v + 1]
  BY <1>1 DEF BucketWindow
<1>3. BucketWindow(u, edges, Cutoff).lo = edges[u]
  BY <1>1 DEF BucketWindow
<1>4. v + 1 \in 1 .. Len(edges) /\ u \in 1 .. Len(edges) /\ (v + 1 = u \/ v + 1 < u)
  BY <1>1
<1>5. v + 1 < u => edges[v + 1] < edges[u]
  BY <1>1, <1>4 DEF Ascends
<1> QED
  BY <1>1, <1>2, <1>3, <1>4, <1>5

LEMMA BucketsInOrder ==
  ASSUME NEW t \in Tables, NEW x \in Databases[t], NEW k \in Alignments(t, x), Len(k.edges) >= 2,
         NEW l1, NEW l2
  PROVE  LET F == BucketsFound(t, x, k, l1, l2)
         IN  /\ \E n \in Nat : DOMAIN F = 1 .. n
             /\ \A i \in DOMAIN F : \E v \in DifferentBuckets(t, x, k, l1, l2) :
                  F[i] = BucketWindow(v, k.edges, Cutoff)
             /\ \A i, j \in DOMAIN F : i < j => F[i].hi <= F[j].lo
<1> DEFINE V == DifferentBuckets(t, x, k, l1, l2)
           f == Ascending(V)
           F == BucketsFound(t, x, k, l1, l2)
<1>1. k.edges \in Seq(0 .. Cutoff) /\ Ascends(k.edges) /\ Len(k.edges) \in Nat /\ 1 <= Len(k.edges)
  <2>1. k.edges \in Seq(0 .. Cutoff) /\ Ascends(k.edges)
    BY AlignedKeeps
  <2>2. Len(k.edges) \in Nat
    BY <2>1, LenProperties
  <2> QED
    BY <2>1, <2>2
<1>2. V \in SUBSET Nat /\ IsFiniteSet(V) /\ V \subseteq 0 .. Len(k.edges)
  <2>1. V \in SUBSET (0 .. Len(k.edges))
    BY DEF DifferentBuckets
  <2>2. IsFiniteSet(0 .. Len(k.edges))
    BY <1>1, FS_Interval
  <2>3. V \in SUBSET Nat
    BY <1>1 DEF DifferentBuckets
  <2> HIDE DEF V
  <2> QED
    BY <2>1, <2>2, <2>3, FS_Subset
<1>3. F = [i \in DOMAIN f |-> BucketWindow(f[i], k.edges, Cutoff)]
  BY DEF BucketsFound
<1> HIDE DEF V
<1>4. f \in [1 .. Cardinality(V) -> V] /\ Ascends(f) /\ Cardinality(V) \in Nat
  BY <1>2, AscendingIs, FS_CardinalityType
<1> HIDE DEF f, F
<1>5. DOMAIN F = 1 .. Cardinality(V) /\ DOMAIN f = 1 .. Cardinality(V)
  BY <1>3, <1>4
<1>6. \A i \in DOMAIN F : f[i] \in V /\ F[i] = BucketWindow(f[i], k.edges, Cutoff)
  BY <1>3, <1>4, <1>5
<1>7. \A i, j \in DOMAIN F : i < j => F[i].hi <= F[j].lo
  <2> SUFFICES ASSUME NEW i \in DOMAIN F, NEW j \in DOMAIN F, i < j
               PROVE  F[i].hi <= F[j].lo
    OBVIOUS
  <2>1. f[i] < f[j] /\ f[i] \in 0 .. Len(k.edges) /\ f[j] \in 0 .. Len(k.edges)
    BY <1>2, <1>4, <1>5, <1>6 DEF Ascends
  <2>2. BucketWindow(f[i], k.edges, Cutoff).hi <= BucketWindow(f[j], k.edges, Cutoff).lo
    BY <1>1, <2>1, BucketsAscend
  <2> QED
    BY <1>6, <2>2
<1>8. \E n \in Nat : DOMAIN F = 1 .. n
  BY <1>4, <1>5
<1> QED
  BY <1>6, <1>7, <1>8 DEF F, V

-----------------------------------------------------------------------------
(***************************************************************************)
(* What the refinement needs on top of LocalizeInv: what was found holds a *)
(* difference, and thresholds are no newer than the last query.            *)
(***************************************************************************)
HoldInv == \A i \in DOMAIN found : Within(found[i], Differing \cup Beyond)

AlignedInv ==
  pc = "hash" =>
    \E i \in At(dbs, 1), j \in At(dbs, 2) :
      i <= now[1] /\ j <= now[2] /\ kept = AlignmentAt(table, dbs, i, j)

LEMMA SameDifferences ==
  ASSUME UNCHANGED input
  PROVE  UNCHANGED <<NumberedDiffering, Differing, Beyond, ByBuckets>>
BY DEF input, Differing, NumberedDiffering, Beyond, NumberedRows, ChainRows, DifferAt, BothReach,
       OnEpochs, SettledTop, Top, NumberOf, Snapshot, ByBuckets

(* Where a step of Report, or the pass over the buckets, finds a window. *)
LEMMA ReportWithin ==
  ASSUME LocalizeInv, Report
  PROVE  Within(Last(stack), Differing \cup Beyond)
<1>1. InputInv /\ stack \in Seq(Windows(table)) /\ stack # <<>>
  BY DEF LocalizeInv, WindowInv, Report, Searching
<1>2. Last(stack) \in Windows(table)
  BY <1>1, TopAndRest
<1>3. TopHashes(TRUE)
  BY DEF Report
<1>4. PICK l1 \in Four(dbs, 1), l2 \in Four(dbs, 2) :
        TRUE = (SetHash(RowsAt(table, dbs, 1, l1, Last(stack))) # SetHash(RowsAt(table, dbs, 2, l2, Last(stack))))
  BY <1>1, <1>3, TurnSees
<1> QED
  BY <1>1, <1>2, <1>4, WindowWithin

LEMMA HashWithin ==
  ASSUME LocalizeInv, AlignedInv, HashBuckets
  PROVE  \E l1 \in Four(dbs, 1), l2 \in Four(dbs, 2) :
           /\ kept \in Alignments(table, dbs) /\ Len(kept.edges) >= 2 /\ ~OnEpochs
           /\ found' = BucketsFound(table, dbs, kept, l1, l2)
           /\ \A i \in DOMAIN found' : Within(found'[i], Differing \cup Beyond)
<1>1. InputInv /\ pc = "hash" /\ ~OnEpochs /\ Len(kept.edges) >= 2
  BY DEF LocalizeInv, CourseInv, HashBuckets, ByBuckets
<1>2. PICK i \in At(dbs, 1), j \in At(dbs, 2) :
        i <= now[1] /\ j <= now[2] /\ kept = AlignmentAt(table, dbs, i, j)
  BY <1>1 DEF AlignedInv
<1>3. PICK l1 \in Four(dbs, 1), l2 \in Four(dbs, 2) :
        now[1] <= l1[4] /\ now[2] <= l2[4] /\ found' = BucketsFound(table, dbs, kept, l1, l2)
  BY HashFinds
<1>4. i <= l1[4] /\ j <= l2[4]
  <2>1. now[1] \in Int /\ now[2] \in Int /\ l1[4] \in Int /\ l2[4] \in Int /\ i \in Int /\ j \in Int
    BY <1>1 DEF InputInv, DB, At, Four
  <2> QED
    BY <1>2, <1>3, <2>1
<1>5. kept \in Alignments(table, dbs) /\ table \in Tables /\ dbs \in Databases[table]
  BY <1>1, <1>2 DEF Alignments, InputInv
<1>6. \A n \in DOMAIN found' : \E v \in DifferentBuckets(table, dbs, kept, l1, l2) :
        found'[n] = BucketWindow(v, kept.edges, Cutoff)
  BY <1>1, <1>3, <1>5, BucketsInOrder
<1>7. \A v \in DifferentBuckets(table, dbs, kept, l1, l2) :
        Within(BucketWindow(v, kept.edges, Cutoff), Differing \cup Beyond)
  BY <1>1, <1>2, <1>4, BucketWithin
<1> QED
  BY <1>1, <1>3, <1>5, <1>6, <1>7

(***************************************************************************)
(* Everything found holds a difference, at every step of phase 2, and the  *)
(* buckets are hashed with thresholds no newer than the rows.              *)
(***************************************************************************)
THEOREM HoldInvariance == Spec => [](HoldInv /\ AlignedInv)
<1>1. Init => HoldInv /\ AlignedInv
  <2>1. Init => found = <<>> /\ pc # "hash"
    BY DEF Init
  <2> QED
    BY <2>1 DEF HoldInv, AlignedInv
<1>2. LocalizeInv /\ HoldInv /\ AlignedInv /\ [Next]_vars => (HoldInv /\ AlignedInv)'
  <2> SUFFICES ASSUME LocalizeInv, HoldInv, AlignedInv, [Next]_vars
               PROVE  HoldInv' /\ AlignedInv'
    OBVIOUS
  <2> DEFINE C == Differing \cup Beyond
  <2>1. UNCHANGED input
    BY DEF Next, vars, Align, HashBuckets, Prune, Report, Split, Stop, SearchFails, CheckNullRows, Finished
  <2>2. C' = C /\ table' = table /\ dbs' = dbs
    BY <2>1, SameDifferences DEF input
  <2>3. HoldInv' <=> \A i \in DOMAIN found' : Within(found'[i], C)
    BY <2>2 DEF HoldInv, Within
  <2>4. HoldInv <=> \A i \in DOMAIN found : Within(found[i], C)
    BY DEF HoldInv
  <2> HIDE DEF C
  <2>5. CASE Align
    <3>1. HoldInv'
      BY <2>3, <2>4, <2>5 DEF Align
    <3>2. PICK i \in From(1, now[1]), j \in From(2, now[2]) : kept' = Alignment(i, j) /\ now' = <<i, j>>
      BY <2>5 DEF Align
    <3>3. i \in At(dbs, 1) /\ j \in At(dbs, 2) /\ i <= i /\ j <= j
      BY DEF From, At, LocalizeInv, InputInv, DB
    <3>4. kept' = AlignmentAt(table, dbs, i, j) /\ now'[1] = i /\ now'[2] = j
      BY <3>2, AlignmentAtIs
    <3>5. AlignedInv'
      BY <2>2, <3>3, <3>4 DEF AlignedInv
    <3> QED
      BY <3>1, <3>5
  <2>6. CASE HashBuckets
    <3>1. \A i \in DOMAIN found' : Within(found'[i], C)
      BY <2>6, HashWithin DEF C
    <3>2. pc' # "hash"
      BY <2>6 DEF HashBuckets
    <3> QED
      BY <2>3, <3>1, <3>2 DEF AlignedInv
  <2>7. CASE Report
    <3>1. found \in Seq(Windows(table)) /\ found' = Append(found, Last(stack)) /\ pc' # "hash"
      BY <2>7 DEF LocalizeInv, WindowInv, Report, Searching
    <3>2. Within(Last(stack), C)
      BY <2>7, ReportWithin DEF C
    <3>3. \A i \in DOMAIN found' : (i \in DOMAIN found /\ found'[i] = found[i]) \/ found'[i] = Last(stack)
      BY <3>1
    <3> QED
      BY <2>3, <2>4, <3>1, <3>2, <3>3 DEF AlignedInv
  <2>8. CASE Prune \/ Split \/ Stop \/ CheckNullRows
    <3>1. found' = found /\ pc' # "hash"
      BY <2>8 DEF Prune, Split, Stop, CheckNullRows, Searching
    <3> QED
      BY <2>3, <2>4, <3>1 DEF AlignedInv
  <2>9. CASE SearchFails
    <3>1. found' = <<>> /\ pc' # "hash"
      BY <2>9 DEF SearchFails
    <3> QED
      BY <2>3, <3>1 DEF AlignedInv
  <2>10. CASE Finished \/ UNCHANGED vars
    <3>1. UNCHANGED <<found, pc, now, kept>>
      BY <2>10 DEF Finished, vars
    <3> QED
      BY <2>2, <2>3, <2>4, <3>1 DEF AlignedInv
  <2> QED
    BY <2>5, <2>6, <2>7, <2>8, <2>9, <2>10 DEF Next
<1>3. Spec => []LocalizeInv
  BY LocalizeInvariance
<1> QED
  BY <1>1, <1>2, <1>3, PTL DEF Spec

-----------------------------------------------------------------------------
(***************************************************************************)
(* The promise of module Localization, step by step.                       *)
(***************************************************************************)
Numbers == IF dbs.tied THEN NumberedDiffering ELSE {}

GoodList(ws, diff, nums) ==
  /\ \A i \in DOMAIN ws : \E c \in diff : ws[i].lo <= c /\ c <= ws[i].hi
  /\ \A i \in 2 .. Len(ws) : ws[i - 1].hi <= ws[i].lo
  /\ \A c \in nums : c <= ws[Len(ws)].hi => Holds(ws, c)

LEMMA CoversIs ==
  /\ \A ws, c : Promise!Covers(ws, c) <=> Holds(ws, c)
  /\ \A w, c : Promise!Covers(<<w>>, c) <=> w.lo <= c /\ c <= w.hi
<1>1. \A ws, c : Promise!Covers(ws, c) <=> Holds(ws, c)
  BY DEF Promise!Covers, Holds
<1>2. \A w, c : Holds(<<w>>, c) <=> w.lo <= c /\ c <= w.hi
  BY DEF Holds
<1> QED
  BY <1>1, <1>2

LEMMA PrefixOfAppend ==
  ASSUME NEW S, NEW s \in Seq(S), NEW e
  PROVE  Promise!IsPrefix(s, s) /\ Promise!IsPrefix(<<>>, s) /\ Promise!IsPrefix(s, Append(s, e))
<1>1. Len(s) \in Nat /\ Len(Append(s, e)) = Len(s) + 1 /\ Len(<<>>) = 0
  BY LenProperties
<1>2. \A i \in 1 .. Len(s) : Append(s, e)[i] = s[i]
  OBVIOUS
<1>3. SubSeq(s, 1, Len(s)) = SubSeq(Append(s, e), 1, Len(s))
  BY <1>1, <1>2
<1>4. SubSeq(<<>>, 1, 0) = SubSeq(s, 1, 0)
  OBVIOUS
<1> QED
  BY <1>1, <1>3, <1>4 DEF Promise!IsPrefix

(* A step that leaves the list alone, or replaces it by a good one, finds. *)
LEMMA StepFinds ==
  ASSUME LocalizeInv, UNCHANGED input, pc \in {"align", "hash", "search"},
         Promise!IsPrefix(found, found'),
         found' # found => GoodList(found', Differing \cup Beyond, Numbers)
  PROVE  Promise!Find
<1>1. UNCHANGED <<Differing \cup Beyond, Numbers>>
  BY SameDifferences DEF Numbers, input
<1>2. (CASE pc \in {"align", "hash", "search"}                      -> "searching"
         [] pc \in {"nullrows", "done"} /\ "windows" \in errors     -> "failed"
         [] pc \in {"nullrows", "done"} /\ "windows" \notin errors  -> "done") = "searching"
  OBVIOUS
<1>3. found' # found =>
        /\ \A i \in DOMAIN found' : \E c \in Differing \cup Beyond : Promise!Covers(<<found'[i]>>, c)
        /\ \A i \in 2 .. Len(found') : found'[i - 1].hi <= found'[i].lo
        /\ \A c \in Numbers : c <= found'[Len(found')].hi => Promise!Covers(found', c)
  BY CoversIs DEF GoodList
<1> HIDE DEF Differing, Beyond
<1> QED
  BY <1>1, <1>2, <1>3 DEF Promise!Find, Numbers

LEMMA ReportGood ==
  ASSUME LocalizeInv, Report, LocalizeInv', HoldInv'
  PROVE  GoodList(found', Differing \cup Beyond, Numbers)
<1> DEFINE C == Differing \cup Beyond
<1>1. UNCHANGED input /\ pc = "search" /\ pc' = "search" /\ found' = Append(found, Last(stack))
  BY DEF Report, Searching
<1>2. C' = C /\ table' = table /\ dbs' = dbs
  BY <1>1, SameDifferences DEF input
<1>3. \A i \in DOMAIN found' : \E c \in C : found'[i].lo <= c /\ c <= found'[i].hi
  BY <1>2 DEF HoldInv, Within
<1>4. Bisecting'
  BY <1>1 DEF Bisecting
<1>5. LowestAbove(found', stack', Narrow')
  BY <1>4 DEF LocalizeInv, OrderInv
<1>6. dbs.tied => \A c \in Nat : DiffersAt(table, dbs, c) => Holds(stack', c) \/ Holds(found', c)
  BY <1>1, <1>2, <1>4 DEF LocalizeInv, CoverInv
<1>7. /\ found' \in Seq(Windows(table)) /\ stack' \in Seq(Windows(table))
      /\ Len(found') = Len(found) + 1 /\ Len(found) \in Nat
      /\ DOMAIN found' = 1 .. Len(found')
  <2>1. found' \in Seq(Windows(table)) /\ stack' \in Seq(Windows(table)) /\ found \in Seq(Windows(table))
    BY <1>2 DEF LocalizeInv, WindowInv
  <2> QED
    BY <1>1, <2>1, LenProperties
<1>8. \A i \in DOMAIN found' : found'[i].lo \in Nat /\ found'[i].hi \in Nat /\ found'[i].lo <= found'[i].hi
  <2> SUFFICES ASSUME NEW i \in DOMAIN found'
               PROVE  found'[i].lo \in Nat /\ found'[i].hi \in Nat /\ found'[i].lo <= found'[i].hi
    OBVIOUS
  <2>1. found'[i] \in Windows(table)
    BY <1>7, ElementOfSeq
  <2> QED
    BY <2>1, LocalizeAssumption DEF Windows, TopOf
<1>9. \A i \in 2 .. Len(found') : found'[i - 1].hi <= found'[i].lo
  <2> SUFFICES ASSUME NEW i \in 2 .. Len(found')
               PROVE  found'[i - 1].hi <= found'[i].lo
    OBVIOUS
  <2>1. i \in DOMAIN found' /\ i - 1 \in DOMAIN found' /\ i - 1 < i
    BY <1>7
  <2>2. found'[i - 1].hi < found'[i].lo
    BY <1>5, <2>1 DEF LowestAbove
  <2> QED
    BY <1>8, <2>1, <2>2
<1>10. ASSUME NEW c \in Numbers, c <= found'[Len(found')].hi
       PROVE  Holds(found', c)
  <2>1. dbs.tied /\ c \in Nat /\ DiffersAt(table, dbs, c)
    BY <1>10, DifferingNumbers DEF Numbers, LocalizeInv
  <2>2. ASSUME Holds(stack', c)
        PROVE  FALSE
    <3>1. PICK j \in DOMAIN stack' : stack'[j].lo <= c
      BY <2>2 DEF Holds
    <3>2. Len(found') \in DOMAIN found'
      BY <1>7
    <3>3. found'[Len(found')].hi < stack'[j].lo
      BY <1>5, <3>1, <3>2 DEF LowestAbove
    <3>4. stack'[j].lo \in Nat
      <4>1. stack'[j] \in Windows(table)
        BY <1>7, <3>1, ElementOfSeq, LenProperties
      <4> QED
        BY <4>1, LocalizeAssumption DEF Windows, TopOf
    <3> QED
      BY <1>8, <1>10, <2>1, <3>1, <3>2, <3>3, <3>4
  <2> QED
    BY <1>6, <2>1, <2>2
<1> QED
  BY <1>3, <1>9, <1>10 DEF GoodList

(* The pass over the buckets misses nothing. *)
LEMMA HashGood ==
  ASSUME LocalizeInv, AlignedInv, HashBuckets
  PROVE  /\ GoodList(found', Differing \cup Beyond, Numbers)
         /\ \A c \in Numbers : Holds(found', c)
<1>1. PICK l1 \in Four(dbs, 1), l2 \in Four(dbs, 2) :
        /\ kept \in Alignments(table, dbs) /\ Len(kept.edges) >= 2 /\ ~OnEpochs
        /\ found' = BucketsFound(table, dbs, kept, l1, l2)
        /\ \A i \in DOMAIN found' : Within(found'[i], Differing \cup Beyond)
  BY HashWithin
<1>2. table \in Tables /\ dbs \in Databases[table] /\ table # "epoch" /\ InputInv
  BY <1>1 DEF LocalizeInv, InputInv, OnEpochs
<1>3. \A c \in Numbers : Holds(found', c)
  <2> SUFFICES ASSUME NEW c \in Numbers
               PROVE  Holds(found', c)
    OBVIOUS
  <2>1. dbs.tied /\ DiffersAt(table, dbs, c)
    BY <1>2, DifferingNumbers DEF Numbers
  <2> QED
    BY <1>1, <1>2, <2>1, NumberFound
<1>4. /\ \E n \in Nat : DOMAIN found' = 1 .. n
      /\ \A i, j \in DOMAIN found' : i < j => found'[i].hi <= found'[j].lo
  BY <1>1, <1>2, BucketsInOrder
<1>5. found' \in Seq(Windows(table)')
  BY HashKeepsInv DEF LocalizeInv, WindowInv
<1>6. Len(found') \in Nat /\ DOMAIN found' = 1 .. Len(found')
  BY <1>5, LenProperties
<1>7. \A i \in 2 .. Len(found') : found'[i - 1].hi <= found'[i].lo
  BY <1>4, <1>6
<1>8. \A i \in DOMAIN found' : \E c \in Differing \cup Beyond : found'[i].lo <= c /\ c <= found'[i].hi
  BY <1>1 DEF Within
<1> QED
  BY <1>3, <1>7, <1>8 DEF GoodList

(* When the bisection stops with nothing on the stack, all is found. *)
LEMMA StopComplete ==
  ASSUME LocalizeInv, Stop, LocalizeInv', ~truncated'
  PROVE  \A c \in Numbers : Holds(found', c)
<1> SUFFICES ASSUME NEW c \in Numbers
             PROVE  Holds(found', c)
  OBVIOUS
<1>1. UNCHANGED input /\ pc = "search" /\ pc' = "nullrows" /\ stack' = <<>> /\ UNCHANGED <<kept, errors>>
  BY DEF Stop
<1>2. table' = table /\ dbs' = dbs /\ ByBuckets' = ByBuckets
  BY <1>1, SameDifferences DEF input
<1>3. "windows" \notin errors' /\ ~(ByBuckets' /\ Len(kept'.edges) >= 2)
  BY <1>1, <1>2 DEF LocalizeInv, CourseInv
<1>4. Bisecting'
  BY <1>3 DEF Bisecting
<1>5. dbs.tied /\ c \in Nat /\ DiffersAt(table, dbs, c)
  BY DifferingNumbers DEF Numbers, LocalizeInv
<1>6. Holds(stack', c) \/ Holds(found', c)
  BY <1>1, <1>2, <1>4, <1>5 DEF LocalizeInv, CoverInv
<1>7. ~Holds(stack', c)
  BY <1>1 DEF Holds
<1> QED
  BY <1>6, <1>7

(* The phases of the promise. *)
Ongoing == {"align", "hash", "search"}

Over == {"nullrows", "done"}

LEMMA SearchingOn ==
  ASSUME pc \in Ongoing, pc' \in Ongoing, Promise!Find
  PROVE  Promise!Search
BY DEF Promise!Search, Ongoing

LEMMA Concluding ==
  ASSUME pc' \in Over, "windows" \notin errors', Promise!Find,
         ~truncated' => \A c \in Numbers : Holds(found', c)
  PROVE  Promise!Conclude
<1>1. ~truncated' => \A c \in Numbers : Promise!Covers(found', c)
  BY CoversIs
<1> QED
  BY <1>1 DEF Promise!Conclude, Over, Numbers

LEMMA Failing ==
  ASSUME pc \in Ongoing, pc' \in Over, "windows" \in errors', found' = <<>>, UNCHANGED input
  PROVE  Promise!Fail
<1>1. UNCHANGED <<Differing \cup Beyond, Numbers>>
  BY SameDifferences DEF Numbers, input
<1> QED
  BY <1>1 DEF Promise!Fail, Ongoing, Over, Numbers

LEMMA Resting ==
  ASSUME UNCHANGED <<input, found, truncated>>, pc \in Over <=> pc' \in Over,
         pc \in Ongoing \cup Over, pc' \in Ongoing \cup Over,
         "windows" \in errors <=> "windows" \in errors'
  PROVE  UNCHANGED Promise!vars
<1>1. UNCHANGED <<Differing \cup Beyond, Numbers>>
  BY SameDifferences DEF Numbers, input
<1> QED
  BY <1>1 DEF Promise!vars, Ongoing, Over, Numbers

(***************************************************************************)
(* Phase 2 keeps the promise of module Localization with both methods:     *)
(* each window found holds a number at which settled rows differ or        *)
(* reaches beyond them, nothing that differs is left out below the last    *)
(* window, and a list that claims to be complete leaves nothing out        *)
(* (compare.localize and compare.localize_buckets).                        *)
(***************************************************************************)
THEOREM PromiseKept == Spec => KeepsPromise
<1>1. Init => Promise!Init
  <2> SUFFICES ASSUME Init
               PROVE  Promise!Init
    OBVIOUS
  <2>1. pc \in {"align", "hash", "search"} /\ found = <<>>
    BY DEF Init
  <2>2. pc \notin {"nullrows", "done"}
    BY <2>1
  <2> QED
    BY <2>1, <2>2 DEF Promise!Init
<1>2. LocalizeInv /\ LocalizeInv' /\ AlignedInv /\ HoldInv' /\ [Next]_vars => [Promise!Next]_(Promise!vars)
  <2> SUFFICES ASSUME LocalizeInv, LocalizeInv', AlignedInv, HoldInv', [Next]_vars
               PROVE  Promise!Next \/ UNCHANGED Promise!vars
    OBVIOUS
  <2>1. UNCHANGED input
    BY DEF Next, vars, Align, HashBuckets, Prune, Report, Split, Stop, SearchFails, CheckNullRows, Finished
  <2>2. found \in Seq(Windows(table)) /\ pc \in Ongoing \cup Over /\ pc' \in Ongoing \cup Over
    BY DEF LocalizeInv, WindowInv, CourseInv, Ongoing, Over
  <2>3. pc \in Ongoing => errors = {} /\ pc \notin Over
    BY DEF LocalizeInv, CourseInv, Ongoing, Over
  <2>4. CASE Align \/ Prune \/ Split
    <3>1. /\ UNCHANGED <<found, truncated, errors>> /\ pc \in Ongoing /\ pc' \in Ongoing
      BY <2>4 DEF Align, Prune, Split, Searching, Ongoing
    <3>2. pc \notin Over /\ pc' \notin Over
      BY <3>1 DEF Ongoing, Over
    <3> QED
      BY <2>1, <2>2, <3>1, <3>2, Resting
  <2>5. CASE Report
    <3>1. pc = "search" /\ pc' = "search" /\ found' = Append(found, Last(stack))
      BY <2>5 DEF Report, Searching
    <3>2. GoodList(found', Differing \cup Beyond, Numbers)
      BY <2>5, ReportGood
    <3>3. Promise!IsPrefix(found, found')
      BY <2>2, <3>1, PrefixOfAppend
    <3>4. Promise!Find
      BY <2>1, <3>1, <3>2, <3>3, StepFinds
    <3>5. Promise!Search
      BY <3>1, <3>4, SearchingOn DEF Ongoing
    <3> QED
      BY <3>5 DEF Promise!Next
  <2>6. CASE HashBuckets
    <3>1. pc = "hash" /\ pc' = "nullrows" /\ found = <<>> /\ errors = {} /\ errors' = {}
      BY <2>6 DEF HashBuckets, LocalizeInv, CourseInv
    <3>2. /\ GoodList(found', Differing \cup Beyond, Numbers)
          /\ \A c \in Numbers : Holds(found', c)
      BY <2>6, HashGood
    <3>3. Promise!IsPrefix(found, found')
      <4>1. found' \in Seq(Windows(table)')
        BY DEF LocalizeInv, WindowInv
      <4> QED
        BY <3>1, <4>1, PrefixOfAppend
    <3>4. Promise!Find
      BY <2>1, <3>1, <3>2, <3>3, StepFinds
    <3>5. Promise!Conclude
      BY <3>1, <3>2, <3>4, Concluding DEF Over
    <3> QED
      BY <3>5 DEF Promise!Next
  <2>7. CASE Stop
    <3>1. pc = "search" /\ pc' = "nullrows" /\ found' = found /\ errors = {} /\ errors' = {}
      BY <2>7 DEF Stop, LocalizeInv, CourseInv
    <3>2. Promise!IsPrefix(found, found')
      BY <2>2, <3>1, PrefixOfAppend
    <3>3. Promise!Find
      BY <2>1, <3>1, <3>2, StepFinds
    <3>4. ~truncated' => \A c \in Numbers : Holds(found', c)
      BY <2>7, StopComplete
    <3>5. Promise!Conclude
      BY <3>1, <3>3, <3>4, Concluding DEF Over
    <3> QED
      BY <3>5 DEF Promise!Next
  <2>8. CASE SearchFails
    <3>1. pc \in Ongoing /\ pc' \in Over /\ "windows" \in errors' /\ found' = <<>>
      BY <2>8 DEF SearchFails, Ongoing, Over
    <3>2. Promise!Fail
      BY <2>1, <3>1, Failing
    <3> QED
      BY <3>2 DEF Promise!Next
  <2>9. CASE CheckNullRows
    <3>1. /\ pc \in Over /\ pc' \in Over /\ UNCHANGED <<found, truncated>>
          /\ "windows" \in errors <=> "windows" \in errors'
      BY <2>9 DEF CheckNullRows, Over
    <3> QED
      BY <2>1, <2>2, <3>1, Resting
  <2>10. CASE Finished \/ UNCHANGED vars
    <3>1. UNCHANGED <<found, truncated, errors, pc>>
      BY <2>10 DEF Finished, vars
    <3> QED
      BY <2>1, <2>2, <3>1, Resting
  <2> QED
    BY <2>4, <2>5, <2>6, <2>7, <2>8, <2>9, <2>10 DEF Next
<1>3. Spec => []LocalizeInv
  BY LocalizeInvariance
<1>4. Spec => [](HoldInv /\ AlignedInv)
  BY HoldInvariance
<1> QED
  BY <1>1, <1>2, <1>3, <1>4, PTL DEF Spec, KeepsPromise, Promise!Spec

-----------------------------------------------------------------------------
(***************************************************************************)
(* What the bisection has dropped is alike in the two databases.  A window *)
(* whose numbers are settled selects exactly the rows that carry them, so  *)
(* that dropping it adds to what was dropped before, and to nothing twice, *)
(* two sets of rows with one hash.                                         *)
(***************************************************************************)
DroppedOf(t, x, d, stk, fnd) ==
  {r \in TableRows(t, x.history[d][1]) :
     NumberAt(t, r) \in 0 .. SettledOf(t, x) /\ ~Holds(stk, NumberAt(t, r)) /\ ~Holds(fnd, NumberAt(t, r))}

SameDropped(t, x, stk, fnd) ==
  SetHash(DroppedOf(t, x, 1, stk, fnd)) = SetHash(DroppedOf(t, x, 2, stk, fnd))

DropInv ==
  Bisecting /\ pc # "align" /\ table # "block" /\ SettledOf(table, dbs) = TopOf(table) =>
    SameDropped(table, dbs, stack, found)

(* A settled window holds the rows that carry its numbers, and no others. *)
LEMMA WindowNumbers ==
  ASSUME NEW t \in Tables, t # "block", NEW x \in Databases[t], NEW d \in DB, NEW w \in Windows(t),
         w.hi <= SettledOf(t, x), NEW l \in Four(x, d), NEW r
  PROVE  r \in RowsAt(t, x, d, l, w)
           <=> r \in TableRows(t, x.history[d][1]) /\ NumberAt(t, r) \in w.lo .. w.hi
<1> DEFINE S == x.history[d][1]
           one == <<1, 1, 1, 1>>
<1>1. 1 \in At(x, d) /\ WellTyped(S) /\ Linked(S)
  <2>1. 1 \in At(x, d)
    BY SettledSame
  <2> QED
    BY <2>1, SnapshotsGood DEF At
<1>2. one \in Four(x, d) /\ one[4] = 1
  BY <1>1 DEF Four
<1>3. RowsAt(t, x, d, l, w) = RowsAtRest(t, x, d, w)
  BY SettledWindow
<1>4. RowsAtRest(t, x, d, w) = RowsAt(t, x, d, one, w)
  BY DEF RowsAtRest
<1>5. w.lo \in Nat /\ w.hi \in Nat /\ SettledOf(t, x) \in Nat
  <2>1. Cutoff \in Nat /\ CutoffEpoch \in Nat /\ x.settled \in Nat
    BY LocalizeAssumption, DatabasesAssumption
  <2> QED
    BY <2>1 DEF Windows, TopOf, SettledOf
<1> HIDE DEF one
<1>6. ASSUME r \in TableRows(t, S), NumberAt(t, r) \in w.lo .. w.hi
      PROVE  r \in RowsAtRest(t, x, d, w)
  <2> DEFINE c == NumberAt(t, r)
  <2>1. c \in 0 .. SettledOf(t, x) /\ w.lo <= c /\ c <= w.hi
    BY <1>5, <1>6
  <2>2. r \in RowsOf(t, x, d, c)
    BY <1>6 DEF RowsOf
  <2> HIDE DEF c
  <2>3. {q \in RowsAt(t, x, d, one, w) : NumberAt(t, q) = c} = RowsOf(t, x, d, c)
    BY <1>2, <2>1, RowsHeld
  <2> QED
    BY <1>4, <2>2, <2>3
<1>7. ASSUME r \in RowsAtRest(t, x, d, w)
      PROVE  r \in TableRows(t, S) /\ NumberAt(t, r) \in w.lo .. w.hi
  <2>1. r \in TableRows(t, S)
    BY <1>2, <1>4, <1>7, RowsAtType
  <2>2. CASE t = "epoch"
    <3>1. r \in S["epoch"] /\ Between(r.key, w.lo, w.hi) /\ NumberAt(t, r) = r.key
      BY <1>7, <2>2 DEF RowsAtRest, RowsAt, NumberAt
    <3>2. r.key \in Nat
      BY <1>1, <3>1 DEF WellTyped
    <3> QED
      BY <1>5, <2>1, <3>1, <3>2 DEF Between
  <2>3. CASE t # "epoch"
    <3>1. PICK f \in Numbered, g \in Numbered :
            r.pos \in Pos /\ f <= r.pos /\ r.pos <= g /\ w.lo <= BlockNo[f] /\ BlockNo[g] <= w.hi
      BY <1>7, <2>3, WindowSpans
    <3>2. r.pos \in Numbered
      <4> HIDE DEF S
      <4> QED
        BY <1>1, <2>1, <2>3, <3>1, BoundaryBlocks
    <3>3. BlockNo[f] <= BlockNo[r.pos] /\ BlockNo[r.pos] <= BlockNo[g]
      BY <3>1, <3>2, NumbersGrow
    <3>4. /\ r.pos # 0 /\ BlockNo[r.pos] \in Nat /\ BlockNo[f] \in Nat /\ BlockNo[g] \in Nat
          /\ NumberAt(t, r) = BlockNo[r.pos]
      BY <2>3, <3>2, PlacesType DEF NumberAt
    <3> QED
      BY <1>5, <2>1, <3>1, <3>3, <3>4
  <2> QED
    BY <2>2, <2>3
<1> QED
  BY <1>3, <1>6, <1>7

(* Two sets put together of disjoint parts that are alike are alike. *)
LEMMA AlikeTogether ==
  ASSUME NEW A, IsFiniteSet(A), NEW B, IsFiniteSet(B), NEW R, IsFiniteSet(R), NEW T, IsFiniteSet(T),
         \A r : r \in R => r \notin A, \A r : r \in T => r \notin B,
         SetHash(A) = SetHash(B), SetHash(R) = SetHash(T)
  PROVE  SetHash(A \cup R) = SetHash(B \cup T)
<1> DEFINE C == [r \in A \cup R |-> IF r \in A THEN 1 ELSE 2]
           D == [r \in B \cup T |-> IF r \in B THEN 1 ELSE 2]
           U(p) == {r \in A \cup R : C[r] = p}
           V(p) == {r \in B \cup T : D[r] = p}
<1>1. U(1) = A /\ V(1) = B
  OBVIOUS
<1>2. U(2) = R /\ V(2) = T
  OBVIOUS
<1>3. \A p : p # 1 /\ p # 2 => U(p) = {} /\ V(p) = {}
  OBVIOUS
<1>4. Alike(A \cup R, C, B \cup T, D)
  <2> SUFFICES ASSUME NEW p
               PROVE  SetHash(U(p)) = SetHash(V(p))
    BY DEF Alike
  <2> HIDE DEF U, V
  <2>1. CASE p = 1
    BY <1>1, <2>1
  <2>2. CASE p = 2
    BY <1>2, <2>2
  <2>3. CASE p # 1 /\ p # 2
    BY <1>3, <2>3
  <2> QED
    BY <2>1, <2>2, <2>3
<1>5. IsFiniteSet(A \cup R) /\ IsFiniteSet(B \cup T)
  BY FS_Union
<1> HIDE DEF C, D
<1> QED
  BY <1>4, <1>5, SameParts

(* The rows dropped are finitely many. *)
LEMMA DroppedType ==
  ASSUME NEW t \in Tables, NEW x \in Databases[t], NEW d \in DB, NEW stk, NEW fnd
  PROVE  IsFiniteSet(DroppedOf(t, x, d, stk, fnd))
<1> DEFINE S == x.history[d][1]
<1>1. WellTyped(S)
  <2>1. 1 \in At(x, d)
    BY SettledSame
  <2> QED
    BY <2>1, SnapshotsGood DEF At
<1> HIDE DEF S
<1>2. IsFiniteSet(TableRows(t, S))
  <2>1. CASE t = "epoch"
    BY <1>1, <2>1 DEF WellTyped, TableRows
  <2>2. CASE t # "epoch"
    <3>1. t = "owner" \/ t \in Spine \cup {"committee"}
      BY <2>2, TableKinds DEF Spine
    <3> QED
      BY <1>1, <3>1 DEF WellTyped, TableRows, Spine
  <2> QED
    BY <2>1, <2>2
<1>3. DroppedOf(t, x, d, stk, fnd) \in SUBSET TableRows(t, S)
  BY DEF DroppedOf, S
<1> QED
  BY <1>2, <1>3, FS_Subset

(* Lists that hold the same numbers have dropped the same. *)
LEMMA SameHeld ==
  ASSUME NEW t \in Tables, NEW x \in Databases[t],
         NEW stk, NEW fnd, NEW stk2, NEW fnd2,
         \A c \in 0 .. SettledOf(t, x) :
           Holds(stk, c) \/ Holds(fnd, c) <=> Holds(stk2, c) \/ Holds(fnd2, c),
         SameDropped(t, x, stk, fnd)
  PROVE  SameDropped(t, x, stk2, fnd2)
<1>1. \A d : DroppedOf(t, x, d, stk, fnd) = DroppedOf(t, x, d, stk2, fnd2)
  BY DEF DroppedOf
<1> QED
  BY <1>1 DEF SameDropped

(* A search that holds the whole chain has dropped nothing. *)
LEMMA NothingDropped ==
  ASSUME table \in Tables, dbs \in Databases[table], NEW fnd
  PROVE  SameDropped(table, dbs, WholeChain, fnd)
<1> DEFINE w == [lo |-> 0, hi |-> TopOf(table)]
<1>1. WholeChain = <<w>> /\ w.lo = 0 /\ w.hi = TopOf(table)
  BY TopIs DEF WholeChain
<1>2. TopOf(table) \in Nat /\ SettledOf(table, dbs) \in Nat /\ SettledOf(table, dbs) <= TopOf(table)
  <2>1. Cutoff \in Nat /\ CutoffEpoch \in Nat /\ dbs.settled \in Nat
    BY LocalizeAssumption, DatabasesAssumption
  <2> QED
    BY <2>1 DEF TopOf, SettledOf
<1> HIDE DEF w
<1>3. DOMAIN WholeChain = {1} /\ WholeChain[1] = w
  BY <1>1
<1>4. \A c \in 0 .. SettledOf(table, dbs) : Holds(WholeChain, c)
  BY <1>1, <1>2, <1>3 DEF Holds
<1>5. \A d : DroppedOf(table, dbs, d, WholeChain, fnd) = {}
  BY <1>4 DEF DroppedOf
<1> QED
  BY <1>5 DEF SameDropped

(* The top of the stack has no number in common with any other window. *)
LEMMA TopAlone ==
  ASSUME NEW t \in Tables, NEW F \in Seq(Windows(t)), NEW S \in Seq(Windows(t)), S # <<>>,
         NEW n, LowestAbove(F, S, n), NEW c \in Nat, Last(S).lo <= c, c <= Last(S).hi
  PROVE  Holds(S, c) /\ ~Holds(Front(S), c) /\ ~Holds(F, c)
<1> DEFINE k == Len(S)
           w == Last(S)
<1>1. /\ DOMAIN S = 1 .. k /\ DOMAIN Front(S) = 1 .. k - 1 /\ k \in Nat \ {0} /\ w = S[k] /\ w \in Windows(t)
      /\ \A i \in 1 .. k - 1 : Front(S)[i] = S[i]
  BY TopAndRest
<1>2. /\ \A i \in 1 .. k : S[i] \in Windows(t)
      /\ DOMAIN F = 1 .. Len(F) /\ \A i \in DOMAIN F : F[i] \in Windows(t)
  BY ElementOfSeq, LenProperties
<1>3. \A v \in Windows(t) : v.lo \in Nat /\ v.hi \in Nat
  BY LocalizeAssumption DEF Windows, TopOf
<1> HIDE DEF k, w
<1>4. w.lo <= c /\ c <= w.hi
  BY DEF w
<1>5. k \in 1 .. k /\ \A i \in 1 .. k - 1 : i \in 1 .. k /\ i < k
  BY <1>1
<1>6. Holds(S, c)
  BY <1>1, <1>4, <1>5 DEF Holds
<1>7. ~Holds(Front(S), c)
  <2> SUFFICES ASSUME NEW i \in 1 .. k - 1, S[i].lo <= c
               PROVE  FALSE
    BY <1>1 DEF Holds
  <2>1. w.hi < S[i].lo
    BY <1>1, <1>5 DEF LowestAbove
  <2> QED
    BY <1>1, <1>2, <1>3, <1>4, <1>5, <2>1
<1>8. ~Holds(F, c)
  <2> SUFFICES ASSUME NEW i \in DOMAIN F, c <= F[i].hi
               PROVE  FALSE
    BY DEF Holds
  <2>1. F[i].hi < w.lo
    BY <1>1, <1>5 DEF LowestAbove
  <2> QED
    BY <1>1, <1>2, <1>3, <1>4, <2>1
<1> QED
  BY <1>6, <1>7, <1>8

LEMMA FrontHolds ==
  ASSUME NEW t \in Tables, NEW S \in Seq(Windows(t)), S # <<>>, NEW c, Holds(Front(S), c)
  PROVE  Holds(S, c)
<1>1. /\ DOMAIN S = 1 .. Len(S) /\ DOMAIN Front(S) = 1 .. Len(S) - 1 /\ Len(S) \in Nat
      /\ \A i \in 1 .. Len(S) - 1 : Front(S)[i] = S[i]
  BY TopAndRest
<1>2. PICK i \in 1 .. Len(S) - 1 : S[i].lo <= c /\ c <= S[i].hi
  BY <1>1 DEF Holds
<1>3. i \in 1 .. Len(S)
  BY <1>1
<1> QED
  BY <1>1, <1>2, <1>3 DEF Holds

(* Dropping the top of the stack because its hashes agree. *)
LEMMA PruneDrops ==
  ASSUME NEW t \in Tables, t # "block", NEW x \in Databases[t], SettledOf(t, x) = TopOf(t),
         NEW F \in Seq(Windows(t)), NEW S \in Seq(Windows(t)), S # <<>>, NEW n, LowestAbove(F, S, n),
         NEW l1 \in Four(x, 1), NEW l2 \in Four(x, 2),
         SetHash(RowsAt(t, x, 1, l1, Last(S))) = SetHash(RowsAt(t, x, 2, l2, Last(S))),
         SameDropped(t, x, S, F)
  PROVE  SameDropped(t, x, Front(S), F)
<1> DEFINE w == Last(S)
           l == [d \in DB |-> IF d = 1 THEN l1 ELSE l2]
           Gone(d) == DroppedOf(t, x, d, S, F)
           After(d) == DroppedOf(t, x, d, Front(S), F)
           Now(d) == RowsAt(t, x, d, l[d], w)
<1>0. 1 \in DB /\ 2 \in DB /\ l[1] = l1 /\ l[2] = l2 /\ \A d \in DB : l[d] \in Four(x, d)
  BY DEF DB
<1>1. w \in Windows(t)
  BY TopAndRest
<1>2. TopOf(t) \in Nat
  BY LocalizeAssumption DEF TopOf
<1>3. w.lo \in Nat /\ w.hi \in Nat /\ w.hi <= SettledOf(t, x)
  BY <1>1, <1>2 DEF Windows
<1> HIDE DEF l
<1>4. \A d \in DB : \A r : r \in Now(d) <=> r \in TableRows(t, x.history[d][1]) /\ NumberAt(t, r) \in w.lo .. w.hi
  <2> HIDE DEF w
  <2> QED
    BY <1>0, <1>1, <1>3, WindowNumbers
<1>5. \A c \in w.lo .. w.hi : c \in Nat /\ c \in 0 .. SettledOf(t, x)
                              /\ Holds(S, c) /\ ~Holds(Front(S), c) /\ ~Holds(F, c)
  <2> SUFFICES ASSUME NEW c \in w.lo .. w.hi
               PROVE  c \in Nat /\ c \in 0 .. SettledOf(t, x)
                      /\ Holds(S, c) /\ ~Holds(Front(S), c) /\ ~Holds(F, c)
    OBVIOUS
  <2>1. c \in Nat /\ w.lo <= c /\ c <= w.hi /\ c \in 0 .. SettledOf(t, x)
    <3> HIDE DEF w
    <3> QED
      BY <1>2, <1>3
  <2> QED
    BY <2>1, TopAlone
<1>6. \A c \in 0 .. SettledOf(t, x) : /\ Holds(Front(S), c) => Holds(S, c)
                                      /\ Holds(S, c) => Holds(Front(S), c) \/ c \in w.lo .. w.hi
  <2> SUFFICES ASSUME NEW c \in 0 .. SettledOf(t, x)
               PROVE  /\ Holds(Front(S), c) => Holds(S, c)
                      /\ Holds(S, c) => Holds(Front(S), c) \/ c \in w.lo .. w.hi
    OBVIOUS
  <2>1. Holds(Front(S), c) => Holds(S, c)
    BY FrontHolds
  <2>2. Holds(S, c) => Holds(Front(S), c) \/ (w.lo <= c /\ c <= w.hi)
    BY PruneHolds
  <2>3. w.lo <= c /\ c <= w.hi => c \in w.lo .. w.hi
    <3> HIDE DEF w
    <3> QED
      BY <1>2, <1>3
  <2> QED
    BY <2>1, <2>2, <2>3
<1>7. \A d \in DB : After(d) = Gone(d) \cup Now(d) /\ \A r : r \in Now(d) => r \notin Gone(d)
  <2> SUFFICES ASSUME NEW d \in DB
               PROVE  After(d) = Gone(d) \cup Now(d) /\ \A r : r \in Now(d) => r \notin Gone(d)
    OBVIOUS
  <2> DEFINE Rows == TableRows(t, x.history[d][1])
  <2>1. \A r : r \in Gone(d) <=> /\ r \in Rows /\ NumberAt(t, r) \in 0 .. SettledOf(t, x)
                                   /\ ~Holds(S, NumberAt(t, r)) /\ ~Holds(F, NumberAt(t, r))
    BY DEF DroppedOf
  <2>2. \A r : r \in After(d) <=> /\ r \in Rows /\ NumberAt(t, r) \in 0 .. SettledOf(t, x)
                                  /\ ~Holds(Front(S), NumberAt(t, r)) /\ ~Holds(F, NumberAt(t, r))
    BY DEF DroppedOf
  <2>3. \A r : r \in Now(d) <=> r \in Rows /\ NumberAt(t, r) \in w.lo .. w.hi
    BY <1>4
  <2> HIDE DEF Gone, After, Now, Rows, w
  <2>4. \A r : r \in After(d) <=> r \in Gone(d) \/ r \in Now(d)
    BY <1>5, <1>6, <2>1, <2>2, <2>3
  <2>5. \A r : r \in Now(d) => r \notin Gone(d)
    BY <1>5, <2>1, <2>3
  <2> QED
    BY <2>4, <2>5
<1>8. \A d \in DB : IsFiniteSet(Gone(d)) /\ IsFiniteSet(Now(d))
  BY <1>0, DroppedType, RowsAtType
<1>9. SetHash(Gone(1)) = SetHash(Gone(2)) /\ SetHash(Now(1)) = SetHash(Now(2))
  BY <1>0 DEF SameDropped
<1> HIDE DEF Gone, After, Now
<1>10. SetHash(Gone(1) \cup Now(1)) = SetHash(Gone(2) \cup Now(2))
  BY <1>0, <1>7, <1>8, <1>9, AlikeTogether
<1>11. SetHash(After(1)) = SetHash(After(2))
  BY <1>0, <1>7, <1>10
<1> QED
  BY <1>11 DEF SameDropped, After

(* A split changes no number that is held. *)
LEMMA SplitSame ==
  ASSUME NEW t \in Tables, NEW S \in Seq(Windows(t)), S # <<>>, NEW T,
         NEW lower \in Windows(t), NEW upper \in Windows(t), SplitTo(S, T, lower, upper),
         NEW c \in Nat
  PROVE  Holds(S, c) <=> Holds(T, c)
<1> DEFINE k == Len(S)
           w == Last(S)
<1>1. Holds(S, c) => Holds(T, c)
  BY SplitHolds
<1>2. DOMAIN S = 1 .. k /\ k \in Nat \ {0} /\ w = S[k] /\ w \in Windows(t)
  BY TopAndRest
<1>3. \A v \in Windows(t) : v.lo \in Nat /\ v.hi \in Nat /\ v.lo <= v.hi
  BY LocalizeAssumption DEF Windows, TopOf
<1>4. /\ DOMAIN T = 1 .. k + 1
      /\ \A i \in 1 .. k - 1 : T[i] = S[i]
      /\ T[k] = upper /\ T[k + 1] = lower
      /\ lower.lo = w.lo /\ lower.hi < upper.lo /\ upper.hi = w.hi
  BY DEF SplitTo
<1> HIDE DEF k, w
<1>5. ASSUME NEW i \in 1 .. k + 1, T[i].lo <= c, c <= T[i].hi
      PROVE  Holds(S, c)
  <2>1. i \in 1 .. k - 1 \/ i = k \/ i = k + 1
    BY <1>2
  <2>2. CASE i \in 1 .. k - 1
    <3>1. i \in 1 .. k
      BY <1>2, <2>2
    <3> QED
      BY <1>2, <1>4, <1>5, <2>2, <3>1 DEF Holds
  <2>3. CASE i = k \/ i = k + 1
    <3>1. w.lo <= c /\ c <= w.hi
      BY <1>2, <1>3, <1>4, <1>5, <2>3
    <3>2. k \in 1 .. k
      BY <1>2
    <3> QED
      BY <1>2, <3>1, <3>2 DEF Holds
  <2> QED
    BY <2>1, <2>2, <2>3
<1>6. Holds(T, c) => Holds(S, c)
  BY <1>4, <1>5 DEF Holds
<1> QED
  BY <1>1, <1>6

(* A window found is held as it was on the stack. *)
LEMMA ReportSame ==
  ASSUME NEW t \in Tables, NEW F \in Seq(Windows(t)), NEW S \in Seq(Windows(t)), S # <<>>, NEW c \in Nat
  PROVE  Holds(S, c) \/ Holds(F, c) <=> Holds(Front(S), c) \/ Holds(Append(F, Last(S)), c)
<1> DEFINE w == Last(S)
           G == Append(F, w)
           n == Len(F)
<1>1. /\ DOMAIN S = 1 .. Len(S) /\ Len(S) \in Nat \ {0} /\ w = S[Len(S)] /\ w \in Windows(t)
  BY TopAndRest
<1>2. /\ n \in Nat /\ DOMAIN F = 1 .. n
      /\ G \in Seq(Windows(t)) /\ Len(G) = n + 1
      /\ \A i \in 1 .. n : G[i] = F[i]
      /\ G[n + 1] = w
  BY <1>1, AppendProperties, LenProperties
<1>3. DOMAIN G = 1 .. n + 1
  BY <1>2, LenProperties
<1>4. Holds(S, c) => Holds(Front(S), c) \/ (w.lo <= c /\ c <= w.hi)
  BY PruneHolds
<1>5. Holds(F, c) \/ (w.lo <= c /\ c <= w.hi) => Holds(G, c)
  BY <1>1, ReportHolds
<1>6. Holds(Front(S), c) => Holds(S, c)
  BY FrontHolds
<1> HIDE DEF w, G, n
<1>7. Holds(G, c) => Holds(F, c) \/ (w.lo <= c /\ c <= w.hi)
  <2> SUFFICES ASSUME NEW i \in 1 .. n + 1, G[i].lo <= c, c <= G[i].hi
               PROVE  Holds(F, c) \/ (w.lo <= c /\ c <= w.hi)
    BY <1>3 DEF Holds
  <2>1. i \in 1 .. n \/ i = n + 1
    BY <1>2
  <2> QED
    BY <1>2, <2>1 DEF Holds
<1>8. w.lo <= c /\ c <= w.hi => Holds(S, c)
  <2>1. Len(S) \in 1 .. Len(S)
    BY <1>1
  <2> QED
    BY <1>1, <2>1 DEF Holds
<1>9. Holds(S, c) \/ Holds(F, c) <=> Holds(Front(S), c) \/ Holds(G, c)
  BY <1>4, <1>5, <1>6, <1>7, <1>8
<1> QED
  BY <1>9 DEF G, w

LEMMA TurnDrops ==
  ASSUME LocalizeInv, DropInv, Prune \/ Report \/ Split
  PROVE  DropInv'
<1>1. /\ pc = "search" /\ stack # <<>> /\ UNCHANGED <<table, method, limits, dbs, pc, kept, errors>>
  BY DEF Prune, Report, Split, Searching, input
<1>2. /\ InputInv /\ OrderInv /\ table \in Tables /\ dbs \in Databases[table] /\ limits \in Limits
      /\ stack \in Seq(Windows(table)) /\ found \in Seq(Windows(table))
  BY DEF LocalizeInv, InputInv, WindowInv
<1>3. Bisecting /\ pc # "align"
  BY <1>1 DEF Bisecting
<1>4. LowestAbove(found, stack, Narrow)
  BY <1>2, <1>3 DEF OrderInv
<1> SUFFICES ASSUME table # "block", SettledOf(table, dbs) = TopOf(table)
             PROVE  SameDropped(table, dbs, stack', found')
  BY <1>1 DEF DropInv
<1>5. SameDropped(table, dbs, stack, found)
  BY <1>3 DEF DropInv
<1>6. \A c \in 0 .. SettledOf(table, dbs) : c \in Nat
  OBVIOUS
<1>7. CASE Prune
  <2>1. stack' = Front(stack) /\ found' = found /\ TopHashes(FALSE)
    BY <1>7 DEF Prune
  <2>2. PICK l1 \in Four(dbs, 1), l2 \in Four(dbs, 2) :
          SetHash(RowsAt(table, dbs, 1, l1, Last(stack))) = SetHash(RowsAt(table, dbs, 2, l2, Last(stack)))
    BY <1>2, <2>1, TurnSees
  <2> QED
    BY <1>1, <1>2, <1>4, <1>5, <2>1, <2>2, PruneDrops
<1>8. CASE Report
  <2>1. stack' = Front(stack) /\ found' = Append(found, Last(stack))
    BY <1>8 DEF Report
  <2>2. \A c \in Nat : Holds(stack, c) \/ Holds(found, c) <=> Holds(stack', c) \/ Holds(found', c)
    BY <1>1, <1>2, <2>1, ReportSame
  <2> QED
    BY <1>2, <1>5, <1>6, <2>2, SameHeld
<1>9. CASE Split
  <2>1. stack' = Front(stack) \o Halves(Last(stack)) /\ found' = found /\ Last(stack).hi - Last(stack).lo > Narrow
    BY <1>9 DEF Split
  <2>2. Last(stack).lo < Last(stack).hi
    <3> DEFINE w == Last(stack)
    <3>1. w \in Windows(table)
      BY <1>1, <1>2, TopAndRest
    <3>2. w.lo \in Nat /\ w.hi \in Nat /\ Narrow \in Nat
      BY <1>2, <3>1, LocalizeAssumption DEF Windows, TopOf, Narrow
    <3>3. w.hi - w.lo > Narrow
      BY <2>1
    <3> HIDE DEF w
    <3>4. w.lo < w.hi
      BY <3>2, <3>3
    <3> QED
      BY <3>4 DEF w
  <2>3. PICK lower \in Windows(table), upper \in Windows(table) : SplitTo(stack, stack', lower, upper)
    BY <1>1, <1>2, <2>1, <2>2, SplitStack
  <2>4. \A c \in Nat : Holds(stack, c) <=> Holds(stack', c)
    BY <1>1, <1>2, <2>3, SplitSame
  <2> QED
    BY <1>2, <1>5, <1>6, <2>1, <2>4, SameHeld
<1> QED
  BY <1>7, <1>8, <1>9

THEOREM DropInvariance == Spec => []DropInv
<1>1. Init => DropInv
  <2> SUFFICES ASSUME Init
               PROVE  DropInv
    OBVIOUS
  <2>1. table \in Tables /\ dbs \in Databases[table] /\ (pc = "align" \/ stack = WholeChain)
    BY DEF Init
  <2> QED
    BY <2>1, NothingDropped DEF DropInv
<1>2. LocalizeInv /\ DropInv /\ [Next]_vars => DropInv'
  <2> SUFFICES ASSUME LocalizeInv, DropInv, [Next]_vars
               PROVE  DropInv'
    OBVIOUS
  <2>1. CASE Align
    <3>1. /\ table \in Tables /\ dbs \in Databases[table]
          /\ ByBuckets /\ errors = {}
          /\ UNCHANGED <<table, method, dbs, errors>>
      BY <2>1 DEF Align, input, LocalizeInv, InputInv, CourseInv
    <3>2. (pc' = "search" /\ stack' = WholeChain) \/ (pc' = "hash" /\ ~(Len(kept'.edges) < 2))
      BY <2>1 DEF Align
    <3>3. kept' \in Alignments(table, dbs)
      <4>1. PICK i \in From(1, now[1]), j \in From(2, now[2]) : kept' = Alignment(i, j)
        BY <2>1 DEF Align
      <4>2. i \in At(dbs, 1) /\ j \in At(dbs, 2)
        BY DEF From, At, DB, LocalizeInv, InputInv
      <4> QED
        BY <4>1, <4>2, AlignmentAtIs DEF Alignments
    <3>4. Len(kept'.edges) \in Nat
      BY <3>1, <3>3, AlignedKeeps, LenProperties DEF ByBuckets, OnEpochs
    <3>5. CASE stack' = WholeChain
      BY <3>1, <3>5, NothingDropped DEF DropInv
    <3>6. CASE pc' = "hash" /\ ~(Len(kept'.edges) < 2)
      <4>1. ByBuckets' /\ Len(kept'.edges) >= 2
        BY <3>1, <3>4, <3>6 DEF ByBuckets, OnEpochs
      <4> QED
        BY <3>6, <4>1 DEF DropInv, Bisecting
    <3> QED
      BY <3>2, <3>5, <3>6
  <2>2. CASE HashBuckets
    <3>1. ByBuckets /\ Len(kept.edges) >= 2 /\ pc' = "nullrows" /\ UNCHANGED <<table, method, kept>>
      BY <2>2 DEF HashBuckets, input, LocalizeInv, CourseInv
    <3> QED
      BY <3>1 DEF DropInv, Bisecting, ByBuckets, OnEpochs
  <2>3. CASE Prune \/ Report \/ Split
    BY <2>3, TurnDrops
  <2>4. CASE Stop
    <3>1. pc = "search" /\ UNCHANGED <<table, dbs, stack, found>>
      BY <2>4 DEF Stop, input
    <3> QED
      BY <3>1 DEF DropInv, Bisecting
  <2>5. CASE SearchFails
    <3>1. "windows" \in errors' /\ pc' = "nullrows"
      BY <2>5 DEF SearchFails
    <3> QED
      BY <3>1 DEF DropInv, Bisecting
  <2>6. CASE CheckNullRows
    <3>1. /\ pc = "nullrows" /\ UNCHANGED <<table, method, dbs, kept, stack, found>>
          /\ "windows" \in errors => "windows" \in errors'
          /\ pc' = "done"
      BY <2>6 DEF CheckNullRows, input
    <3> QED
      BY <3>1 DEF DropInv, Bisecting, ByBuckets, OnEpochs
  <2>7. CASE Finished \/ UNCHANGED vars
    <3>1. UNCHANGED <<table, method, dbs, kept, stack, found, pc, errors>>
      BY <2>7 DEF Finished, vars, input
    <3> QED
      BY <3>1 DEF DropInv, Bisecting, ByBuckets, OnEpochs
  <2> QED
    BY <2>1, <2>2, <2>3, <2>4, <2>5, <2>6, <2>7 DEF Next
<1>3. Spec => []LocalizeInv
  BY LocalizeInvariance
<1> QED
  BY <1>1, <1>2, <1>3, PTL DEF Spec

(***************************************************************************)
(* What the bisection has dropped is, taken together, alike in the two     *)
(* databases, also where content does not tell a row's place: however      *)
(* differences cancel out in what is dropped, and whatever the databases   *)
(* did between two windows, they leave what is kept as different as the    *)
(* whole was (compare.py:132).                                             *)
(***************************************************************************)
THEOREM DroppedIsAlike == Spec => []DroppedAgree
<1>1. LocalizeInv /\ DropInv => DroppedAgree
  <2> SUFFICES ASSUME LocalizeInv, DropInv, Bisecting, pc # "align", table # "block", SettledTop = Top
               PROVE  SetHash(Dropped(1)) = SetHash(Dropped(2))
    BY DEF DroppedAgree
  <2>1. InputInv /\ 1 \in DB /\ 2 \in DB
    BY DEF LocalizeInv, DB
  <2>2. SameDropped(table, dbs, stack, found)
    BY TopIs DEF DropInv
  <2>3. ASSUME NEW d \in DB
        PROVE  Dropped(d) = DroppedOf(table, dbs, d, stack, found)
    <3>1. \A r : /\ r \in NumberedRows(d) <=> /\ r \in TableRows(table, dbs.history[d][1])
                                              /\ NumberAt(table, r) \in 0 .. SettledOf(table, dbs)
                 /\ r \in TableRows(table, dbs.history[d][1]) => NumberOf(r) = NumberAt(table, r)
      BY <2>1, <2>3, NumberedIs
    <3>2. \A r : (\A w \in WindowsOf(stack) \cup WindowsOf(found) : ~InWindow(r, w))
                   <=> ~Holds(stack, NumberOf(r)) /\ ~Holds(found, NumberOf(r))
      BY DEF WindowsOf, InWindow, Holds
    <3> QED
      BY <3>1, <3>2 DEF Dropped, DroppedOf
  <2> QED
    BY <2>1, <2>2, <2>3 DEF SameDropped
<1>2. Spec => [](LocalizeInv /\ DropInv)
  BY LocalizeInvariance, DropInvariance, PTL
<1> QED
  BY <1>1, <1>2, PTL
=============================================================================
