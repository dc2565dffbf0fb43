-------------------------- MODULE ComparisonProofs --------------------------
(***************************************************************************)
(* Proofs about Comparison, for chains of any length, any security         *)
(* parameter, margin and set of tables.  First WindowExact: the id ranges  *)
(* of a run select the rows of the wanted blocks, and keep doing so while  *)
(* the databases move.  Then what that makes of the verdicts.              *)
(***************************************************************************)
EXTENDS Comparison, SumTheorems, TLAPS

Row == [id : Nat, key : Nat \cup {None}, pos : Nat,
        content : [branch : Branch, pos : Nat, idx : Nat, bad : BOOLEAN]]

(***************************************************************************)
(* What the tables R of one database satisfy, its sequences being at q and *)
(* its tip at position t.  Ids are used ones, and never decrease along the *)
(* chain; neither do foreign keys along the ids; a foreign key points at a *)
(* row of the same block; every position of the chain has its block.       *)
(***************************************************************************)
IdsUsed(R, q, t) ==
  \A s \in Spine : \A r \in R[s] : r.id < q[s] /\ r.pos \in 1 .. t

ChainOrder(R) ==
  \A s \in Spine : \A r, u \in R[s] : r.id <= u.id => r.pos <= u.pos

KeyOrder(R) ==
  \A s \in {"tx", "leaf"} : \A r, u \in R[s] :
    r.key # None /\ (r.id <= u.id => r.key <= u.key)

ParentOf(s) == IF s = "leaf" THEN "tx" ELSE "block"

ParentLink(R) ==
  \A s \in {"tx", "leaf"} : \A r \in R[s] :
    \E b \in R[ParentOf(s)] : b.id = r.key /\ b.pos = r.pos

BlockKeys(R, t) ==
  /\ \A b \in R["block"] : b.key = BlockNo[b.pos]
  /\ \A p \in 1 .. t : \E b \in R["block"] : b.pos = p

GoodRows(R, q, t) ==
  /\ R \in [Spine -> SUBSET Row]
  /\ q \in [Spine -> Nat \ {0}]
  /\ t \in 0 .. ChainLen
  /\ IdsUsed(R, q, t)
  /\ ChainOrder(R)
  /\ KeyOrder(R)
  /\ ParentLink(R)
  /\ BlockKeys(R, t)

(***************************************************************************)
(* The settled positions st are below the tip, and hold all that is K deep *)
(* under any block.                                                        *)
(***************************************************************************)
GoodSettled(R, t, st) ==
  /\ st \subseteq 1 .. t
  /\ \A b \in R["block"] : b.key # None => Within(b.key - K) \subseteq st

-----------------------------------------------------------------------------
(* A bounded non-empty set of naturals has a greatest element. *)
LEMMA NatGreatest ==
  ASSUME NEW S \in SUBSET Nat, S # {}, NEW bound \in Nat, \A n \in S : n < bound
  PROVE  \E m \in S : \A n \in S : n <= m
<1> DEFINE T == {bound - n : n \in S}
<1>1. T \in SUBSET Nat /\ T # {}
  <2>1. \A n \in S : bound - n \in Nat /\ bound - n \in T
    OBVIOUS
  <2> QED
    BY <2>1
<1>2. PICK k \in T : \A n \in T : k <= n
  BY <1>1, NatLeast
<1>3. PICK m \in S : k = bound - m
  BY <1>2
<1>4. \A n \in S : bound - m <= bound - n
  BY <1>2, <1>3
<1> QED
  BY <1>4

(***************************************************************************)
(* ORDER BY key, id LIMIT 1 finds the row of least id, and the descending  *)
(* order the one of greatest id, when keys never decrease along the ids.   *)
(***************************************************************************)
LEMMA FirstLast ==
  ASSUME NEW S \in SUBSET Row, S # {},
         NEW bound \in Nat, \A r \in S : r.id < bound,
         \A r \in S : r.key # None,
         \A r, u \in S : r.id <= u.id => r.key <= u.key
  PROVE  /\ FirstRow(S) \in S
         /\ \A r \in S : FirstRow(S).id <= r.id
         /\ LastRow(S) \in S
         /\ \A r \in S : r.id <= LastRow(S).id
<1> DEFINE ids == {r.id : r \in S}
<1>1. ids \in SUBSET Nat /\ ids # {} /\ \A n \in ids : n < bound
  BY DEF Row
<1>2. \A r \in S : r.id \in Nat /\ r.key \in Nat
  BY DEF Row
<1>3. \E f \in S : \A r \in S : Before(f, r)
  <2>1. PICK m \in ids : \A n \in ids : m <= n
    BY <1>1, NatLeast
  <2>2. PICK f \in S : f.id = m
    BY <2>1
  <2>3. \A r \in S : f.id <= r.id /\ f.key <= r.key
    BY <2>1, <2>2
  <2> QED
    BY <1>2, <2>3 DEF Before
<1>4. \E l \in S : \A r \in S : Before(r, l)
  <2>1. PICK m \in ids : \A n \in ids : n <= m
    BY <1>1, NatGreatest
  <2>2. PICK l \in S : l.id = m
    BY <2>1
  <2>3. \A r \in S : r.id <= l.id /\ r.key <= l.key
    BY <2>1, <2>2
  <2> QED
    BY <1>2, <2>3 DEF Before
<1>5. FirstRow(S) \in S /\ \A r \in S : Before(FirstRow(S), r)
  BY <1>3 DEF FirstRow
<1>6. LastRow(S) \in S /\ \A r \in S : Before(r, LastRow(S))
  BY <1>4 DEF LastRow
<1> QED
  BY <1>2, <1>5, <1>6 DEF Before

-----------------------------------------------------------------------------
(***************************************************************************)
(* The rows of S whose id is in the range R are those at the positions W.  *)
(***************************************************************************)
Exact(S, R, W) == \A r \in S : Between(r.id, R.lo, R.hi) <=> r.pos \in W

Convex(W) == \A p, q \in W, x \in Pos : p <= x /\ x <= q => x \in W

(***************************************************************************)
(* Every row of S at W has rows with a key between lo and hi on each side. *)
(***************************************************************************)
Enclosed(S, lo, hi, W) ==
  \A r \in S : r.pos \in W =>
    \E f, l \in S : /\ Between(f.key, lo, hi) /\ f.id <= r.id
                   /\ Between(l.key, lo, hi) /\ r.id <= l.id

(***************************************************************************)
(* One step of the spine walk: when the rows with a key between lo and hi  *)
(* are at the positions W, and those enclose all rows at these positions,  *)
(* the ids found select exactly the rows at W.                             *)
(***************************************************************************)
LEMMA MinmaxExact ==
  ASSUME NEW S \in SUBSET Row, NEW W \in SUBSET Pos, Convex(W),
         NEW bound \in Nat \ {0}, NEW lo, NEW hi,
         \A r \in S : r.id < bound /\ r.pos \in Pos,
         \A r, u \in S : r.id <= u.id => r.pos <= u.pos,
         \A r, u \in S : r.id <= u.id /\ None \notin {r.key, u.key} => r.key <= u.key,
         \A r \in S : Between(r.key, lo, hi) => r.pos \in W,
         Enclosed(S, lo, hi, W)
  PROVE  /\ Exact(S, Minmax(S, lo, hi), W)
         /\ Minmax(S, lo, hi) \in IdRange
         /\ Minmax(S, lo, hi).hi # None => Minmax(S, lo, hi).hi < bound
<1> DEFINE in == {r \in S : Between(r.key, lo, hi)}
<1>1. \A r \in S : r.id \in Nat /\ r.pos \in Nat
  BY DEF Row
<1>2. CASE in = {}
  <2>1. Minmax(S, lo, hi) = NoRange
    BY <1>2 DEF Minmax
  <2>2. Minmax(S, lo, hi) = [lo |-> None, hi |-> None]
    BY <2>1 DEF NoRange
  <2>3. \A r \in S : r.pos \notin W
    BY <1>2 DEF Enclosed
  <2>4. \A v : ~Between(v, None, None)
    BY DEF Between
  <2> QED
    BY <2>2, <2>3, <2>4 DEF Exact, IdRange
<1>3. CASE in # {}
  <2>1. \A r \in in : r.key # None
    BY DEF Between
  <2>2. /\ FirstRow(in) \in in
        /\ \A r \in in : FirstRow(in).id <= r.id
        /\ LastRow(in) \in in
        /\ \A r \in in : r.id <= LastRow(in).id
    <3> HIDE DEF in
    <3>1. in \in SUBSET Row /\ \A r \in in : r.id < bound
      BY DEF in
    <3>2. \A r, u \in in : r.id <= u.id => r.key <= u.key
      BY <2>1 DEF in
    <3> QED
      BY <1>3, <2>1, <3>1, <3>2, FirstLast
  <2>3. Minmax(S, lo, hi) = [lo |-> FirstRow(in).id, hi |-> LastRow(in).id]
    BY <1>3 DEF Minmax
  <2> DEFINE f == FirstRow(in)
             l == LastRow(in)
  <2>4. /\ f \in S /\ f.pos \in W /\ f.id \in Nat /\ f.pos \in Pos
        /\ l \in S /\ l.pos \in W /\ l.id \in Nat /\ l.pos \in Pos
    BY <1>1, <2>2
  <2>5. \A r \in S : r.pos \in W <=> f.id <= r.id /\ r.id <= l.id
    <3> SUFFICES ASSUME NEW r \in S
                 PROVE  r.pos \in W <=> f.id <= r.id /\ r.id <= l.id
      OBVIOUS
    <3>1. ASSUME r.pos \in W
          PROVE  f.id <= r.id /\ r.id <= l.id
      <4>1. PICK x, y \in in : x.id <= r.id /\ r.id <= y.id
        BY <3>1 DEF Enclosed
      <4>2. f.id <= x.id /\ y.id <= l.id /\ x.id \in Nat /\ y.id \in Nat /\ r.id \in Nat
        BY <1>1, <2>2
      <4> QED
        BY <2>4, <4>1, <4>2
    <3>2. ASSUME f.id <= r.id, r.id <= l.id
          PROVE  r.pos \in W
      <4>1. f.pos <= r.pos /\ r.pos <= l.pos
        BY <2>4, <3>2
      <4> QED
        BY <2>4, <4>1 DEF Convex
    <3> QED
      BY <3>1, <3>2
  <2>6. \A r \in S : Between(r.id, f.id, l.id) <=> f.id <= r.id /\ r.id <= l.id
    BY <1>1, <2>4, NoneAssumption DEF Between
  <2>7. f.id < bound /\ l.id < bound
    BY <2>4
  <2> HIDE DEF f, l
  <2>8. Minmax(S, lo, hi) = [lo |-> f.id, hi |-> l.id]
    BY <2>3 DEF f, l
  <2> QED
    BY <2>4, <2>5, <2>6, <2>7, <2>8 DEF Exact, IdRange
<1> QED
  BY <1>2, <1>3

-----------------------------------------------------------------------------
(***************************************************************************)
(* The rows a block adds: their ids are new, and they link to each other.  *)
(***************************************************************************)
LEMMA NewRowsShape ==
  ASSUME NEW d \in DB, NEW b \in Branch, NEW p \in Pos,
         NEW q \in [Spine -> Nat \ {0}]
  PROVE  LET N == NewRows(d, b, p, q)
         IN  /\ N \in [Spine -> SUBSET Row]
             /\ \A s \in Spine : \A r \in N[s] : r.pos = p /\ q[s] <= r.id /\ r.id < NextSeq(b, p, q)[s]
             /\ \E r \in N["block"] : r.id = q["block"]
             /\ \A r \in N["block"] : r.id = q["block"] /\ r.key = BlockNo[p]
             /\ \A r \in N["tx"] : r.key = q["block"]
             /\ \A r \in N["leaf"] : /\ r.key - q["tx"] = r.id - q["leaf"]
                                     /\ r.key > q["tx"]
                                     /\ \E u \in N["tx"] : u.id = r.key
<1> DEFINE N == NewRows(d, b, p, q)
           n == NumTx[b][p]
           Txs == {[id |-> q["tx"] + i, key |-> q["block"], pos |-> p,
                    content |-> Content(d, b, p, i)] : i \in 1 .. n}
           Lvs == {[id |-> q["leaf"] + i, key |-> q["tx"] + i, pos |-> p,
                    content |-> Content(d, b, p, i)] :
                      i \in {j \in 1 .. n : HasLeaf(d, b, p, j)}}
           Blk == {[id |-> q["block"], key |-> BlockNo[p], pos |-> p,
                    content |-> Content(d, b, p, 0)]}
<1>1. /\ N["block"] = Blk /\ N["tx"] = Txs /\ N["leaf"] = Lvs
      /\ N = [s \in Spine |-> N[s]]
  BY DEF NewRows, Spine
<1>2. n \in Nat /\ p \in Nat /\ BlockNo[p] \in Nat \cup {None}
  <2>1. NumTx \in [Branch -> [Pos -> Nat]] /\ BlockNo \in [Pos -> Nat \cup {None}]
    BY ChainAssumption
  <2>2. NumTx[b] \in [Pos -> Nat]
    BY <2>1
  <2>3. p \in Nat
    BY ChainAssumption DEF Pos
  <2> QED
    BY <2>1, <2>2, <2>3
<1>3. \A s \in Spine : q[s] \in Nat \ {0}
  OBVIOUS
<1>4. \A i \in Nat : Content(d, b, p, i) \in [branch : Branch, pos : Nat, idx : Nat, bad : BOOLEAN]
  BY <1>2 DEF Content
<1>5. Blk \subseteq Row /\ Txs \subseteq Row /\ Lvs \subseteq Row
  <2>1. Blk \subseteq Row
    BY <1>2, <1>3, <1>4 DEF Row, Spine
  <2>2. Txs \subseteq Row
    BY <1>2, <1>3, <1>4 DEF Row, Spine
  <2>3. Lvs \subseteq Row
    BY <1>2, <1>3, <1>4 DEF Row, Spine
  <2> QED
    BY <2>1, <2>2, <2>3
<1>6. N \in [Spine -> SUBSET Row]
  <2>1. \A s \in Spine : N[s] \subseteq Row
    BY <1>1, <1>5 DEF Spine
  <2> QED
    BY <1>1, <2>1
<1>7. /\ NextSeq(b, p, q)["block"] = q["block"] + 1
      /\ NextSeq(b, p, q)["tx"] = q["tx"] + n + 1
      /\ NextSeq(b, p, q)["leaf"] = q["leaf"] + n + 1
  BY DEF NextSeq, Spine
<1>8. \A r \in Blk : r.pos = p /\ r.id = q["block"] /\ r.key = BlockNo[p]
  OBVIOUS
<1>9. \A r \in Txs : /\ r.pos = p /\ r.key = q["block"]
                     /\ q["tx"] <= r.id /\ r.id < q["tx"] + n + 1
  BY <1>2, <1>3 DEF Spine
<1>10. \A r \in Lvs : /\ r.pos = p /\ r.key - q["tx"] = r.id - q["leaf"] /\ r.key > q["tx"]
                      /\ q["leaf"] <= r.id /\ r.id < q["leaf"] + n + 1
                      /\ \E u \in Txs : u.id = r.key
  <2> SUFFICES ASSUME NEW i \in 1 .. n
               PROVE  LET r == [id |-> q["leaf"] + i, key |-> q["tx"] + i, pos |-> p,
                                content |-> Content(d, b, p, i)]
                      IN  /\ r.pos = p /\ r.key - q["tx"] = r.id - q["leaf"] /\ r.key > q["tx"]
                          /\ q["leaf"] <= r.id /\ r.id < q["leaf"] + n + 1
                          /\ \E u \in Txs : u.id = r.key
    OBVIOUS
  <2>1. i \in Nat /\ 1 <= i /\ i <= n /\ q["tx"] \in Nat /\ q["leaf"] \in Nat
    BY <1>2, <1>3 DEF Spine
  <2>2. \E u \in Txs : u.id = q["tx"] + i
    <3> DEFINE u == [id |-> q["tx"] + i, key |-> q["block"], pos |-> p,
                     content |-> Content(d, b, p, i)]
    <3>1. u \in Txs /\ u.id = q["tx"] + i
      OBVIOUS
    <3> QED
      BY <3>1
  <2> QED
    BY <1>2, <2>1, <2>2
<1>11. \A s \in Spine : \A r \in N[s] : r.pos = p /\ q[s] <= r.id /\ r.id < NextSeq(b, p, q)[s]
  <2> HIDE DEF Txs, Lvs, Blk, N
  <2>1. \A r \in N["block"] : r.pos = p /\ q["block"] <= r.id /\ r.id < NextSeq(b, p, q)["block"]
    BY <1>1, <1>3, <1>7, <1>8 DEF Spine
  <2>2. \A r \in N["tx"] : r.pos = p /\ q["tx"] <= r.id /\ r.id < NextSeq(b, p, q)["tx"]
    BY <1>1, <1>7, <1>9
  <2>3. \A r \in N["leaf"] : r.pos = p /\ q["leaf"] <= r.id /\ r.id < NextSeq(b, p, q)["leaf"]
    BY <1>1, <1>7, <1>10
  <2> QED
    BY <2>1, <2>2, <2>3 DEF Spine
<1>12. \E r \in Blk : r.id = q["block"]
  OBVIOUS
<1> HIDE DEF Txs, Lvs, Blk, N
<1>13. \A r \in N["block"] : r.id = q["block"] /\ r.key = BlockNo[p]
  BY <1>1, <1>8
<1> QED
  BY <1>1, <1>6, <1>9, <1>10, <1>11, <1>12, <1>13 DEF N

(***************************************************************************)
(* Applying a block, and rolling back, keep the tables good.               *)
(***************************************************************************)
LEMMA AppendGood ==
  ASSUME NEW d \in DB, NEW b \in Branch, NEW p \in Pos, NEW R, NEW q, NEW t,
         GoodRows(R, q, t), p = t + 1
  PROVE  GoodRows([s \in Spine |-> R[s] \cup NewRows(d, b, p, q)[s]], NextSeq(b, p, q), p)
<1> DEFINE N == NewRows(d, b, p, q)
           q2 == NextSeq(b, p, q)
           R2 == [s \in Spine |-> R[s] \cup N[s]]
<1>1. /\ R \in [Spine -> SUBSET Row] /\ q \in [Spine -> Nat \ {0}] /\ t \in 0 .. ChainLen
      /\ IdsUsed(R, q, t) /\ ChainOrder(R) /\ KeyOrder(R) /\ ParentLink(R) /\ BlockKeys(R, t)
  BY DEF GoodRows
<1>2. /\ N \in [Spine -> SUBSET Row]
      /\ \A s \in Spine : \A r \in N[s] : r.pos = p /\ q[s] <= r.id /\ r.id < q2[s]
      /\ \E r \in N["block"] : r.id = q["block"]
      /\ \A r \in N["block"] : r.id = q["block"] /\ r.key = BlockNo[p]
      /\ \A r \in N["tx"] : r.key = q["block"]
      /\ \A r \in N["leaf"] : /\ r.key - q["tx"] = r.id - q["leaf"]
                              /\ r.key > q["tx"]
                              /\ \E u \in N["tx"] : u.id = r.key
  BY <1>1, NewRowsShape
<1> HIDE DEF N
<1>3. \A s \in Spine : R2[s] = R[s] \cup N[s]
  OBVIOUS
<1>4. R2 \in [Spine -> SUBSET Row]
  BY <1>1, <1>2
<1>5. p \in Nat /\ p \in 0 .. ChainLen /\ t \in Nat
  BY <1>1, ChainAssumption DEF Pos
<1>6. q2 \in [Spine -> Nat \ {0}] /\ \A s \in Spine : q[s] \in Nat /\ q[s] < q2[s]
  <2>1. NumTx[b][p] \in Nat
    <3>1. NumTx \in [Branch -> [Pos -> Nat]]
      BY ChainAssumption
    <3> QED
      BY <3>1
  <2>2. \A s \in Spine : q[s] \in Nat /\ q[s] > 0
    BY <1>1
  <2> QED
    BY <2>1, <2>2 DEF NextSeq
<1> HIDE DEF q2, R2
<1>7. \A s \in Spine : \A r \in R2[s] : r.id \in Nat /\ r.pos \in Nat /\ r.key \in Nat \cup {None}
  BY <1>4 DEF Row
<1>8. IdsUsed(R2, q2, p)
  <2>1. \A s \in Spine : \A r \in R[s] : r.id < q2[s] /\ r.pos \in 1 .. p
    BY <1>1, <1>3, <1>5, <1>6, <1>7 DEF IdsUsed
  <2>2. \A s \in Spine : \A r \in N[s] : r.id < q2[s] /\ r.pos \in 1 .. p
    BY <1>2, <1>5
  <2> QED
    BY <1>3, <2>1, <2>2 DEF IdsUsed
<1>9. \A s \in Spine : \A r \in R[s] : r.id < q[s] /\ r.pos < p
  BY <1>1, <1>5 DEF IdsUsed
<1>10. ChainOrder(R2)
  <2> SUFFICES ASSUME NEW s \in Spine, NEW r \in R2[s], NEW u \in R2[s], r.id <= u.id
               PROVE  r.pos <= u.pos
    BY DEF ChainOrder
  <2>1. CASE r \in R[s] /\ u \in R[s]
    BY <1>1, <2>1 DEF ChainOrder
  <2>2. CASE r \in R[s] /\ u \in N[s]
    BY <1>2, <1>5, <1>7, <1>9, <2>2
  <2>3. CASE r \in N[s]
    BY <1>2, <1>3, <1>5, <1>6, <1>7, <1>9, <2>3
  <2> QED
    BY <1>3, <2>1, <2>2, <2>3
<1>11. ParentLink(R2)
  <2> SUFFICES ASSUME NEW s \in {"tx", "leaf"}, NEW r \in R2[s]
               PROVE  \E u \in R2[ParentOf(s)] : u.id = r.key /\ u.pos = r.pos
    BY DEF ParentLink
  <2>1. s \in Spine /\ ParentOf(s) \in Spine
    BY DEF Spine, ParentOf
  <2>2. CASE r \in R[s]
    BY <1>1, <1>3, <2>1, <2>2 DEF ParentLink
  <2>3. CASE r \in N[s] /\ s = "tx"
    <3>1. \E u \in N["block"] : u.id = r.key /\ u.pos = r.pos
      BY <1>2, <2>1, <2>3 DEF Spine
    <3> QED
      BY <1>3, <2>1, <2>3, <3>1 DEF ParentOf
  <2>4. CASE r \in N[s] /\ s = "leaf"
    <3>1. \E u \in N["tx"] : u.id = r.key /\ u.pos = r.pos
      BY <1>2, <2>1, <2>4 DEF Spine
    <3> QED
      BY <1>3, <2>1, <2>4, <3>1 DEF ParentOf
  <2> QED
    BY <1>3, <2>1, <2>2, <2>3, <2>4
<1>12. KeyOrder(R2)
  <2> SUFFICES ASSUME NEW s \in {"tx", "leaf"}, NEW r \in R2[s], NEW u \in R2[s]
               PROVE  r.key # None /\ (r.id <= u.id => r.key <= u.key)
    BY DEF KeyOrder
  <2>1. s \in Spine /\ ParentOf(s) \in Spine
    BY DEF Spine, ParentOf
  <2>2. \A x \in R[s] : x.key \in Nat /\ x.key < q[ParentOf(s)]
    <3> TAKE x \in R[s]
    <3>1. PICK y \in R[ParentOf(s)] : y.id = x.key
      BY <1>1 DEF ParentLink
    <3>2. y.id \in Nat
      BY <1>3, <1>7, <2>1
    <3> QED
      BY <2>1, <3>1, <3>2, <1>9
  <2>3. \A x \in N[s] : /\ x.key \in Nat /\ q[ParentOf(s)] <= x.key
                        /\ \A y \in N[s] : x.id <= y.id => x.key <= y.key
    <3>1. CASE s = "tx"
      BY <1>2, <1>6, <3>1 DEF Spine, ParentOf
    <3>2. CASE s = "leaf"
      <4>1. \A x \in N["leaf"] : x.key \in Nat
        <5> TAKE x \in N["leaf"]
        <5>1. PICK y \in N["tx"] : y.id = x.key
          BY <1>2
        <5> QED
          BY <1>2, <5>1 DEF Spine, Row
      <4>2. \A x \in N["leaf"] : x.id \in Nat
        BY <1>2 DEF Spine, Row
      <4>3. q["tx"] \in Nat /\ q["leaf"] \in Nat
        BY <1>6 DEF Spine
      <4> QED
        BY <1>2, <3>2, <4>1, <4>2, <4>3 DEF ParentOf
    <3> QED
      BY <3>1, <3>2
  <2>4. q[ParentOf(s)] \in Nat /\ None \notin Nat
    <3>1. \A n \in Nat : n \in Int
      OBVIOUS
    <3>2. None \notin Nat
      BY <3>1, NoneAssumption
    <3> QED
      BY <1>6, <2>1, <3>2
  <2>5. CASE r \in R[s] /\ u \in R[s]
    BY <1>1, <2>2, <2>4, <2>5 DEF KeyOrder
  <2>6. CASE r \in R[s] /\ u \in N[s]
    BY <2>2, <2>3, <2>4, <2>6
  <2>7. CASE r \in N[s] /\ u \in R[s]
    BY <1>2, <1>6, <1>7, <1>9, <2>1, <2>3, <2>4, <2>7, <1>3
  <2>8. CASE r \in N[s] /\ u \in N[s]
    BY <2>3, <2>4, <2>8
  <2> QED
    BY <1>3, <2>1, <2>5, <2>6, <2>7, <2>8
<1>13. BlockKeys(R2, p)
  <2>1. "block" \in Spine
    BY DEF Spine
  <2>2. \A r \in R2["block"] : r.key = BlockNo[r.pos]
    BY <1>1, <1>2, <1>3, <2>1 DEF BlockKeys
  <2>3. \A x \in 1 .. p : \E r \in R2["block"] : r.pos = x
    <3> TAKE x \in 1 .. p
    <3>1. CASE x = p
      BY <1>2, <1>3, <2>1, <3>1
    <3>2. CASE x # p
      <4>1. x \in 1 .. t
        BY <1>5, <3>2
      <4> QED
        BY <1>1, <1>3, <2>1, <4>1 DEF BlockKeys
    <3> QED
      BY <3>1, <3>2
  <2> QED
    BY <2>2, <2>3 DEF BlockKeys
<1>14. GoodRows(R2, q2, p)
  BY <1>4, <1>5, <1>6, <1>8, <1>10, <1>11, <1>12, <1>13 DEF GoodRows
<1> QED
  BY <1>14 DEF R2, q2, N

(* A rollback keeps the rows of a database in the order of its chain. *)
LEMMA RollbackGood ==
  ASSUME NEW p, NEW R, NEW q, NEW t, GoodRows(R, q, t), p \in 0 .. t - 1
  PROVE  GoodRows([s \in Spine |-> {r \in R[s] : r.pos <= p}], q, p)
<1> DEFINE R2 == [s \in Spine |-> {r \in R[s] : r.pos <= p}]
<1>1. /\ R \in [Spine -> SUBSET Row] /\ q \in [Spine -> Nat \ {0}] /\ t \in 0 .. ChainLen
      /\ IdsUsed(R, q, t) /\ ChainOrder(R) /\ KeyOrder(R) /\ ParentLink(R) /\ BlockKeys(R, t)
  BY DEF GoodRows
<1>2. \A s \in Spine : R2[s] = {r \in R[s] : r.pos <= p}
  OBVIOUS
<1>3. R2 \in [Spine -> SUBSET Row]
  BY <1>1
<1> HIDE DEF R2
<1>4. p \in 0 .. ChainLen /\ p \in Nat /\ t \in Nat
  BY <1>1, ChainAssumption
<1>5. IdsUsed(R2, q, p)
  BY <1>1, <1>2, <1>4 DEF IdsUsed
<1>6. ChainOrder(R2)
  BY <1>1, <1>2 DEF ChainOrder
<1>7. KeyOrder(R2)
  BY <1>1, <1>2 DEF KeyOrder, Spine
<1>8. ParentLink(R2)
  <2> SUFFICES ASSUME NEW s \in {"tx", "leaf"}, NEW r \in R2[s]
               PROVE  \E u \in R2[ParentOf(s)] : u.id = r.key /\ u.pos = r.pos
    BY DEF ParentLink
  <2>1. s \in Spine /\ ParentOf(s) \in Spine
    BY DEF Spine, ParentOf
  <2> QED
    BY <1>1, <1>2, <2>1 DEF ParentLink
<1>9. BlockKeys(R2, p)
  <2>1. "block" \in Spine
    BY DEF Spine
  <2> QED
    BY <1>1, <1>2, <1>4, <2>1 DEF BlockKeys
<1> QED
  BY <1>1, <1>3, <1>4, <1>5, <1>6, <1>7, <1>8, <1>9 DEF GoodRows, R2

(***************************************************************************)
(* Within grows with its argument, and stays below a block of that number. *)
(***************************************************************************)
LEMMA WithinMonotone ==
  ASSUME NEW m \in Int, NEW n \in Int, m <= n
  PROVE  Within(m) \subseteq Within(n)
<1>1. \A q \in Numbered : BlockNo[q] \in Nat
  BY ChainAssumption DEF Numbered
<1> QED
  BY <1>1 DEF Within

(* The last numbered block within a bound bounds all that is within it. *)
LEMMA WithinBelow ==
  ASSUME NEW p \in Numbered, NEW n \in Int, n <= BlockNo[p]
  PROVE  Within(n) \subseteq 1 .. p
<1>1. \A q \in Numbered : BlockNo[q] \in Nat /\ q \in Nat
  BY ChainAssumption DEF Numbered, Pos
<1>2. \A q \in Numbered : BlockNo[q] <= n => q <= p
  <2> SUFFICES ASSUME NEW q \in Numbered, BlockNo[q] <= n, p < q
               PROVE  FALSE
    BY <1>1
  <2>1. BlockNo[p] < BlockNo[q]
    BY ChainAssumption
  <2> QED
    BY <1>1, <2>1
<1>3. \A x \in Pos : x \in Nat /\ 1 <= x
  BY ChainAssumption DEF Pos
<1> QED
  BY <1>1, <1>2, <1>3 DEF Within

(* An appended block keeps the settled positions on the main branch. *)
LEMMA AppendSettled ==
  ASSUME NEW d \in DB, NEW b \in Branch, NEW p \in Pos, NEW R, NEW q, NEW t, NEW st,
         GoodRows(R, q, t), GoodSettled(R, t, st), p = t + 1
  PROVE  LET newly == IF p \in Numbered THEN Within(BlockNo[p] - K) ELSE {}
         IN  GoodSettled([s \in Spine |-> R[s] \cup NewRows(d, b, p, q)[s]], p, st \cup newly)
<1> DEFINE newly == IF p \in Numbered THEN Within(BlockNo[p] - K) ELSE {}
           N == NewRows(d, b, p, q)
<1>1. q \in [Spine -> Nat \ {0}] /\ t \in Nat /\ p \in Nat
  BY ChainAssumption DEF GoodRows, Pos
<1>2. \A r \in N["block"] : r.key = BlockNo[p]
  BY <1>1, NewRowsShape
<1> HIDE DEF N
<1>3. newly \subseteq 1 .. p
  <2>1. CASE p \in Numbered
    <3>1. BlockNo[p] \in Nat /\ K \in Nat
      BY <2>1, ChainAssumption DEF Numbered
    <3> QED
      BY <2>1, <3>1, WithinBelow
  <2> QED
    BY <2>1
<1> HIDE DEF newly
<1>4. st \cup newly \subseteq 1 .. p
  <2>1. st \subseteq 1 .. t /\ 1 .. t \subseteq 1 .. p
    BY <1>1 DEF GoodSettled
  <2> QED
    BY <1>3, <2>1
<1>5. \A r \in R["block"] \cup N["block"] : r.key # None => Within(r.key - K) \subseteq st \cup newly
  <2>1. \A r \in N["block"] : r.key # None => Within(r.key - K) \subseteq newly
    BY <1>2 DEF Numbered, newly
  <2> QED
    BY <2>1 DEF GoodSettled
<1> QED
  BY <1>4, <1>5 DEF GoodSettled, Spine, N, newly

(* A rollback leaves every settled position where it is. *)
LEMMA RollbackSettled ==
  ASSUME NEW p, NEW R, NEW t, NEW st, GoodSettled(R, t, st), st \subseteq 1 .. p
  PROVE  GoodSettled([s \in Spine |-> {r \in R[s] : r.pos <= p}], p, st)
BY DEF GoodSettled, Spine

-----------------------------------------------------------------------------
(***************************************************************************)
(* Block numbers never decrease along the ids.                             *)
(***************************************************************************)
LEMMA BlockNoOrder ==
  ASSUME NEW R, NEW q, NEW t, GoodRows(R, q, t)
  PROVE  /\ \A r \in R["block"] : r \in Row /\ r.id < q["block"] /\ r.pos \in Pos /\ r.pos \in 1 .. t
         /\ \A r \in R["block"] : r.key # None => r.pos \in Numbered /\ r.key = BlockNo[r.pos]
         /\ \A r, u \in R["block"] : r.id <= u.id => r.pos <= u.pos
         /\ \A r, u \in R["block"] : r.pos < u.pos => r.id < u.id
         /\ \A r, u \in R["block"] : r.id <= u.id /\ None \notin {r.key, u.key} => r.key <= u.key
<1>1. "block" \in Spine
  BY DEF Spine
<1>2. \A r \in R["block"] : r \in Row /\ r.id < q["block"] /\ r.pos \in 1 .. t
  BY <1>1 DEF GoodRows, IdsUsed
<1>3. t \in 0 .. ChainLen
  BY DEF GoodRows
<1>4. \A r \in R["block"] : r.pos \in Pos /\ r.pos \in Nat /\ r.id \in Nat
  BY <1>2, <1>3, ChainAssumption DEF Pos, Row
<1>5. \A r \in R["block"] : r.key = BlockNo[r.pos]
  BY DEF GoodRows, BlockKeys
<1>6. \A r, u \in R["block"] : r.id <= u.id => r.pos <= u.pos
  BY <1>1 DEF GoodRows, ChainOrder
<1>7. \A r, u \in R["block"] : r.pos < u.pos => r.id < u.id
  BY <1>4, <1>6
<1>8. \A r, u \in R["block"] : r.id <= u.id /\ None \notin {r.key, u.key} => r.key <= u.key
  <2> SUFFICES ASSUME NEW r \in R["block"], NEW u \in R["block"], r.id <= u.id,
                      r.key # None, u.key # None
               PROVE  r.key <= u.key
    OBVIOUS
  <2>1. r.pos <= u.pos /\ r.pos \in Numbered /\ u.pos \in Numbered
    BY <1>4, <1>5, <1>6 DEF Numbered
  <2>2. BlockNo[r.pos] \in Nat /\ BlockNo[u.pos] \in Nat
    BY <2>1, ChainAssumption DEF Numbered
  <2>3. CASE r.pos = u.pos
    BY <1>5, <2>2, <2>3
  <2>4. CASE r.pos < u.pos
    <3>1. BlockNo[r.pos] < BlockNo[u.pos]
      BY <2>1, <2>4, ChainAssumption
    <3> QED
      BY <1>5, <2>2, <3>1
  <2> QED
    BY <1>4, <2>1, <2>3, <2>4
<1> QED
  BY <1>2, <1>4, <1>5, <1>6, <1>7, <1>8 DEF Numbered

(***************************************************************************)
(* What a seek finds are ids of the table, or None.                        *)
(***************************************************************************)
LEMMA MinmaxBound ==
  ASSUME NEW S \in SUBSET Row, NEW bound \in Nat \ {0}, NEW lo, NEW hi,
         \A r \in S : r.id < bound,
         \A r, u \in S : r.id <= u.id /\ None \notin {r.key, u.key} => r.key <= u.key
  PROVE  /\ Minmax(S, lo, hi) \in IdRange
         /\ Minmax(S, lo, hi).hi # None => Minmax(S, lo, hi).hi < bound
<1> DEFINE in == {r \in S : Between(r.key, lo, hi)}
<1>1. CASE in = {}
  <2>1. Minmax(S, lo, hi) = [lo |-> None, hi |-> None]
    BY <1>1 DEF Minmax, NoRange
  <2> QED
    BY <2>1 DEF IdRange
<1>2. CASE in # {}
  <2>1. \A r \in in : r.key # None
    BY DEF Between
  <2>2. Minmax(S, lo, hi) = [lo |-> FirstRow(in).id, hi |-> LastRow(in).id]
    BY <1>2 DEF Minmax
  <2>3. \A r, u \in in : r.id <= u.id => r.key <= u.key
    BY <2>1
  <2>4. in \in SUBSET Row /\ \A r \in in : r.id < bound
    OBVIOUS
  <2> HIDE DEF in
  <2>5. FirstRow(in) \in in /\ LastRow(in) \in in
    BY <1>2, <2>1, <2>3, <2>4, FirstLast
  <2>6. FirstRow(in).id \in Int /\ LastRow(in).id \in Int /\ LastRow(in).id < bound
    BY <2>4, <2>5 DEF Row
  <2> QED
    BY <2>2, <2>6 DEF IdRange
<1> QED
  BY <1>1, <1>2

(* Both ends of a block range lie below the next block id. *)
LEMMA BlockRangeBound ==
  ASSUME NEW R, NEW q, NEW t, GoodRows(R, q, t), NEW cut \in Nat, NEW win
  PROVE  LET B == BlockRange(R["block"], cut, win)
         IN  B \in IdRange /\ (B.hi # None => B.hi < q["block"])
<1> DEFINE below == {b \in R["block"] : b.key # None /\ b.key <= cut}
<1>1. /\ R["block"] \in SUBSET Row /\ q["block"] \in Nat \ {0}
      /\ \A r \in R["block"] : r.id < q["block"]
      /\ \A r, u \in R["block"] : r.id <= u.id /\ None \notin {r.key, u.key} => r.key <= u.key
  <2>1. "block" \in Spine
    BY DEF Spine
  <2> QED
    BY <2>1, BlockNoOrder DEF GoodRows
<1>2. CASE win # None
  BY <1>1, <1>2, MinmaxBound DEF BlockRange
<1>3. CASE win = None /\ below = {}
  BY <1>3 DEF BlockRange, IdRange
<1>4. CASE win = None /\ below # {}
  <2>1. BlockRange(R["block"], cut, win) = [lo |-> 0, hi |-> LastRow(below).id]
    BY <1>4 DEF BlockRange
  <2>2. /\ below \in SUBSET Row
        /\ \A r \in below : r.id < q["block"]
        /\ \A r \in below : r.key # None
        /\ \A r, u \in below : r.id <= u.id => r.key <= u.key
    BY <1>1
  <2> HIDE DEF below
  <2>3. LastRow(below) \in below
    BY <1>1, <1>4, <2>2, FirstLast
  <2>4. LastRow(below).id \in Int /\ LastRow(below).id < q["block"]
    BY <2>2, <2>3 DEF Row
  <2> QED
    BY <2>1, <2>4 DEF IdRange
<1> QED
  BY <1>2, <1>3, <1>4

(***************************************************************************)
(* Wanted is a stretch of the chain, and so is Within.                     *)
(***************************************************************************)
LEMMA WantedConvex == Wanted \in SUBSET Pos /\ Convex(Wanted)
<1>1. \A p \in Pos : p \in Nat
  BY ChainAssumption DEF Pos
<1>2. Numbered \subseteq Pos
  BY DEF Numbered
<1>3. CASE window = None
  <2>1. Wanted = Within(cutoff)
    BY <1>3 DEF Wanted
  <2> QED
    BY <1>1, <1>2, <2>1 DEF Within, Convex
<1>4. CASE window # None
  <2> DEFINE ends == {p \in Numbered : window[1] <= BlockNo[p] /\ BlockNo[p] <= window[2]}
  <2>1. Wanted = {p \in Pos : \E q, r \in ends : q <= p /\ p <= r}
    BY <1>4 DEF Wanted
  <2>2. ends \subseteq Pos
    BY <1>2
  <2> HIDE DEF ends
  <2> QED
    BY <1>1, <2>1, <2>2 DEF Convex
<1> QED
  BY <1>3, <1>4

(***************************************************************************)
(* The block range is exact when the database reaches all wanted blocks.   *)
(***************************************************************************)
LEMMA BlockRangeExact ==
  ASSUME NEW R, NEW q, NEW t, GoodRows(R, q, t), Wanted \subseteq 1 .. t,
         cutoff \in Nat, window \in {None} \cup (Nat \X Nat)
  PROVE  Exact(R["block"], BlockRange(R["block"], cutoff, window), Wanted)
<1> DEFINE S == R["block"]
<1>1. /\ S \in SUBSET Row /\ q["block"] \in Nat \ {0}
      /\ \A r \in S : r.id < q["block"] /\ r.pos \in Pos
      /\ \A r \in S : r.id \in Nat /\ r.pos \in Nat
      /\ \A r \in S : r.key # None => r.pos \in Numbered /\ r.key = BlockNo[r.pos]
      /\ \A r, u \in S : r.id <= u.id => r.pos <= u.pos
      /\ \A r, u \in S : r.pos < u.pos => r.id < u.id
      /\ \A r, u \in S : r.id <= u.id /\ None \notin {r.key, u.key} => r.key <= u.key
  <2>1. "block" \in Spine
    BY DEF Spine
  <2> QED
    BY <2>1, BlockNoOrder DEF GoodRows, Row
<1>2. \A p \in Wanted : \E b \in S : b.pos = p /\ b.key = BlockNo[p]
  BY DEF GoodRows, BlockKeys
<1>3. \A p \in Numbered : p \in Pos /\ BlockNo[p] \in Nat /\ BlockNo[p] # None
  BY ChainAssumption DEF Numbered
<1>4. \A p \in Pos : p \in Nat
  BY ChainAssumption DEF Pos
<1> HIDE DEF S
<1>5. CASE window = None
  <2> DEFINE below == {b \in S : b.key # None /\ b.key <= cutoff}
             B == BlockRange(S, cutoff, window)
  <2>1. \A r \in S : r.pos \in Wanted => \E b \in below : r.id <= b.id
    <3> SUFFICES ASSUME NEW r \in S, r.pos \in Wanted
                 PROVE  \E b \in below : r.id <= b.id
      OBVIOUS
    <3>1. PICK y \in Numbered : r.pos <= y /\ BlockNo[y] <= cutoff
      BY <1>5 DEF Wanted, Within
    <3>2. y \in Wanted
      BY <1>3, <1>4, <1>5, <3>1 DEF Wanted, Within
    <3>3. PICK b \in S : b.pos = y /\ b.key = BlockNo[y]
      BY <1>2, <3>2
    <3>4. b \in below
      BY <1>3, <3>1, <3>3
    <3>5. CASE r.pos < y
      BY <1>1, <3>3, <3>4, <3>5
    <3>6. CASE r.pos = y
      <4>1. r.id <= b.id \/ b.id <= r.id
        BY <1>1
      <4>2. r.key = BlockNo[y]
        BY <3>6 DEF GoodRows, BlockKeys, S
      <4>3. r \in below
        BY <1>3, <3>1, <4>2
      <4> QED
        BY <1>1, <4>3
    <3> QED
      BY <1>1, <1>3, <1>4, <3>1, <3>5, <3>6
  <2>2. \A b \in below : \A r \in S : r.id <= b.id => r.pos \in Wanted
    <3> SUFFICES ASSUME NEW b \in below, NEW r \in S, r.id <= b.id
                 PROVE  r.pos \in Wanted
      OBVIOUS
    <3>1. b.pos \in Numbered /\ BlockNo[b.pos] <= cutoff /\ r.pos <= b.pos
      BY <1>1
    <3> QED
      BY <1>1, <1>5, <3>1 DEF Wanted, Within
  <2>3. CASE below = {}
    <3>1. B = [lo |-> 0, hi |-> None]
      BY <1>5, <2>3 DEF BlockRange
    <3>2. \A r \in S : r.pos \notin Wanted
      BY <2>1, <2>3
    <3>3. \A v : ~Between(v, 0, None)
      BY DEF Between
    <3> QED
      BY <3>1, <3>2, <3>3 DEF Exact, S
  <2>4. CASE below # {}
    <3>1. B = [lo |-> 0, hi |-> LastRow(below).id]
      BY <1>5, <2>4 DEF BlockRange
    <3>2. /\ below \in SUBSET Row
          /\ \A r \in below : r.id < q["block"]
          /\ \A r \in below : r.key # None
          /\ \A r, u \in below : r.id <= u.id => r.key <= u.key
          /\ below \subseteq S
      BY <1>1
    <3> HIDE DEF below
    <3>3. LastRow(below) \in below /\ \A r \in below : r.id <= LastRow(below).id
      BY <1>1, <2>4, <3>2, FirstLast
    <3> DEFINE top == LastRow(below).id
    <3>4. top \in Nat
      BY <1>1, <3>2, <3>3
    <3>5. \A r \in S : r.id <= top <=> r.pos \in Wanted
      <4> SUFFICES ASSUME NEW r \in S, r.pos \in Wanted
                   PROVE  r.id <= top
        BY <2>2, <3>3
      <4>1. PICK b \in below : r.id <= b.id
        BY <2>1
      <4> QED
        BY <1>1, <3>2, <3>3, <3>4, <4>1
    <3> HIDE DEF top
    <3>6. \A r \in S : Between(r.id, 0, top) <=> r.id <= top
      <4>1. \A n \in Nat : n # None /\ 0 <= n
        BY NoneAssumption
      <4> QED
        BY <1>1, <3>4, <4>1 DEF Between
    <3>7. B = [lo |-> 0, hi |-> top]
      BY <3>1 DEF top
    <3> QED
      BY <3>5, <3>6, <3>7 DEF Exact, S
  <2> QED
    BY <2>3, <2>4
<1>6. CASE window # None
  <2> DEFINE lo == window[1]
             hi == window[2]
             ends == {p \in Numbered : lo <= BlockNo[p] /\ BlockNo[p] <= hi}
  <2>1. Wanted = {p \in Pos : \E x, y \in ends : x <= p /\ p <= y}
    BY <1>6 DEF Wanted
  <2>2. lo \in Nat /\ hi \in Nat /\ lo # None /\ hi # None
    <3>1. lo \in Nat /\ hi \in Nat
      BY <1>6
    <3> QED
      BY <3>1, NoneAssumption
  <2>3. \A r \in S : Between(r.key, lo, hi) <=> r.key # None /\ r.pos \in ends
    BY <1>1, <1>3, <2>2 DEF Between
  <2>4. ends \subseteq Wanted /\ ends \subseteq Pos
    <3>1. ends \subseteq Pos /\ \A p \in ends : p <= p
      BY <1>3, <1>4
    <3> HIDE DEF ends
    <3> QED
      BY <2>1, <3>1
  <2>5. \A r \in S : Between(r.key, lo, hi) => r.pos \in Wanted
    BY <2>3, <2>4
  <2>6. \A p \in ends : \A r \in S : r.pos = p => Between(r.key, lo, hi)
    <3> SUFFICES ASSUME NEW r \in S, r.pos \in ends
                 PROVE  Between(r.key, lo, hi)
      OBVIOUS
    <3>1. r.key = BlockNo[r.pos] /\ r.pos \in Numbered
      BY DEF GoodRows, BlockKeys, S
    <3> QED
      BY <1>3, <2>3, <3>1
  <2>7. Enclosed(S, lo, hi, Wanted)
    <3> SUFFICES ASSUME NEW r \in S, r.pos \in Wanted
                 PROVE  \E f, l \in S : /\ Between(f.key, lo, hi) /\ f.id <= r.id
                                       /\ Between(l.key, lo, hi) /\ r.id <= l.id
      BY DEF Enclosed
    <3>1. PICK x, y \in ends : x <= r.pos /\ r.pos <= y
      BY <2>1
    <3>2. PICK f \in S : f.pos = x /\ Between(f.key, lo, hi)
      BY <1>2, <2>4, <2>6
    <3>3. PICK l \in S : l.pos = y /\ Between(l.key, lo, hi)
      BY <1>2, <2>4, <2>6
    <3>4. \E u \in S : Between(u.key, lo, hi) /\ u.id <= r.id
      <4>1. CASE x = r.pos
        BY <1>1, <2>6, <4>1
      <4>2. CASE x < r.pos
        BY <1>1, <3>2, <4>2
      <4> QED
        BY <1>1, <1>4, <2>4, <3>1, <4>1, <4>2
    <3>5. \E u \in S : Between(u.key, lo, hi) /\ r.id <= u.id
      <4>1. CASE y = r.pos
        BY <1>1, <2>6, <4>1
      <4>2. CASE r.pos < y
        BY <1>1, <3>3, <4>2
      <4> QED
        BY <1>1, <1>4, <2>4, <3>1, <4>1, <4>2
    <3> QED
      BY <3>4, <3>5
  <2>8. BlockRange(S, cutoff, window) = Minmax(S, lo, hi)
    BY <1>6 DEF BlockRange
  <2> HIDE DEF lo, hi, ends
  <2>9. Exact(S, Minmax(S, lo, hi), Wanted)
    BY <1>1, <2>5, <2>7, MinmaxExact, WantedConvex
  <2> QED
    BY <2>8, <2>9 DEF S
<1> QED
  BY <1>5, <1>6

(***************************************************************************)
(* An exact range of a spine gives an exact range of the spine below it.   *)
(***************************************************************************)
LEMMA ChildRangeExact ==
  ASSUME NEW R, NEW q, NEW t, GoodRows(R, q, t), NEW s \in {"tx", "leaf"}, NEW P
  PROVE  /\ Exact(R[ParentOf(s)], P, Wanted) => Exact(R[s], ChildRange(R[s], P), Wanted)
         /\ ChildRange(R[s], P) \in IdRange
         /\ ChildRange(R[s], P).hi # None => ChildRange(R[s], P).hi < q[s]
<1> DEFINE S == R[s]
<1>1. /\ S \in SUBSET Row /\ q[s] \in Nat \ {0}
      /\ \A r \in S : r.id < q[s] /\ r.pos \in Pos
      /\ \A r, u \in S : r.id <= u.id => r.pos <= u.pos
      /\ \A r, u \in S : r.id <= u.id => r.key <= u.key
      /\ \A r \in S : r.id \in Nat
  <2>1. s \in Spine
    BY DEF Spine
  <2>2. \A r \in S : r.pos \in 1 .. t /\ 1 .. t \subseteq Pos
    BY <2>1, ChainAssumption DEF GoodRows, IdsUsed, Pos
  <2> QED
    BY <2>1, <2>2 DEF GoodRows, IdsUsed, ChainOrder, KeyOrder, Row
<1>2. ChildRange(S, P) = Minmax(S, P.lo, P.hi)
  <2>1. CASE P.lo = None
    <3>1. {r \in S : Between(r.key, P.lo, P.hi)} = {}
      BY <2>1 DEF Between
    <3> QED
      BY <2>1, <3>1 DEF ChildRange, Minmax
  <2>2. CASE P.lo # None
    BY <2>2 DEF ChildRange
  <2> QED
    BY <2>1, <2>2
<1>3. /\ ChildRange(S, P) \in IdRange
      /\ ChildRange(S, P).hi # None => ChildRange(S, P).hi < q[s]
  <2> HIDE DEF S
  <2> QED
    BY <1>1, <1>2, MinmaxBound
<1>4. ASSUME Exact(R[ParentOf(s)], P, Wanted)
      PROVE  Exact(S, ChildRange(S, P), Wanted)
  <2>1. \A r \in S : \E b \in R[ParentOf(s)] : b.id = r.key /\ b.pos = r.pos
    BY DEF GoodRows, ParentLink
  <2>2. \A r \in S : Between(r.key, P.lo, P.hi) <=> r.pos \in Wanted
    <3> TAKE r \in S
    <3>1. PICK b \in R[ParentOf(s)] : b.id = r.key /\ b.pos = r.pos
      BY <2>1
    <3>2. Between(b.id, P.lo, P.hi) <=> b.pos \in Wanted
      BY <1>4 DEF Exact
    <3> QED
      BY <3>1, <3>2
  <2> HIDE DEF S
  <2>3. Enclosed(S, P.lo, P.hi, Wanted)
    <3>1. \A r \in S : r.id <= r.id
      BY <1>1
    <3> QED
      BY <2>2, <3>1 DEF Enclosed
  <2> QED
    BY <1>1, <1>2, <2>2, <2>3, MinmaxExact, WantedConvex
<1> QED
  BY <1>3, <1>4

-----------------------------------------------------------------------------
(***************************************************************************)
(* The inductive invariant.  Its parts: the databases are good; a tip once *)
(* read promises settled positions below it; the cutoff follows from the   *)
(* tips; and a known range is exact, and below all ids still to come.      *)
(***************************************************************************)
DbTypes ==
  /\ rows \in [DB -> [Spine -> SUBSET Row]]
  /\ seq \in [DB -> [Spine -> Nat \ {0}]]
  /\ tip \in [DB -> 0 .. ChainLen]
  /\ forkAt \in [DB -> 0 .. ChainLen]
  /\ settled \in [DB -> SUBSET Pos]
  /\ defect \in Defects

DbGood ==
  \A d \in DB : /\ GoodRows(rows[d], seq[d], tip[d])
                /\ GoodSettled(rows[d], tip[d], settled[d])

ToolTypes ==
  /\ pc \in Stages
  /\ cutoffArg \in CutoffArgs
  /\ window \in Windows
  /\ table \in Tables \cup {None}
  /\ tips \in [DB -> Nat]
  /\ cutoff \in Nat
  /\ ranges \in [DB -> [Spine -> IdRange]]
  /\ status \in Statuses

TipKnown(d) ==
  pc \notin {<<"tip", 1>>, <<"aborted", 1>>} /\ (d = 2 => pc # <<"tip", 2>>)

TipPromise ==
  \A d \in DB : TipKnown(d) =>
    /\ Within(tips[d] - K) \subseteq settled[d]
    /\ AtRest => Within(tips[d]) \subseteq 1 .. tip[d]

CutKnown == pc[1] \in {"range", "pick", "hash", "value", "classify", "done"}

CutFromTips == CutKnown => cutoff = CutoffBlock(cutoffArg, tips[1], tips[2])

RangesBelow ==
  \A d \in DB, s \in Spine :
    ranges[d][s].hi # None => ranges[d][s].hi < seq[d][s]

RangesExact ==
  Trusted => \A d \in DB, s \in Spine :
    RangeKnown(d, s) => Exact(rows[d][s], ranges[d][s], Wanted)

IInv ==
  /\ DbTypes /\ DbGood /\ ToolTypes
  /\ TipPromise /\ CutFromTips /\ RangesBelow /\ RangesExact

(***************************************************************************)
(* What a run that keeps its margin wants is settled in both databases.    *)
(***************************************************************************)
LEMMA MarginSettles ==
  ASSUME IInv, CutKnown, MarginKept, NEW d \in DB
  PROVE  Wanted \subseteq settled[d]
<1> DEFINE top == IF window = None THEN cutoff ELSE window[2]
<1>1. /\ K \in Nat /\ BlockMargin \in Nat /\ (Overrides(cutoffArg) => cutoffArg \in Nat) /\ cutoff \in Nat
      /\ tips[1] \in Nat /\ tips[2] \in Nat /\ tips[d] \in Nat
      /\ window \in {None} \cup (Nat \X Nat)
  BY ChainAssumption, ToolAssumption DEF IInv, ToolTypes, Overrides, DB
<1>2. TipKnown(d)
  BY DEF CutKnown, TipKnown
<1>3. LowTip \in Nat /\ LowTip <= tips[d]
  BY <1>1 DEF LowTip, Smaller, DB
<1>4. top \in Nat
  BY <1>1
<1>5. Wanted \subseteq Within(top)
  BY <1>1 DEF Wanted, Within
<1>6. top <= LowTip - K
  <2>1. CASE window = None
    <3>1. cutoff = Larger(0, (IF Overrides(cutoffArg) THEN cutoffArg ELSE LowTip) - BlockMargin)
      BY DEF IInv, CutFromTips, CutoffBlock, LowTip
    <3>2. K <= BlockMargin /\ BlockMargin <= LowTip /\ (Overrides(cutoffArg) => cutoffArg <= LowTip)
      BY <2>1 DEF MarginKept
    <3> QED
      BY <1>1, <1>3, <2>1, <3>1, <3>2 DEF Larger
  <2>2. CASE window # None
    BY <1>1, <1>3, <2>2 DEF MarginKept
  <2> QED
    BY <2>1, <2>2
<1>7. Within(top) \subseteq Within(tips[d] - K)
  <2> HIDE DEF top
  <2> QED
    BY <1>1, <1>3, <1>4, <1>6, WithinMonotone
<1>8. Within(tips[d] - K) \subseteq settled[d]
  BY <1>2 DEF IInv, TipPromise
<1> QED
  BY <1>5, <1>7, <1>8

(***************************************************************************)
(* What a trusted run wants is settled, or standing still.                 *)
(***************************************************************************)
LEMMA WantedCovered ==
  ASSUME IInv, CutKnown, Trusted, NEW d \in DB
  PROVE  /\ Wanted \subseteq 1 .. tip[d]
         /\ ~AtRest => Wanted \subseteq settled[d]
<1> DEFINE top == IF window = None THEN cutoff ELSE window[2]
<1>1. CASE MarginKept
  <2>1. settled[d] \subseteq 1 .. tip[d]
    BY DEF IInv, DbGood, GoodSettled
  <2> QED
    BY <1>1, <2>1, MarginSettles
<1>2. CASE AtRest /\ ~MarginKept
  <2>1. /\ tips[1] \in Nat /\ tips[2] \in Nat /\ tips[d] \in Nat /\ cutoff \in Nat
        /\ window \in {None} \cup (Nat \X Nat)
    BY ToolAssumption DEF IInv, ToolTypes, DB
  <2>2. top \in Nat /\ top <= LowTip
    BY <1>2, <2>1 DEF Trusted
  <2>3. LowTip \in Nat /\ LowTip <= tips[d]
    BY <2>1 DEF LowTip, Smaller, DB
  <2>4. Wanted \subseteq Within(top)
    BY <2>1 DEF Wanted, Within
  <2>5. Within(top) \subseteq Within(tips[d])
    <3> HIDE DEF top
    <3> QED
      BY <2>1, <2>2, <2>3, WithinMonotone
  <2>6. Within(tips[d]) \subseteq 1 .. tip[d]
    BY <1>2 DEF IInv, TipPromise, TipKnown, CutKnown
  <2> QED
    BY <1>2, <2>4, <2>5, <2>6
<1> QED
  BY <1>1, <1>2 DEF Trusted

(* The invariant holds before the first query. *)
LEMMA InitInv == Init => IInv
<1> SUFFICES ASSUME Init PROVE IInv
  OBVIOUS
<1> USE DEF Init, DbInit, ToolInit
<1>1. ChainLen \in Nat
  BY ChainAssumption
<1>2. DbTypes
  BY <1>1 DEF DbTypes
<1>3. DbGood
  <2> SUFFICES ASSUME NEW d \in DB
               PROVE  /\ GoodRows(rows[d], seq[d], tip[d])
                      /\ GoodSettled(rows[d], tip[d], settled[d])
    BY DEF DbGood
  <2>1. rows[d] = [s \in Spine |-> {}] /\ seq[d] = [s \in Spine |-> 1] /\ tip[d] = 0 /\ settled[d] = {}
    OBVIOUS
  <2>2. \A s \in Spine : rows[d][s] = {}
    BY <2>1
  <2>3. "block" \in Spine /\ "tx" \in Spine /\ "leaf" \in Spine
    BY DEF Spine
  <2>4. GoodSettled(rows[d], tip[d], settled[d])
    BY <2>1, <2>2, <2>3 DEF GoodSettled
  <2>5. IdsUsed(rows[d], seq[d], tip[d]) /\ ChainOrder(rows[d]) /\ KeyOrder(rows[d])
    BY <2>2, <2>3 DEF IdsUsed, ChainOrder, KeyOrder
  <2>6. ParentLink(rows[d]) /\ BlockKeys(rows[d], tip[d])
    BY <2>1, <2>2, <2>3 DEF ParentLink, BlockKeys
  <2>7. rows[d] \in [Spine -> SUBSET Row] /\ seq[d] \in [Spine -> Nat \ {0}] /\ tip[d] \in 0 .. ChainLen
    BY <1>1, <2>1
  <2> QED
    BY <2>4, <2>5, <2>6, <2>7 DEF GoodRows
<1>4. ToolTypes
  <2>1. NoRange \in IdRange
    BY DEF NoRange, IdRange
  <2> QED
    BY <2>1 DEF ToolTypes, Stages, Statuses, DB
<1>5. TipPromise
  BY DEF TipPromise, TipKnown
<1>6. CutFromTips
  BY DEF CutFromTips, CutKnown
<1>7. RangesBelow
  BY DEF RangesBelow, NoRange
<1>8. RangesExact
  BY DEF RangesExact, RangeKnown
<1> QED
  BY <1>2, <1>3, <1>4, <1>5, <1>6, <1>7, <1>8 DEF IInv

(***************************************************************************)
(* Tables that only lose rows, or gain rows above all ids and outside the  *)
(* wanted positions, leave an exact range exact.                           *)
(***************************************************************************)
LEMMA ExactKept ==
  ASSUME NEW S, NEW T, NEW range \in IdRange, NEW W, NEW bound \in Nat,
         Exact(S, range, W), range.hi # None => range.hi < bound,
         \A r \in T : r \in S \/ (r.id \in Nat /\ bound <= r.id /\ r.pos \notin W)
  PROVE  Exact(T, range, W)
<1> SUFFICES ASSUME NEW r \in T, r.id \in Nat, bound <= r.id
             PROVE  ~Between(r.id, range.lo, range.hi)
  BY DEF Exact
<1> QED
  BY NoneAssumption DEF Between, IdRange

(* The premises and the wanted positions depend on the boundary alone. *)
LEMMA BoundaryKept ==
  ASSUME UNCHANGED <<cutoffArg, window, tips, cutoff>>
  PROVE  Trusted' = Trusted /\ Wanted' = Wanted
<1>1. MarginKept' = MarginKept /\ LowTip' = LowTip
  BY DEF MarginKept, LowTip
<1>2. Wanted' = Wanted
  BY DEF Wanted
<1> QED
  BY <1>1, <1>2 DEF Trusted

(* A database step changes nothing the premises of a run speak of. *)
LEMMA DbStepKeepsTool ==
  ASSUME UNCHANGED toolVars
  PROVE  /\ Trusted' = Trusted /\ Wanted' = Wanted /\ ranges' = ranges
         /\ \A d \in DB, s \in Spine : RangeKnown(d, s)' = RangeKnown(d, s)
<1>1. UNCHANGED <<cutoffArg, window, tips, cutoff>> /\ ranges' = ranges /\ pc' = pc
  BY DEF toolVars
<1>2. \A d \in DB, s \in Spine : RangeKnown(d, s)' = RangeKnown(d, s)
  BY <1>1 DEF RangeKnown
<1> QED
  BY <1>1, <1>2, BoundaryKept

(* The invariant survives a block applied by either database. *)
LEMMA AppendInv ==
  ASSUME IInv, NEW d \in DB, Append(d), AtRest => pc = <<"tip", 1>>, UNCHANGED toolVars
  PROVE  IInv'
<1> DEFINE p == tip[d] + 1
           newly == IF p \in Numbered THEN Within(BlockNo[p] - K) ELSE {}
<1>1. PICK f \in IF forkAt[d] # 0 THEN {forkAt[d]}
                 ELSE IF p \in Numbered THEN {0, p} ELSE {0} :
        LET b == IF f = 0 THEN "main" ELSE "fork"
            add == NewRows(d, b, p, seq[d])
        IN  /\ \A q \in newly : f = 0 \/ q < f
            /\ forkAt' = [forkAt EXCEPT ![d] = f]
            /\ rows' = [rows EXCEPT ![d] = [s \in Spine |-> rows[d][s] \cup add[s]]]
            /\ seq' = [seq EXCEPT ![d] = NextSeq(b, p, seq[d])]
  BY DEF Append
<1>2. /\ p \in Pos
      /\ tip' = [tip EXCEPT ![d] = p]
      /\ settled' = [settled EXCEPT ![d] = @ \cup newly]
      /\ defect' = defect
  BY DEF Append
<1> DEFINE b == IF f = 0 THEN "main" ELSE "fork"
           N == NewRows(d, b, p, seq[d])
           R2 == [s \in Spine |-> rows[d][s] \cup N[s]]
           q2 == NextSeq(b, p, seq[d])
<1>3. b \in Branch
  BY DEF Branch
<1>4. DbTypes /\ DbGood
  BY DEF IInv
<1>5. GoodRows(rows[d], seq[d], tip[d]) /\ GoodSettled(rows[d], tip[d], settled[d])
  BY <1>4 DEF DbGood
<1>6. GoodRows(R2, q2, p)
  BY <1>2, <1>3, <1>5, AppendGood
<1>7. GoodSettled(R2, p, settled[d] \cup newly)
  BY <1>2, <1>3, <1>5, AppendSettled
<1>8. seq[d] \in [Spine -> Nat \ {0}]
  BY <1>4 DEF DbTypes
<1>9. \A s \in Spine : \A r \in N[s] : /\ r.pos = p /\ seq[d][s] <= r.id
                                     /\ r.id \in Nat /\ r.id < q2[s]
  <2>1. /\ \A s \in Spine : \A r \in N[s] : r.pos = p /\ seq[d][s] <= r.id /\ r.id < q2[s]
        /\ N \in [Spine -> SUBSET Row]
    BY <1>2, <1>3, <1>8, NewRowsShape
  <2> QED
    BY <2>1 DEF Row
<1>10. \A s \in Spine : seq[d][s] \in Nat /\ q2[s] \in Nat /\ seq[d][s] < q2[s]
  <2>1. NumTx[b][p] \in Nat
    <3>1. NumTx \in [Branch -> [Pos -> Nat]]
      BY ChainAssumption
    <3> QED
      BY <1>2, <1>3, <3>1
  <2> HIDE DEF b, p
  <2> QED
    BY <1>8, <2>1 DEF NextSeq
<1>11. rows' = [rows EXCEPT ![d] = R2] /\ seq' = [seq EXCEPT ![d] = q2]
  BY <1>1
<1>12. p \in 0 .. ChainLen /\ f \in 0 .. ChainLen /\ newly \subseteq Pos
  <2>1. ChainLen \in Nat
    BY ChainAssumption
  <2>2. forkAt[d] \in 0 .. ChainLen
    BY <1>4 DEF DbTypes
  <2>3. newly \subseteq Pos
    BY DEF Within
  <2> HIDE DEF newly
  <2> QED
    BY <1>1, <1>2, <2>1, <2>2, <2>3 DEF Pos
<1> HIDE DEF p, newly, b, N, R2, q2
<1>13. DbTypes'
  <2>1. rows' \in [DB -> [Spine -> SUBSET Row]]
    BY <1>4, <1>6, <1>11 DEF DbTypes, GoodRows
  <2>2. seq' \in [DB -> [Spine -> Nat \ {0}]]
    BY <1>4, <1>6, <1>11 DEF DbTypes, GoodRows
  <2>3. tip' \in [DB -> 0 .. ChainLen] /\ forkAt' \in [DB -> 0 .. ChainLen]
    BY <1>1, <1>2, <1>4, <1>12 DEF DbTypes
  <2>4. settled' \in [DB -> SUBSET Pos] /\ defect' \in Defects
    BY <1>2, <1>4, <1>12 DEF DbTypes
  <2> QED
    BY <2>1, <2>2, <2>3, <2>4 DEF DbTypes
<1>14. DbGood'
  <2> SUFFICES ASSUME NEW e \in DB
               PROVE  /\ GoodRows(rows'[e], seq'[e], tip'[e])
                      /\ GoodSettled(rows'[e], tip'[e], settled'[e])
    BY DEF DbGood
  <2>1. CASE e = d
    BY <1>2, <1>4, <1>6, <1>7, <1>11, <2>1 DEF DbTypes
  <2>2. CASE e # d
    BY <1>2, <1>4, <1>11, <2>2 DEF DbTypes, DbGood
  <2> QED
    BY <2>1, <2>2
<1>15. ToolTypes' /\ CutFromTips'
  BY DEF IInv, ToolTypes, CutFromTips, CutKnown, toolVars
<1>16. TipPromise'
  <2> SUFFICES ASSUME NEW e \in DB, TipKnown(e)
               PROVE  /\ Within(tips[e] - K) \subseteq settled'[e]
                      /\ AtRest => Within(tips[e]) \subseteq 1 .. tip'[e]
    BY DEF TipPromise, TipKnown, toolVars
  <2>1. ~AtRest
    BY DEF TipKnown
  <2>2. settled[e] \subseteq settled'[e]
    BY <1>2, <1>4 DEF DbTypes
  <2> QED
    BY <2>1, <2>2 DEF IInv, TipPromise
<1>17. RangesBelow'
  <2> SUFFICES ASSUME NEW e \in DB, NEW s \in Spine, ranges[e][s].hi # None
               PROVE  ranges[e][s].hi < seq'[e][s]
    BY DEF RangesBelow, toolVars
  <2>1. ranges[e][s].hi < seq[e][s]
    BY DEF IInv, RangesBelow
  <2>2. CASE e # d
    BY <1>4, <1>11, <2>1, <2>2 DEF DbTypes
  <2>3. CASE e = d
    <3>1. ranges[e][s].hi \in Int
      <4>1. ranges[e][s] \in IdRange
        BY DEF IInv, ToolTypes
      <4> QED
        BY <4>1 DEF IdRange
    <3>2. seq'[e][s] = q2[s]
      BY <1>4, <1>11, <2>3 DEF DbTypes
    <3> QED
      BY <1>10, <2>1, <2>3, <3>1, <3>2
  <2> QED
    BY <2>2, <2>3
<1>18. RangesExact'
  <2> SUFFICES ASSUME Trusted, NEW e \in DB, NEW s \in Spine, RangeKnown(e, s)
               PROVE  Exact(rows'[e][s], ranges[e][s], Wanted)
    BY DbStepKeepsTool DEF RangesExact
  <2>1. Exact(rows[e][s], ranges[e][s], Wanted)
    BY DEF IInv, RangesExact
  <2>2. CASE e # d
    BY <1>4, <1>11, <2>1, <2>2 DEF DbTypes
  <2>3. CASE e = d
    <3>1. CutKnown
      BY DEF RangeKnown, CutKnown
    <3>2. Wanted \subseteq 1 .. tip[e]
      BY <3>1, WantedCovered
    <3>3. p \notin Wanted
      <4>1. tip[d] \in Nat
        BY <1>4, ChainAssumption DEF DbTypes
      <4> QED
        BY <2>3, <3>2, <4>1 DEF p
    <3>4. ranges[e][s] \in IdRange
      BY DEF IInv, ToolTypes
    <3>5. ranges[e][s].hi # None => ranges[e][s].hi < seq[e][s]
      BY DEF IInv, RangesBelow
    <3>6. rows'[e][s] = rows[e][s] \cup N[s]
      BY <1>4, <1>11, <2>3 DEF DbTypes, R2
    <3>7. \A r \in rows'[e][s] : r \in rows[e][s] \/ (r.id \in Nat /\ seq[e][s] <= r.id /\ r.pos \notin Wanted)
      BY <1>9, <2>3, <3>3, <3>6
    <3> QED
      BY <1>10, <2>1, <2>3, <3>4, <3>5, <3>7, ExactKept
  <2> QED
    BY <2>2, <2>3
<1> QED
  BY <1>13, <1>14, <1>15, <1>16, <1>17, <1>18 DEF IInv

(* The invariant survives a rollback of either database. *)
LEMMA RollbackInv ==
  ASSUME IInv, NEW d \in DB, Rollback(d), AtRest => pc = <<"tip", 1>>, UNCHANGED toolVars
  PROVE  IInv'
<1>1. PICK p \in 0 .. tip[d] - 1 :
        /\ settled[d] \subseteq 1 .. p
        /\ rows' = [rows EXCEPT ![d] = [s \in Spine |-> {r \in rows[d][s] : r.pos <= p}]]
        /\ tip' = [tip EXCEPT ![d] = p]
        /\ forkAt' = [forkAt EXCEPT ![d] = IF p < @ THEN 0 ELSE @]
        /\ UNCHANGED <<seq, settled, defect>>
  BY DEF Rollback
<1> DEFINE R2 == [s \in Spine |-> {r \in rows[d][s] : r.pos <= p}]
<1>2. DbTypes /\ DbGood
  BY DEF IInv
<1>3. GoodRows(R2, seq[d], p)
  BY <1>1, <1>2, RollbackGood DEF DbGood
<1>4. GoodSettled(R2, p, settled[d])
  BY <1>1, <1>2, RollbackSettled DEF DbGood
<1>5. rows' = [rows EXCEPT ![d] = R2]
  BY <1>1
<1>6. \A s \in Spine : R2[s] \subseteq rows[d][s]
  OBVIOUS
<1> HIDE DEF R2
<1>7. DbTypes'
  <2>1. rows' \in [DB -> [Spine -> SUBSET Row]]
    BY <1>2, <1>3, <1>5 DEF DbTypes, GoodRows
  <2>2. tip' \in [DB -> 0 .. ChainLen]
    BY <1>1, <1>2, <1>3 DEF DbTypes, GoodRows
  <2>3. forkAt' \in [DB -> 0 .. ChainLen]
    BY <1>1, <1>2, ChainAssumption DEF DbTypes
  <2> QED
    BY <1>1, <1>2, <2>1, <2>2, <2>3 DEF DbTypes
<1>8. DbGood'
  <2> SUFFICES ASSUME NEW e \in DB
               PROVE  /\ GoodRows(rows'[e], seq'[e], tip'[e])
                      /\ GoodSettled(rows'[e], tip'[e], settled'[e])
    BY DEF DbGood
  <2>1. CASE e = d
    BY <1>1, <1>2, <1>3, <1>4, <1>5, <2>1 DEF DbTypes
  <2>2. CASE e # d
    BY <1>1, <1>2, <1>5, <2>2 DEF DbTypes, DbGood
  <2> QED
    BY <2>1, <2>2
<1>9. ToolTypes' /\ CutFromTips' /\ RangesBelow'
  BY <1>1 DEF IInv, ToolTypes, CutFromTips, CutKnown, RangesBelow, toolVars
<1>10. TipPromise'
  <2> SUFFICES ASSUME NEW e \in DB, TipKnown(e)
               PROVE  /\ Within(tips[e] - K) \subseteq settled[e]
                      /\ AtRest => Within(tips[e]) \subseteq 1 .. tip'[e]
    BY <1>1 DEF TipPromise, TipKnown, toolVars
  <2>1. ~AtRest
    BY DEF TipKnown
  <2> QED
    BY <2>1 DEF IInv, TipPromise
<1>11. RangesExact'
  <2> SUFFICES ASSUME Trusted, NEW e \in DB, NEW s \in Spine, RangeKnown(e, s)
               PROVE  Exact(rows'[e][s], ranges[e][s], Wanted)
    BY DbStepKeepsTool DEF RangesExact
  <2>1. Exact(rows[e][s], ranges[e][s], Wanted)
    BY DEF IInv, RangesExact
  <2>2. rows'[e][s] \subseteq rows[e][s]
    BY <1>2, <1>5, <1>6 DEF DbTypes
  <2> QED
    BY <2>1, <2>2 DEF Exact
<1> QED
  BY <1>7, <1>8, <1>9, <1>10, <1>11 DEF IInv

(* The invariant survives every step of the databases. *)
LEMMA DbStepInv == IInv /\ DbStep => IInv'
  BY AppendInv, RollbackInv DEF DbStep, DbNext

(***************************************************************************)
(* The steps of the tool that touch nothing the invariant speaks of but pc *)
(* and the results.                                                        *)
(***************************************************************************)
LEMMA ReadTipInv ==
  ASSUME IInv, NEW d \in DB, ReadTip(d)
  PROVE  IInv'
<1> DEFINE numbers == {b.key : b \in rows[d]["block"]} \ {None}
<1>1. /\ pc = <<"tip", d>>
      /\ UNCHANGED <<dbVars, cutoffArg, window, table, cutoff, ranges, hash, value, status>>
  BY DEF ReadTip
<1>2. DbTypes' /\ DbGood' /\ RangesBelow'
  BY <1>1 DEF IInv, DbTypes, DbGood, RangesBelow, dbVars
<1>3. CASE numbers = {}
  <2>1. pc' = <<"aborted", 1>> /\ tips' = tips
    BY <1>3 DEF ReadTip
  <2>2. ToolTypes' /\ TipPromise' /\ CutFromTips' /\ RangesExact'
    BY <1>1, <2>1 DEF IInv, ToolTypes, Stages, TipPromise, TipKnown, CutFromTips, CutKnown,
                      RangesExact, RangeKnown
  <2> QED
    BY <1>2, <2>2 DEF IInv
<1>4. CASE numbers # {}
  <2>1. PICK n \in numbers : (\A m \in numbers : m <= n) /\ tips' = [tips EXCEPT ![d] = n]
    BY <1>4 DEF ReadTip
  <2>2. pc' = IF d = 1 THEN <<"tip", 2>> ELSE <<"cut", 1>>
    BY <1>4 DEF ReadTip
  <2>3. PICK b \in rows[d]["block"] : b.key = n /\ n # None
    OBVIOUS
  <2>4. GoodRows(rows[d], seq[d], tip[d]) /\ GoodSettled(rows[d], tip[d], settled[d])
    BY DEF IInv, DbGood
  <2>5. n \in Nat
    <3>1. rows[d]["block"] \subseteq Row
      BY <2>4 DEF GoodRows, Spine
    <3> QED
      BY <2>3, <3>1 DEF Row
  <2>6. Within(n - K) \subseteq settled[d]
    BY <2>3, <2>4 DEF GoodSettled
  <2>7. Within(n) \subseteq 1 .. tip[d]
    <3>1. b.pos \in Numbered /\ n = BlockNo[b.pos] /\ b.pos \in 1 .. tip[d]
      BY <2>3, <2>4, BlockNoOrder
    <3>2. Within(n) \subseteq 1 .. b.pos
      BY <2>5, <3>1, WithinBelow
    <3>3. tip[d] \in Nat
      BY <2>4, ChainAssumption DEF GoodRows
    <3> QED
      BY <3>1, <3>2, <3>3
  <2>8. tips \in [DB -> Nat] /\ tips' \in [DB -> Nat] /\ tips'[d] = n
    BY <2>1, <2>5 DEF IInv, ToolTypes
  <2>9. ToolTypes'
    BY <1>1, <2>2, <2>8 DEF IInv, ToolTypes, Stages, DB
  <2>10. TipPromise'
    <3> SUFFICES ASSUME NEW e \in DB, TipKnown(e)'
                 PROVE  /\ Within(tips'[e] - K) \subseteq settled[e]
                        /\ AtRest => Within(tips'[e]) \subseteq 1 .. tip[e]
      BY <1>1 DEF TipPromise, dbVars
    <3>1. CASE e = d
      BY <2>6, <2>7, <2>8, <3>1
    <3>2. CASE e # d
      <4>1. TipKnown(e)
        BY <1>1, <2>2, <3>2 DEF TipKnown, DB
      <4>2. tips'[e] = tips[e]
        BY <2>1, <2>8, <3>2
      <4> QED
        BY <4>1, <4>2 DEF IInv, TipPromise
    <3> QED
      BY <3>1, <3>2
  <2>11. CutFromTips' /\ RangesExact'
    BY <2>2 DEF CutFromTips, CutKnown, RangesExact, RangeKnown
  <2> QED
    BY <1>2, <2>9, <2>10, <2>11 DEF IInv
<1> QED
  BY <1>3, <1>4

(* The invariant survives the choice of the cutoff. *)
LEMMA CutInv ==
  ASSUME IInv, Cut
  PROVE  IInv'
<1>1. /\ pc = <<"cut", 1>> /\ pc' = <<"range", 1, "block">>
      /\ cutoff' = CutoffBlock(cutoffArg, tips[1], tips[2])
      /\ UNCHANGED <<dbVars, cutoffArg, window, table, tips, ranges, hash, value, status>>
  BY DEF Cut
<1>2. DbTypes' /\ DbGood' /\ RangesBelow'
  BY <1>1 DEF IInv, DbTypes, DbGood, RangesBelow, dbVars
<1>3. cutoff' \in Nat
  <2>1. BlockMargin \in Nat /\ (Overrides(cutoffArg) => cutoffArg \in Nat) /\ tips[1] \in Nat /\ tips[2] \in Nat
    BY ToolAssumption DEF IInv, ToolTypes, Overrides, DB
  <2> QED
    BY <1>1, <2>1 DEF CutoffBlock, Larger, Smaller
<1>4. ToolTypes'
  BY <1>1, <1>3 DEF IInv, ToolTypes, Stages, DB, Spine
<1>5. TipPromise'
  BY <1>1 DEF IInv, TipPromise, TipKnown, dbVars
<1>6. CutFromTips'
  BY <1>1 DEF CutFromTips
<1>7. RangesExact'
  <2>1. \A d \in DB, s \in Spine : ~RangeKnown(d, s)'
    BY <1>1 DEF RangeKnown, DB, Spine
  <2> QED
    BY <2>1 DEF RangesExact
<1> QED
  BY <1>2, <1>4, <1>5, <1>6, <1>7 DEF IInv

(* The invariant survives the reading of an id range. *)
LEMMA ReadRangeInv ==
  ASSUME IInv, NEW d \in DB, NEW s \in Spine, ReadRange(d, s)
  PROVE  IInv'
<1>1. /\ pc = <<"range", d, s>>
      /\ ranges' = [ranges EXCEPT ![d][s] = RangeOf(d, s)]
      /\ pc' = AfterRange(d, s)
      /\ UNCHANGED <<dbVars, cutoffArg, window, table, tips, cutoff, hash, value, status>>
  BY DEF ReadRange
<1>2. GoodRows(rows[d], seq[d], tip[d]) /\ cutoff \in Nat /\ window \in {None} \cup (Nat \X Nat)
  BY ToolAssumption DEF IInv, DbGood, ToolTypes
<1>3. CutKnown
  BY <1>1 DEF CutKnown
<1>4. RangeOf(d, s) \in IdRange /\ (RangeOf(d, s).hi # None => RangeOf(d, s).hi < seq[d][s])
  <2>1. CASE s = "block"
    BY <1>2, <2>1, BlockRangeBound DEF RangeOf
  <2>2. CASE s = "tx"
    BY <1>2, <2>2, ChildRangeExact DEF RangeOf
  <2>3. CASE s = "leaf"
    BY <1>2, <2>3, ChildRangeExact DEF RangeOf
  <2> QED
    BY <2>1, <2>2, <2>3 DEF Spine
<1>5. Trusted => Exact(rows[d][s], RangeOf(d, s), Wanted)
  <2> SUFFICES ASSUME Trusted PROVE Exact(rows[d][s], RangeOf(d, s), Wanted)
    OBVIOUS
  <2>1. CASE s = "block"
    <3>1. Wanted \subseteq 1 .. tip[d]
      BY <1>3, WantedCovered
    <3> QED
      BY <1>2, <2>1, <3>1, BlockRangeExact DEF RangeOf
  <2>2. CASE s = "tx"
    <3>1. RangeKnown(d, "block")
      BY <1>1, <2>2 DEF RangeKnown
    <3>2. Exact(rows[d]["block"], ranges[d]["block"], Wanted)
      BY <3>1 DEF IInv, RangesExact, Spine
    <3>3. ParentOf("tx") = "block"
      BY DEF ParentOf
    <3> QED
      BY <1>2, <2>2, <3>2, <3>3, ChildRangeExact DEF RangeOf
  <2>3. CASE s = "leaf"
    <3>1. RangeKnown(d, "tx")
      BY <1>1, <2>3 DEF RangeKnown
    <3>2. Exact(rows[d]["tx"], ranges[d]["tx"], Wanted)
      BY <3>1 DEF IInv, RangesExact, Spine
    <3>3. ParentOf("leaf") = "tx"
      BY DEF ParentOf
    <3> QED
      BY <1>2, <2>3, <3>2, <3>3, ChildRangeExact DEF RangeOf
  <2> QED
    BY <2>1, <2>2, <2>3 DEF Spine
<1>6. ranges \in [DB -> [Spine -> IdRange]]
  BY DEF IInv, ToolTypes
<1> HIDE DEF RangeOf
<1>7. ranges' \in [DB -> [Spine -> IdRange]] /\ ranges'[d][s] = RangeOf(d, s)
  BY <1>1, <1>4, <1>6
<1>8. \A e \in DB, u \in Spine : e # d \/ u # s => ranges'[e][u] = ranges[e][u]
  BY <1>1, <1>6
<1>9. DbTypes' /\ DbGood'
  BY <1>1 DEF IInv, DbTypes, DbGood, dbVars
<1>10. pc' \in Stages
  BY <1>1 DEF AfterRange, Stages, Spine, DB
<1>11. ToolTypes'
  BY <1>1, <1>7, <1>10 DEF IInv, ToolTypes
<1>12. pc' \notin {<<"tip", 1>>, <<"tip", 2>>, <<"aborted", 1>>}
  BY <1>1 DEF AfterRange, Spine, DB
<1>13. TipPromise'
  BY <1>1 DEF IInv, TipPromise, TipKnown, dbVars
<1>14. CutFromTips'
  BY <1>1, <1>3 DEF IInv, CutFromTips
<1>15. RangesBelow'
  <2> SUFFICES ASSUME NEW e \in DB, NEW u \in Spine, ranges'[e][u].hi # None
               PROVE  ranges'[e][u].hi < seq[e][u]
    BY <1>1 DEF RangesBelow, dbVars
  <2>1. CASE e = d /\ u = s
    BY <1>4, <1>7, <2>1
  <2>2. CASE e # d \/ u # s
    BY <1>8, <2>2 DEF IInv, RangesBelow
  <2> QED
    BY <2>1, <2>2
<1>16. RangesExact'
  <2>1. Trusted' = Trusted /\ Wanted' = Wanted /\ rows' = rows
    BY <1>1, BoundaryKept DEF dbVars
  <2> SUFFICES ASSUME Trusted, NEW e \in DB, NEW u \in Spine, RangeKnown(e, u)'
               PROVE  Exact(rows[e][u], ranges'[e][u], Wanted)
    BY <2>1 DEF RangesExact
  <2>2. CASE e = d /\ u = s
    BY <1>5, <1>7, <2>2
  <2>3. CASE e # d \/ u # s
    <3>1. RangeKnown(e, u)
      <4>1. CASE s = "block"
        BY <1>1, <2>3, <4>1 DEF RangeKnown, AfterRange, DB, Spine
      <4>2. CASE s = "tx"
        BY <1>1, <2>3, <4>2 DEF RangeKnown, AfterRange, DB, Spine
      <4>3. CASE s = "leaf"
        BY <1>1, <2>3, <4>3 DEF RangeKnown, AfterRange, DB, Spine
      <4> QED
        BY <4>1, <4>2, <4>3 DEF Spine
    <3> QED
      BY <1>8, <2>3, <3>1 DEF IInv, RangesExact
  <2> QED
    BY <2>2, <2>3
<1> QED
  BY <1>9, <1>11, <1>13, <1>14, <1>15, <1>16 DEF IInv

(***************************************************************************)
(* From Pick on, the ranges are known and no longer change.                *)
(***************************************************************************)
LEMMA CompareStepInv ==
  ASSUME IInv, pc[1] \in {"pick", "hash", "value", "classify"},
         UNCHANGED <<dbVars, cutoffArg, window, tips, cutoff, ranges>>, ToolTypes'
  PROVE  IInv'
<1>1. DbTypes' /\ DbGood' /\ RangesBelow'
  BY DEF IInv, DbTypes, DbGood, RangesBelow, dbVars
<1>2. TipPromise'
  BY DEF IInv, TipPromise, TipKnown, dbVars
<1>3. CutFromTips'
  BY DEF IInv, CutFromTips, CutKnown
<1>4. RangesExact'
  <2>1. Trusted' = Trusted /\ Wanted' = Wanted /\ rows' = rows /\ ranges' = ranges
    BY BoundaryKept DEF dbVars
  <2>2. \A d \in DB, s \in Spine : RangeKnown(d, s)
    BY DEF RangeKnown
  <2> QED
    BY <2>1, <2>2 DEF IInv, RangesExact
<1> QED
  BY <1>1, <1>2, <1>3, <1>4 DEF IInv

(* The invariant survives every step of the comparator. *)
LEMMA ToolStepInv == IInv /\ ToolNext => IInv'
<1> SUFFICES ASSUME IInv, ToolNext PROVE IInv'
  OBVIOUS
<1> USE DEF Error
<1>1. ASSUME NEW d \in DB, ReadTip(d) PROVE IInv'
  BY <1>1, ReadTipInv
<1>2. ASSUME NEW d \in DB, Hash(d) PROVE IInv'
  <2>1. ToolTypes'
    BY <1>2 DEF Hash, IInv, ToolTypes, Stages, Statuses, DB
  <2> QED
    BY <1>2, <2>1, CompareStepInv DEF Hash
<1>3. ASSUME NEW d \in DB, ReadValue(d) PROVE IInv'
  <2>1. ToolTypes'
    BY <1>3 DEF ReadValue, IInv, ToolTypes, Stages, DB
  <2> QED
    BY <1>3, <2>1, CompareStepInv DEF ReadValue
<1>4. ASSUME NEW d \in DB, NEW s \in Spine, ReadRange(d, s) PROVE IInv'
  BY <1>4, ReadRangeInv
<1>5. CASE Cut
  BY <1>5, CutInv
<1>6. CASE Pick
  <2>1. ToolTypes'
    BY <1>6 DEF Pick, IInv, ToolTypes, Stages, DB
  <2> QED
    BY <1>6, <2>1, CompareStepInv DEF Pick
<1>7. CASE QueryFails
  <2>1. ToolTypes'
    BY <1>7 DEF QueryFails, IInv, ToolTypes, Stages, Statuses
  <2> QED
    BY <1>7, <2>1, CompareStepInv DEF QueryFails
<1>8. CASE Classify
  <2>1. status' \in Statuses
    BY <1>8 DEF Classify, Verdict, Statuses
  <2>2. ToolTypes'
    BY <1>8, <2>1 DEF Classify, IInv, ToolTypes, Stages
  <2> QED
    BY <1>8, <2>2, CompareStepInv DEF Classify
<1> QED
  BY <1>1, <1>2, <1>3, <1>4, <1>5, <1>6, <1>7, <1>8 DEF ToolNext

(* The invariant survives stuttering. *)
LEMMA StutterInv == IInv /\ UNCHANGED vars => IInv'
<1> SUFFICES ASSUME IInv, UNCHANGED vars PROVE IInv'
  OBVIOUS
<1>1. /\ UNCHANGED toolVars
      /\ UNCHANGED <<rows, seq, tip, forkAt, settled, defect>>
  BY DEF vars, dbVars
<1>2. DbTypes' /\ DbGood' /\ RangesBelow'
  BY <1>1 DEF IInv, DbTypes, DbGood, RangesBelow, toolVars
<1>3. ToolTypes' /\ TipPromise' /\ CutFromTips'
  BY <1>1 DEF IInv, ToolTypes, TipPromise, TipKnown, CutFromTips, CutKnown, toolVars
<1>4. RangesExact'
  BY <1>1, DbStepKeepsTool DEF IInv, RangesExact
<1> QED
  BY <1>2, <1>3, <1>4 DEF IInv

-----------------------------------------------------------------------------
(***************************************************************************)
(* The invariant holds in every reachable state (ranges.py:44-79,          *)
(* cli.py:227-262, compare.py:45-89, against moving databases).            *)
(***************************************************************************)
THEOREM Invariance == Spec => []IInv
<1>1. IInv /\ [Next]_vars => IInv'
  BY DbStepInv, ToolStepInv, StutterInv DEF Next
<1> QED
  BY InitInv, <1>1, PTL DEF Spec

(***************************************************************************)
(* Every variable keeps its type: a range never holds anything but ids and *)
(* None, the cutoff is never negative (cli.py:229), the verdict is one of  *)
(* the documented ones.                                                    *)
(***************************************************************************)
THEOREM TypeCorrect == Spec => []TypeOK
<1>1. IInv => TypeOK
  BY DEF IInv, DbTypes, ToolTypes, TypeOK
<1> QED
  BY <1>1, Invariance, PTL

(***************************************************************************)
(* For every chain, security parameter, margin and window: the id ranges   *)
(* of a trusted run select exactly the rows of the wanted blocks, from the *)
(* moment they are read to the end of the run (ranges.py:44-79).           *)
(***************************************************************************)
THEOREM WindowsStayExact == Spec => []WindowExact
<1>1. IInv => WindowExact
  BY DEF IInv, RangesExact, Exact, WindowExact
<1> QED
  BY <1>1, Invariance, PTL

-----------------------------------------------------------------------------
(***************************************************************************)
(* The verdicts: a verdict is the truth, the value proof never contradicts *)
(* the hash, and a run that keeps its margin raises no false alarm.        *)
(***************************************************************************)

(***************************************************************************)
(* The rows of the table at the wanted positions: what the hash and the    *)
(* value proof are about.                                                  *)
(***************************************************************************)
Chosen(d) == {r \in TableRows(table, rows[d]) : r.pos \in Wanted}

RowsFinite == \A d \in DB, s \in Spine : IsFiniteSet(rows[d][s])

(***************************************************************************)
(* Which answers are known at which query.                                 *)
(***************************************************************************)
Verdicts == Statuses \ {"PENDING", "ERROR"}

HashKnown(d) ==
  \/ pc = <<"hash", 2>> /\ d = 1
  \/ pc[1] \in {"value", "classify"}
  \/ status \in Verdicts

ValueKnown(d) ==
  \/ pc = <<"value", 2>> /\ d = 1
  \/ pc[1] = "classify"
  \/ status \in Verdicts

ValueOf(S) == IF table \in ValueTables THEN ValueAggregate(S) ELSE None

(***************************************************************************)
(* Every answer known is the answer about the chosen rows of the database  *)
(* as it is now, though it was read earlier.                               *)
(***************************************************************************)
AnswersTrue ==
  Trusted => \A d \in DB :
    /\ HashKnown(d) => hash[d] = SetHash(Chosen(d))
    /\ ValueKnown(d) => value[d] = ValueOf(Chosen(d))

Course ==
  /\ hash = [d \in DB |-> hash[d]] /\ value = [d \in DB |-> value[d]]
  /\ pc[1] \in {"hash", "value", "classify"} => table \in Tables
  /\ pc[1] = "value" => table \in ValueTables
  /\ pc[1] \in {"tip", "cut", "range", "pick", "hash"} => value = [d \in DB |-> None]
  /\ pc[1] = "classify" /\ table \notin ValueTables => value = [d \in DB |-> None]
  /\ pc[1] # "done" => status = "PENDING"
  /\ status \in Verdicts => /\ table \in Tables
                            /\ status = Verdict(hash[1], hash[2], value[1], value[2])

AnswerInv == RowsFinite /\ AnswersTrue /\ Course
(***************************************************************************)
(* What the rows of database d say of the chain, f being where it left the *)
(* main branch, t its tip and w what it writes wrongly: every content of a *)
(* block of its branch is there, exactly once, and nothing else is.        *)
(***************************************************************************)
BranchAt(f, p) == IF f # 0 /\ f <= p THEN "fork" ELSE "main"

Indices(s, d, b, p, w) ==
  CASE s = "block" -> {0}
    [] s = "tx"    -> 1 .. NumTx[b][p]
    [] s = "leaf"  -> {i \in 1 .. NumTx[b][p] :
                         i \in Leaves[b][p] /\ ~(d = 2 /\ p = w.pos /\ w.lost)}

Contents(s, d, b, p, w) ==
  {[branch |-> b, pos |-> p, idx |-> i,
    bad |-> d = 2 /\ i > 0 /\ p = w.pos /\ ~w.lost] : i \in Indices(s, d, b, p, w)}

Carries(R, d, f, t, w) ==
  \A s \in Spine :
    /\ \A r \in R[s] : r.content \in Contents(s, d, BranchAt(f, r.pos), r.pos, w)
    /\ \A p \in 1 .. t : \A c \in Contents(s, d, BranchAt(f, p), p, w) :
         \E r \in R[s] : r.content = c
    /\ \A r, u \in R[s] : r.content = u.content => r = u

ForkAboveSettled(d) ==
  /\ forkAt[d] <= tip[d]
  /\ \A q \in settled[d] : forkAt[d] = 0 \/ q < forkAt[d]

ChainTold ==
  \A d \in DB : Carries(rows[d], d, forkAt[d], tip[d], defect) /\ ForkAboveSettled(d)

-----------------------------------------------------------------------------
(* The rows a block adds carry the contents of its branch, each once. *)
LEMMA NewRowsCarry ==
  ASSUME NEW d \in DB, NEW b \in Branch, NEW p \in Pos,
         NEW q \in [Spine -> Nat \ {0}], NEW s \in Spine
  PROVE  LET N == NewRows(d, b, p, q)[s]
         IN  /\ IsFiniteSet(N)
             /\ \A r \in N : r.pos = p /\ r.content \in Contents(s, d, b, p, defect)
             /\ \A c \in Contents(s, d, b, p, defect) : \E r \in N : r.content = c
             /\ \A r, u \in N : r.content = u.content => r = u
<1> DEFINE N == NewRows(d, b, p, q)[s]
           Ind == Indices(s, d, b, p, defect)
           row == [i \in Ind |->
                     [id  |-> IF s = "block" THEN q["block"] ELSE q[s] + i,
                      key |-> CASE s = "block" -> BlockNo[p]
                                [] s = "tx"    -> q["block"]
                                [] s = "leaf"  -> q["tx"] + i,
                      pos |-> p, content |-> Content(d, b, p, i)]]
<1>1. N = {row[i] : i \in Ind}
  <2>1. CASE s = "block"
    BY <2>1 DEF NewRows, Indices
  <2>2. CASE s = "tx"
    BY <2>2 DEF NewRows, Indices
  <2>3. CASE s = "leaf"
    BY <2>3 DEF NewRows, Indices, HasLeaf
  <2> QED
    BY <2>1, <2>2, <2>3 DEF Spine
<1>2. IsFiniteSet(Ind)
  <2>1. NumTx[b][p] \in Nat
    <3>1. NumTx[b] \in [Pos -> Nat]
      BY ChainAssumption
    <3> QED
      BY <3>1
  <2>2. IsFiniteSet(1 .. NumTx[b][p])
    BY <2>1, FS_Interval
  <2>3. CASE s = "block"
    BY <2>3, FS_Singleton DEF Indices
  <2>4. CASE s = "tx"
    BY <2>2, <2>4 DEF Indices
  <2>5. CASE s = "leaf"
    <3>1. Ind \in SUBSET (1 .. NumTx[b][p])
      BY <2>5 DEF Indices
    <3> HIDE DEF Ind
    <3> QED
      BY <2>2, <3>1, FS_Subset
  <2> QED
    BY <2>3, <2>4, <2>5 DEF Spine
<1>3. \A i \in Ind : row[i].pos = p /\ row[i].content = Content(d, b, p, i)
  OBVIOUS
<1>4. \A i, j \in Ind : row[i].content = row[j].content => i = j
  BY DEF Content
<1>5. Contents(s, d, b, p, defect) = {Content(d, b, p, i) : i \in Ind}
  BY DEF Contents, Content
<1> HIDE DEF Ind, row
<1>6. IsFiniteSet({row[i] : i \in Ind})
  BY <1>2, ImageFinite
<1> QED
  BY <1>1, <1>3, <1>4, <1>5, <1>6

(* A content names its position and branch. *)
LEMMA ContentsAt ==
  ASSUME NEW s, NEW d, NEW b, NEW p, NEW w, NEW c \in Contents(s, d, b, p, w)
  PROVE  c.pos = p /\ c.branch = b
BY DEF Contents

(***************************************************************************)
(* Applying a block at the tip, on the branch the database is on or leaves *)
(* to there, keeps the chain told.                                         *)
(***************************************************************************)
LEMMA AppendCarries ==
  ASSUME NEW d \in DB, NEW p \in Pos, NEW R, NEW q, NEW t, GoodRows(R, q, t), p = t + 1,
         NEW f \in Nat, f <= t, NEW g \in Nat, f # 0 => g = f, f = 0 => g \in {0, p},
         Carries(R, d, f, t, defect)
  PROVE  LET b == IF g = 0 THEN "main" ELSE "fork"
         IN  Carries([s \in Spine |-> R[s] \cup NewRows(d, b, p, q)[s]], d, g, p, defect)
<1> DEFINE b == IF g = 0 THEN "main" ELSE "fork"
           N == NewRows(d, b, p, q)
           R2 == [s \in Spine |-> R[s] \cup N[s]]
<1>1. b \in Branch /\ q \in [Spine -> Nat \ {0}] /\ t \in Nat
  BY ChainAssumption DEF Branch, GoodRows
<1>2. BranchAt(g, p) = b
  BY <1>1 DEF BranchAt
<1>3. \A x \in 1 .. t : BranchAt(g, x) = BranchAt(f, x)
  BY <1>1 DEF BranchAt
<1> SUFFICES ASSUME NEW s \in Spine
             PROVE  /\ \A r \in R2[s] : r.content \in Contents(s, d, BranchAt(g, r.pos), r.pos, defect)
                    /\ \A x \in 1 .. p : \A c \in Contents(s, d, BranchAt(g, x), x, defect) :
                         \E r \in R2[s] : r.content = c
                    /\ \A r, u \in R2[s] : r.content = u.content => r = u
  BY DEF Carries
<1>4. /\ \A r \in N[s] : r.pos = p /\ r.content \in Contents(s, d, b, p, defect)
      /\ \A c \in Contents(s, d, b, p, defect) : \E r \in N[s] : r.content = c
      /\ \A r, u \in N[s] : r.content = u.content => r = u
  BY <1>1, NewRowsCarry
<1>5. /\ \A r \in R[s] : r.pos \in 1 .. t /\ r.content \in Contents(s, d, BranchAt(f, r.pos), r.pos, defect)
      /\ \A x \in 1 .. t : \A c \in Contents(s, d, BranchAt(f, x), x, defect) :
           \E r \in R[s] : r.content = c
      /\ \A r, u \in R[s] : r.content = u.content => r = u
  BY DEF Carries, GoodRows, IdsUsed
<1>6. R2[s] = R[s] \cup N[s]
  OBVIOUS
<1> HIDE DEF R2, N, b
<1>7. \A r \in R2[s] : r.content \in Contents(s, d, BranchAt(g, r.pos), r.pos, defect)
  BY <1>2, <1>3, <1>4, <1>5, <1>6
<1>8. \A x \in 1 .. p : \A c \in Contents(s, d, BranchAt(g, x), x, defect) :
        \E r \in R2[s] : r.content = c
  <2> SUFFICES ASSUME NEW x \in 1 .. p, NEW c \in Contents(s, d, BranchAt(g, x), x, defect)
               PROVE  \E r \in R2[s] : r.content = c
    OBVIOUS
  <2>1. CASE x = p
    BY <1>2, <1>4, <1>6, <2>1
  <2>2. CASE x \in 1 .. t
    BY <1>3, <1>5, <1>6, <2>2
  <2> QED
    BY <1>1, <2>1, <2>2
<1>9. \A r \in R[s], u \in N[s] : r.content.pos \in 1 .. t /\ u.content.pos = p
  BY <1>4, <1>5, ContentsAt
<1>10. \A r, u \in R2[s] : r.content = u.content => r = u
  BY <1>1, <1>4, <1>5, <1>6, <1>9
<1> QED
  BY <1>7, <1>8, <1>10

(* So does a rollback, which takes the rows above p, and the fork with them. *)
LEMMA RollbackCarries ==
  ASSUME NEW d \in DB, NEW R, NEW q, NEW t, GoodRows(R, q, t), NEW p \in 0 .. t,
         NEW f \in Nat, NEW w, Carries(R, d, f, t, w)
  PROVE  Carries([s \in Spine |-> {r \in R[s] : r.pos <= p}], d,
                 IF p < f THEN 0 ELSE f, p, w)
<1> DEFINE R2 == [s \in Spine |-> {r \in R[s] : r.pos <= p}]
           g == IF p < f THEN 0 ELSE f
<1>1. t \in Nat /\ \A s \in Spine : \A r \in R[s] : r.pos \in 1 .. t
  BY ChainAssumption DEF GoodRows, IdsUsed
<1>2. \A x \in 1 .. p : BranchAt(g, x) = BranchAt(f, x)
  BY <1>1 DEF BranchAt
<1> SUFFICES ASSUME NEW s \in Spine
             PROVE  /\ \A r \in R2[s] : r.content \in Contents(s, d, BranchAt(g, r.pos), r.pos, w)
                    /\ \A x \in 1 .. p : \A c \in Contents(s, d, BranchAt(g, x), x, w) :
                         \E r \in R2[s] : r.content = c
                    /\ \A r, u \in R2[s] : r.content = u.content => r = u
  BY DEF Carries
<1>3. /\ \A r \in R[s] : r.content \in Contents(s, d, BranchAt(f, r.pos), r.pos, w)
      /\ \A x \in 1 .. t : \A c \in Contents(s, d, BranchAt(f, x), x, w) :
           \E r \in R[s] : r.content = c
      /\ \A r, u \in R[s] : r.content = u.content => r = u
  BY DEF Carries
<1>4. \A r \in R2[s] : r \in R[s] /\ r.pos \in 1 .. p
  BY <1>1
<1>5. \A r \in R[s] : r.pos <= p => r \in R2[s]
  OBVIOUS
<1> HIDE DEF R2, g
<1>6. \A x \in 1 .. p : \A c \in Contents(s, d, BranchAt(g, x), x, w) :
        \E r \in R2[s] : r.content = c
  <2> SUFFICES ASSUME NEW x \in 1 .. p, NEW c \in Contents(s, d, BranchAt(g, x), x, w)
               PROVE  \E r \in R2[s] : r.content = c
    OBVIOUS
  <2>1. c \in Contents(s, d, BranchAt(f, x), x, w) /\ x \in 1 .. t
    BY <1>1, <1>2
  <2>2. PICK r \in R[s] : r.content = c
    BY <1>3, <2>1
  <2>3. c.pos = x /\ c.pos = r.pos
    BY <1>3, <2>1, <2>2, ContentsAt
  <2> QED
    BY <1>1, <1>5, <2>2, <2>3
<1> QED
  BY <1>2, <1>3, <1>4, <1>6
-----------------------------------------------------------------------------
(***************************************************************************)
(* A step of a database keeps its chain told, its fork above what settled, *)
(* and its tables finite.                                                  *)
(***************************************************************************)
LEMMA AppendTold ==
  ASSUME IInv, RowsFinite, ChainTold, NEW d \in DB, Append(d)
  PROVE  RowsFinite' /\ ChainTold'
<1> DEFINE p == tip[d] + 1
           newly == IF p \in Numbered THEN Within(BlockNo[p] - K) ELSE {}
<1>1. PICK f \in IF forkAt[d] # 0 THEN {forkAt[d]}
                 ELSE IF p \in Numbered THEN {0, p} ELSE {0} :
        LET b == IF f = 0 THEN "main" ELSE "fork"
            add == NewRows(d, b, p, seq[d])
        IN  /\ \A q \in newly : f = 0 \/ q < f
            /\ forkAt' = [forkAt EXCEPT ![d] = f]
            /\ rows' = [rows EXCEPT ![d] = [s \in Spine |-> rows[d][s] \cup add[s]]]
  BY DEF Append
<1>2. /\ p \in Pos
      /\ tip' = [tip EXCEPT ![d] = p]
      /\ settled' = [settled EXCEPT ![d] = @ \cup newly]
      /\ defect' = defect
  BY DEF Append
<1> DEFINE b == IF f = 0 THEN "main" ELSE "fork"
           N == NewRows(d, b, p, seq[d])
           R2 == [s \in Spine |-> rows[d][s] \cup N[s]]
<1>3. DbTypes /\ GoodRows(rows[d], seq[d], tip[d]) /\ GoodSettled(rows[d], tip[d], settled[d])
  BY DEF IInv, DbGood
<1>4. /\ Carries(rows[d], d, forkAt[d], tip[d], defect) /\ forkAt[d] <= tip[d]
      /\ \A q \in settled[d] : forkAt[d] = 0 \/ q < forkAt[d]
  BY DEF ChainTold, ForkAboveSettled
<1>5. tip[d] \in Nat /\ forkAt[d] \in Nat /\ seq[d] \in [Spine -> Nat \ {0}]
  BY <1>3, ChainAssumption DEF DbTypes
<1>6. f \in Nat /\ (forkAt[d] # 0 => f = forkAt[d]) /\ (forkAt[d] = 0 => f \in {0, p})
  BY <1>1, <1>5
<1>7. b \in Branch
  BY DEF Branch
<1>8. Carries(R2, d, f, p, defect)
  <2> HIDE DEF newly
  <2>1. /\ p \in Pos /\ p = tip[d] + 1 /\ GoodRows(rows[d], seq[d], tip[d])
        /\ Carries(rows[d], d, forkAt[d], tip[d], defect)
    BY <1>2, <1>3, <1>4
  <2> HIDE DEF p
  <2> QED
    BY <1>4, <1>5, <1>6, <2>1, AppendCarries
<1>9. \A s \in Spine : IsFiniteSet(N[s])
  BY <1>2, <1>5, <1>7, NewRowsCarry
<1>10. /\ rows' = [rows EXCEPT ![d] = R2] /\ forkAt' = [forkAt EXCEPT ![d] = f]
       /\ \A q \in newly : f = 0 \/ q < f
  BY <1>1
<1>11. \A q \in settled[d] \cup newly : f = 0 \/ q < f
  <2>1. \A q \in settled[d] : q \in Nat /\ q < p
    BY <1>3, <1>5 DEF GoodSettled
  <2> HIDE DEF p, newly
  <2> QED
    BY <1>4, <1>6, <1>10, <2>1
<1>12. f <= p
  BY <1>4, <1>5, <1>6
<1>13. \A s \in Spine : IsFiniteSet(R2[s])
  <2> HIDE DEF N
  <2>1. \A s \in Spine : R2[s] = rows[d][s] \cup N[s] /\ IsFiniteSet(rows[d][s])
    BY DEF RowsFinite
  <2> QED
    BY <1>9, <2>1, FS_Union
<1> HIDE DEF p, newly, b, N, R2
<1>14. /\ rows'[d] = R2 /\ forkAt'[d] = f /\ tip'[d] = p /\ settled'[d] = settled[d] \cup newly
       /\ \A e \in DB \ {d} : /\ rows'[e] = rows[e] /\ forkAt'[e] = forkAt[e]
                             /\ tip'[e] = tip[e] /\ settled'[e] = settled[e]
  BY <1>2, <1>3, <1>10 DEF DbTypes
<1>15. RowsFinite'
  BY <1>13, <1>14 DEF RowsFinite
<1>16. ChainTold'
  <2> SUFFICES ASSUME NEW e \in DB
               PROVE  /\ Carries(rows'[e], e, forkAt'[e], tip'[e], defect')
                      /\ forkAt'[e] <= tip'[e]
                      /\ \A q \in settled'[e] : forkAt'[e] = 0 \/ q < forkAt'[e]
    BY DEF ChainTold, ForkAboveSettled
  <2>1. CASE e = d
    BY <1>2, <1>8, <1>11, <1>12, <1>14, <2>1
  <2>2. CASE e # d
    BY <1>2, <1>14, <2>2 DEF ChainTold, ForkAboveSettled
  <2> QED
    BY <2>1, <2>2
<1> QED
  BY <1>15, <1>16

(* So does a rollback. *)
LEMMA RollbackTold ==
  ASSUME IInv, RowsFinite, ChainTold, NEW d \in DB, Rollback(d)
  PROVE  RowsFinite' /\ ChainTold'
<1>1. PICK p \in 0 .. tip[d] - 1 :
        /\ settled[d] \subseteq 1 .. p
        /\ rows' = [rows EXCEPT ![d] = [s \in Spine |-> {r \in rows[d][s] : r.pos <= p}]]
        /\ tip' = [tip EXCEPT ![d] = p]
        /\ forkAt' = [forkAt EXCEPT ![d] = IF p < @ THEN 0 ELSE @]
        /\ UNCHANGED <<seq, settled, defect>>
  BY DEF Rollback
<1> DEFINE R2 == [s \in Spine |-> {r \in rows[d][s] : r.pos <= p}]
           f == IF p < forkAt[d] THEN 0 ELSE forkAt[d]
<1>2. DbTypes /\ GoodRows(rows[d], seq[d], tip[d])
  BY DEF IInv, DbGood
<1>3. /\ Carries(rows[d], d, forkAt[d], tip[d], defect)
      /\ \A q \in settled[d] : forkAt[d] = 0 \/ q < forkAt[d]
  BY DEF ChainTold, ForkAboveSettled
<1>4. tip[d] \in Nat /\ forkAt[d] \in Nat /\ p \in Nat /\ p \in 0 .. tip[d]
  BY <1>2, ChainAssumption DEF DbTypes
<1>5. Carries(R2, d, f, p, defect)
  BY <1>2, <1>3, <1>4, RollbackCarries
<1>6. \A s \in Spine : IsFiniteSet(R2[s])
  <2>1. \A s \in Spine : R2[s] \in SUBSET rows[d][s] /\ IsFiniteSet(rows[d][s])
    BY DEF RowsFinite
  <2> QED
    BY <2>1, FS_Subset
<1>7. f <= p /\ \A q \in settled[d] : f = 0 \/ q < f
  BY <1>3, <1>4
<1>8. rows' = [rows EXCEPT ![d] = R2] /\ forkAt' = [forkAt EXCEPT ![d] = f]
  BY <1>1
<1> HIDE DEF R2, f
<1>9. /\ rows'[d] = R2 /\ forkAt'[d] = f /\ tip'[d] = p
      /\ settled' = settled /\ defect' = defect
      /\ \A e \in DB \ {d} : rows'[e] = rows[e] /\ forkAt'[e] = forkAt[e] /\ tip'[e] = tip[e]
  BY <1>1, <1>2, <1>8 DEF DbTypes
<1>10. RowsFinite'
  BY <1>6, <1>9 DEF RowsFinite
<1>11. ChainTold'
  <2> SUFFICES ASSUME NEW e \in DB
               PROVE  /\ Carries(rows'[e], e, forkAt'[e], tip'[e], defect')
                      /\ forkAt'[e] <= tip'[e]
                      /\ \A q \in settled'[e] : forkAt'[e] = 0 \/ q < forkAt'[e]
    BY DEF ChainTold, ForkAboveSettled
  <2>1. CASE e = d
    BY <1>5, <1>7, <1>9, <2>1
  <2>2. CASE e # d
    BY <1>9, <2>2 DEF ChainTold, ForkAboveSettled
  <2> QED
    BY <2>1, <2>2
<1> QED
  BY <1>10, <1>11

(***************************************************************************)
(* No step of a database touches the rows at settled positions.            *)
(***************************************************************************)
LEMMA SettledRowsStay ==
  ASSUME IInv, NEW d \in DB, Append(d) \/ Rollback(d), NEW e \in DB, NEW s \in Spine
  PROVE  \A W \in SUBSET settled[e] :
           {r \in rows'[e][s] : r.pos \in W} = {r \in rows[e][s] : r.pos \in W}
<1>1. DbTypes /\ GoodSettled(rows[e], tip[e], settled[e])
  BY DEF IInv, DbGood
<1>2. tip[d] \in Nat /\ seq[d] \in [Spine -> Nat \ {0}]
  BY <1>1, ChainAssumption DEF DbTypes
<1>3. CASE e # d
  <2>1. rows'[e] = rows[e]
    BY <1>1, <1>3 DEF Append, Rollback, DbTypes
  <2> QED
    BY <2>1
<1>4. CASE e = d /\ Append(d)
  <2>1. PICK b \in Branch :
          rows' = [rows EXCEPT ![d] = [u \in Spine |-> rows[d][u] \cup NewRows(d, b, tip[d] + 1, seq[d])[u]]]
    BY <1>4 DEF Append, Branch
  <2>2. rows'[e][s] = rows[e][s] \cup NewRows(d, b, tip[d] + 1, seq[d])[s]
    BY <1>1, <1>4, <2>1 DEF DbTypes
  <2>3. tip[d] + 1 \in Pos
    BY <1>4 DEF Append
  <2>4. \A r \in NewRows(d, b, tip[d] + 1, seq[d])[s] : r.pos = tip[d] + 1
    BY <1>2, <2>3, NewRowsCarry
  <2>5. \A q \in settled[e] : q # tip[d] + 1
    BY <1>1, <1>2, <1>4 DEF GoodSettled
  <2> QED
    BY <2>2, <2>4, <2>5
<1>5. CASE e = d /\ Rollback(d)
  <2>1. PICK p \in 0 .. tip[d] - 1 :
          /\ settled[d] \subseteq 1 .. p
          /\ rows' = [rows EXCEPT ![d] = [u \in Spine |-> {r \in rows[d][u] : r.pos <= p}]]
    BY <1>5 DEF Rollback
  <2>2. rows'[e][s] = {r \in rows[e][s] : r.pos <= p}
    BY <1>1, <1>5, <2>1 DEF DbTypes
  <2>3. \A q \in settled[e] : q <= p
    BY <1>5, <2>1
  <2> QED
    BY <2>2, <2>3
<1> QED
  BY <1>3, <1>4, <1>5
-----------------------------------------------------------------------------
SpineOf(t) == IF t = "owner" THEN "leaf" ELSE t

(* A compared table holds the rows of one spine. *)
LEMMA TableSpine ==
  ASSUME NEW t \in Tables
  PROVE  SpineOf(t) \in Spine /\ \A R : TableRows(t, R) = R[SpineOf(t)]
BY ToolAssumption DEF SpineOf, Spine, IdRangeTables, TableRows

(***************************************************************************)
(* The rows a query selects by its id range are the chosen ones: the range *)
(* is exact, and a foreign key points into the block of its row.           *)
(***************************************************************************)
LEMMA RowsAreChosen ==
  ASSUME IInv, Trusted, pc[1] \in {"hash", "value"}, table \in Tables, NEW d \in DB
  PROVE  Rows(d) = Chosen(d)
<1>1. \A s \in Spine : Exact(rows[d][s], ranges[d][s], Wanted)
  BY DEF IInv, RangesExact, RangeKnown
<1>2. ParentLink(rows[d])
  BY DEF IInv, DbGood, GoodRows
<1>3. \A s \in {"tx", "leaf"} : \A r \in rows[d][s] :
        Between(r.key, ranges[d][ParentOf(s)].lo, ranges[d][ParentOf(s)].hi) <=> r.pos \in Wanted
  <2> SUFFICES ASSUME NEW s \in {"tx", "leaf"}, NEW r \in rows[d][s]
               PROVE  Between(r.key, ranges[d][ParentOf(s)].lo, ranges[d][ParentOf(s)].hi) <=> r.pos \in Wanted
    OBVIOUS
  <2>1. ParentOf(s) \in Spine
    BY DEF ParentOf, Spine
  <2>2. PICK b \in rows[d][ParentOf(s)] : b.id = r.key /\ b.pos = r.pos
    BY <1>2 DEF ParentLink
  <2>3. Between(b.id, ranges[d][ParentOf(s)].lo, ranges[d][ParentOf(s)].hi) <=> b.pos \in Wanted
    BY <1>1, <2>1, <2>2 DEF Exact
  <2> QED
    BY <2>2, <2>3
<1> DEFINE S == TableRows(table, rows[d])
           range == ranges[d][AnchorSpine(table)]
<1> SUFFICES \A r \in S : Between(Anchor(table, r), range.lo, range.hi) <=> r.pos \in Wanted
  BY DEF Rows, TableRange, Selected, Chosen
<1>4. CASE table = "block"
  <2>1. S = rows[d]["block"] /\ range = ranges[d]["block"] /\ \A r : Anchor(table, r) = r.id
    BY <1>4 DEF TableRows, AnchorSpine, Anchor
  <2> QED
    BY <1>1, <2>1 DEF Exact, Spine
<1>5. CASE table = "tx"
  <2>1. S = rows[d]["tx"] /\ range = ranges[d]["block"] /\ \A r : Anchor(table, r) = r.key
    BY <1>5 DEF TableRows, AnchorSpine, Anchor
  <2> QED
    BY <1>3, <2>1 DEF ParentOf
<1>6. CASE table = "leaf"
  <2>1. S = rows[d]["leaf"] /\ range = ranges[d]["tx"] /\ \A r : Anchor(table, r) = r.key
    BY <1>6 DEF TableRows, AnchorSpine, Anchor
  <2> QED
    BY <1>3, <2>1 DEF ParentOf
<1>7. CASE table = "owner"
  <2>1. S = rows[d]["leaf"] /\ range = ranges[d]["leaf"] /\ \A r : Anchor(table, r) = r.id
    BY <1>7 DEF TableRows, AnchorSpine, Anchor
  <2> QED
    BY <1>1, <2>1 DEF Exact, Spine
<1> QED
  BY <1>4, <1>5, <1>6, <1>7, ToolAssumption DEF IdRangeTables

(***************************************************************************)
(* The chosen rows stay as they are from the moment the cutoff is known.   *)
(***************************************************************************)
LEMMA ChosenStays ==
  ASSUME IInv, Trusted, CutKnown, DbStep, table \in Tables, NEW e \in DB
  PROVE  Chosen(e)' = Chosen(e)
<1>1. ~AtRest
  BY DEF DbStep, CutKnown
<1>2. Wanted \in SUBSET settled[e]
  BY <1>1, WantedCovered
<1>3. table' = table /\ Wanted' = Wanted
  BY DbStepKeepsTool DEF DbStep, toolVars
<1>4. PICK d \in DB : Append(d) \/ Rollback(d)
  BY DEF DbStep, DbNext
<1>5. SpineOf(table) \in Spine /\ \A R : TableRows(table, R) = R[SpineOf(table)]
  BY TableSpine
<1>6. {r \in rows'[e][SpineOf(table)] : r.pos \in Wanted}
        = {r \in rows[e][SpineOf(table)] : r.pos \in Wanted}
  BY <1>2, <1>4, <1>5, SettledRowsStay
<1>7. Chosen(e) = {r \in rows[e][SpineOf(table)] : r.pos \in Wanted}
  BY <1>5 DEF Chosen
<1>8. Chosen(e)' = {r \in rows'[e][SpineOf(table)] : r.pos \in Wanted}
  <2>1. Chosen(e)' = {r \in TableRows(table, rows'[e]) : r.pos \in Wanted}
    BY <1>3 DEF Chosen
  <2> QED
    BY <1>5, <2>1
<1> QED
  BY <1>6, <1>7, <1>8

(* The answers already given stay true while the databases move. *)
LEMMA DbStepAnswers ==
  ASSUME IInv, AnswerInv, ChainTold, DbStep
  PROVE  AnswerInv' /\ ChainTold'
<1>1. RowsFinite' /\ ChainTold'
  BY AppendTold, RollbackTold DEF AnswerInv, DbStep, DbNext
<1>2. UNCHANGED <<pc, table, hash, value, status>> /\ Trusted' = Trusted
  BY DbStepKeepsTool DEF DbStep, toolVars
<1>3. Course'
  BY <1>2 DEF AnswerInv, Course
<1>4. AnswersTrue'
  <2> SUFFICES ASSUME Trusted, NEW e \in DB
               PROVE  /\ HashKnown(e) => hash[e] = SetHash(Chosen(e)')
                      /\ ValueKnown(e) => value[e] = ValueOf(Chosen(e)')
    BY <1>2 DEF AnswersTrue, HashKnown, ValueKnown, ValueOf
  <2>1. /\ HashKnown(e) => hash[e] = SetHash(Chosen(e))
        /\ ValueKnown(e) => value[e] = ValueOf(Chosen(e))
    BY DEF AnswerInv, AnswersTrue
  <2>2. ValueKnown(e) => HashKnown(e)
    BY DEF ValueKnown, HashKnown
  <2>3. HashKnown(e) => CutKnown /\ table \in Tables
    BY DEF HashKnown, AnswerInv, Course, CutKnown, Verdicts
  <2>4. HashKnown(e) => Chosen(e)' = Chosen(e)
    BY <2>3, ChosenStays
  <2> QED
    BY <2>1, <2>2, <2>4
<1> QED
  BY <1>1, <1>3, <1>4 DEF AnswerInv

(***************************************************************************)
(* Steps of the comparator.  Up to Pick no answer is known.                *)
(***************************************************************************)
NoAnswerNext ==
  pc'[1] \in {"tip", "cut", "range", "pick", "aborted"} \/ (pc' = <<"hash", 1>> /\ table' \in Tables)

(* A step up to Pick keeps the invariant. *)
LEMMA QuietStepAnswers ==
  ASSUME AnswerInv, ChainTold, UNCHANGED <<dbVars, hash, value, status>>,
         pc[1] \in {"tip", "cut", "range", "pick"}, NoAnswerNext
  PROVE  AnswerInv' /\ ChainTold'
<1>1. RowsFinite' /\ ChainTold'
  BY DEF AnswerInv, RowsFinite, ChainTold, ForkAboveSettled, dbVars
<1>2. status = "PENDING" /\ value = [d \in DB |-> None]
  BY DEF AnswerInv, Course
<1>3. Course'
  BY <1>2 DEF AnswerInv, Course, Verdicts, NoAnswerNext
<1>4. \A d \in DB : ~HashKnown(d)' /\ ~ValueKnown(d)'
  BY <1>2 DEF HashKnown, ValueKnown, Verdicts, DB, NoAnswerNext
<1> QED
  BY <1>1, <1>3, <1>4 DEF AnswerInv, AnswersTrue

(* A step that leaves the databases, the table and the boundary alone. *)
LEMMA SameChosen ==
  ASSUME UNCHANGED <<dbVars, cutoffArg, window, table, tips, cutoff>>
  PROVE  /\ Trusted' = Trusted /\ RowsFinite' = RowsFinite /\ ChainTold' = ChainTold
         /\ \A d \in DB : Chosen(d)' = Chosen(d)
<1>1. RowsFinite' = RowsFinite /\ ChainTold' = ChainTold
  BY DEF RowsFinite, ChainTold, ForkAboveSettled, dbVars
<1>2. Wanted' = Wanted /\ Trusted' = Trusted
  BY BoundaryKept
<1> QED
  BY <1>1, <1>2 DEF Chosen, dbVars

(* A hash is true of the chosen rows when it is read. *)
LEMMA HashAnswers ==
  ASSUME IInv, AnswerInv, ChainTold, NEW d \in DB, Hash(d)
  PROVE  AnswerInv' /\ ChainTold'
<1>1. /\ Trusted' = Trusted /\ RowsFinite' /\ ChainTold'
      /\ \A e \in DB : Chosen(e)' = Chosen(e)
  BY SameChosen DEF Hash, AnswerInv
<1>2. pc = <<"hash", d>> /\ table' = table
  BY DEF Hash
<1>3. /\ table \in Tables /\ value = [e \in DB |-> None] /\ status = "PENDING"
      /\ hash = [e \in DB |-> hash[e]]
  BY <1>2 DEF AnswerInv, Course
<1>4. CASE PredicateFails(TableRange(d))
  <2>1. status' = "ERROR" /\ pc' = <<"done", 1>> /\ UNCHANGED <<hash, value>>
    BY <1>4 DEF Hash, Error
  <2>2. Course'
    BY <1>3, <2>1 DEF Course, Verdicts
  <2>3. \A e \in DB : ~HashKnown(e)' /\ ~ValueKnown(e)'
    BY <2>1 DEF HashKnown, ValueKnown, Verdicts
  <2> QED
    BY <1>1, <2>2, <2>3 DEF AnswerInv, AnswersTrue
<1>5. CASE ~PredicateFails(TableRange(d))
  <2>1. /\ hash' = [hash EXCEPT ![d] = SetHash(Rows(d))]
        /\ pc' = IF d = 1 THEN <<"hash", 2>>
                 ELSE IF table \in ValueTables THEN <<"value", 1>> ELSE <<"classify", 1>>
        /\ UNCHANGED <<value, status>>
    BY <1>5 DEF Hash
  <2>2. hash'[d] = SetHash(Rows(d)) /\ hash' = [e \in DB |-> hash'[e]]
        /\ \A e \in DB \ {d} : hash'[e] = hash[e]
    BY <1>3, <2>1
  <2>3. Course'
    BY <1>2, <1>3, <2>1, <2>2 DEF Course, Verdicts
  <2>4. AnswersTrue'
    <3> SUFFICES ASSUME Trusted, NEW e \in DB
                 PROVE  /\ HashKnown(e)' => hash'[e] = SetHash(Chosen(e))
                        /\ ValueKnown(e)' => value'[e] = ValueOf(Chosen(e))
      BY <1>1, <1>2 DEF AnswersTrue, ValueOf
    <3>1. Rows(d) = Chosen(d)
      BY <1>2, <1>3, RowsAreChosen
    <3>2. HashKnown(e)' => e = d \/ HashKnown(e)
      BY <1>2, <1>3, <2>1 DEF HashKnown, Verdicts, DB
    <3>3. HashKnown(e)' => hash'[e] = SetHash(Chosen(e))
      BY <2>2, <3>1, <3>2 DEF AnswerInv, AnswersTrue
    <3>4. ValueKnown(e)' => table \notin ValueTables /\ value'[e] = None
      BY <1>3, <2>1 DEF ValueKnown, Verdicts, DB
    <3> QED
      BY <3>3, <3>4 DEF ValueOf
  <2> QED
    BY <1>1, <2>3, <2>4 DEF AnswerInv
<1> QED
  BY <1>4, <1>5

(* So is a value. *)
LEMMA ValueAnswers ==
  ASSUME IInv, AnswerInv, ChainTold, NEW d \in DB, ReadValue(d)
  PROVE  AnswerInv' /\ ChainTold'
<1>1. /\ Trusted' = Trusted /\ RowsFinite' /\ ChainTold'
      /\ \A e \in DB : Chosen(e)' = Chosen(e)
  BY SameChosen DEF ReadValue, AnswerInv
<1>2. /\ pc = <<"value", d>> /\ UNCHANGED <<table, hash, status>>
      /\ value' = [value EXCEPT ![d] = ValueAggregate(Rows(d))]
      /\ pc' = IF d = 1 THEN <<"value", 2>> ELSE <<"classify", 1>>
  BY DEF ReadValue
<1>3. /\ table \in Tables /\ table \in ValueTables /\ status = "PENDING"
      /\ value = [e \in DB |-> value[e]]
  BY <1>2 DEF AnswerInv, Course
<1>4. value'[d] = ValueAggregate(Rows(d)) /\ value' = [e \in DB |-> value'[e]]
      /\ \A e \in DB \ {d} : value'[e] = value[e]
  BY <1>2, <1>3
<1>5. Course'
  BY <1>2, <1>3, <1>4 DEF AnswerInv, Course, Verdicts
<1>6. AnswersTrue'
  <2> SUFFICES ASSUME Trusted, NEW e \in DB
               PROVE  /\ HashKnown(e)' => hash'[e] = SetHash(Chosen(e))
                      /\ ValueKnown(e)' => value'[e] = ValueOf(Chosen(e))
    BY <1>1, <1>2 DEF AnswersTrue, ValueOf
  <2>1. Rows(d) = Chosen(d)
    BY <1>2, <1>3, RowsAreChosen
  <2>2. HashKnown(e)
    BY <1>2 DEF HashKnown
  <2>3. ValueKnown(e)' => e = d \/ ValueKnown(e)
    BY <1>2, <1>3 DEF ValueKnown, Verdicts, DB
  <2> QED
    BY <1>2, <1>3, <1>4, <2>1, <2>2, <2>3 DEF AnswerInv, AnswersTrue, ValueOf
<1> QED
  BY <1>1, <1>5, <1>6 DEF AnswerInv

(* Every step of the comparator keeps the answers true. *)
LEMMA ToolStepAnswers ==
  ASSUME IInv, AnswerInv, ChainTold, ToolNext
  PROVE  AnswerInv' /\ ChainTold'
<1>1. ASSUME NEW d \in DB, ReadTip(d) PROVE AnswerInv' /\ ChainTold'
  <2>1. pc = <<"tip", d>> /\ pc'[1] \in {"tip", "cut", "aborted"}
    BY <1>1 DEF ReadTip
  <2>2. UNCHANGED <<dbVars, hash, value, status>>
    BY <1>1 DEF ReadTip
  <2>3. pc[1] = "tip"
    BY <2>1
  <2> QED
    BY <2>1, <2>2, <2>3, QuietStepAnswers DEF NoAnswerNext
<1>2. ASSUME NEW d \in DB, NEW s \in Spine, ReadRange(d, s) PROVE AnswerInv' /\ ChainTold'
  <2>1. pc = <<"range", d, s>> /\ pc'[1] \in {"range", "pick"}
    BY <1>2 DEF ReadRange, AfterRange, Spine
  <2>2. UNCHANGED <<dbVars, hash, value, status>>
    BY <1>2 DEF ReadRange
  <2> QED
    BY <2>1, <2>2, QuietStepAnswers DEF NoAnswerNext
<1>3. CASE Cut
  <2>1. pc = <<"cut", 1>> /\ pc' = <<"range", 1, "block">> /\ UNCHANGED <<dbVars, hash, value, status>>
    BY <1>3 DEF Cut
  <2>2. pc[1] = "cut" /\ pc'[1] = "range"
    BY <2>1
  <2> QED
    BY <2>1, <2>2, QuietStepAnswers DEF NoAnswerNext
<1>4. CASE Pick
  <2>1. /\ pc = <<"pick", 1>> /\ pc' = <<"hash", 1>> /\ table' \in Tables
        /\ UNCHANGED <<dbVars, hash, value, status>>
    BY <1>4 DEF Pick
  <2>2. pc[1] = "pick"
    BY <2>1
  <2> QED
    BY <2>1, <2>2, QuietStepAnswers DEF NoAnswerNext
<1>5. CASE QueryFails
  <2>1. status' = "ERROR" /\ pc' = <<"done", 1>> /\ UNCHANGED <<hash, value>>
    BY <1>5 DEF QueryFails, Error
  <2>2. Course'
    BY <2>1 DEF AnswerInv, Course, Verdicts
  <2>3. \A e \in DB : ~HashKnown(e)' /\ ~ValueKnown(e)'
    BY <2>1 DEF HashKnown, ValueKnown, Verdicts
  <2>4. RowsFinite' /\ ChainTold'
    BY <1>5, SameChosen DEF QueryFails, AnswerInv
  <2> QED
    BY <2>2, <2>3, <2>4 DEF AnswerInv, AnswersTrue
<1>6. CASE Classify
  <2>1. /\ pc = <<"classify", 1>> /\ pc' = <<"done", 1>> /\ UNCHANGED <<table, hash, value>>
        /\ status' = Verdict(hash[1], hash[2], value[1], value[2])
    BY <1>6 DEF Classify
  <2>2. /\ Trusted' = Trusted /\ RowsFinite' /\ ChainTold'
        /\ \A e \in DB : Chosen(e)' = Chosen(e)
    BY <1>6, SameChosen DEF Classify, AnswerInv
  <2>3. Course'
    <3> HIDE DEF Verdict
    <3> QED
      BY <2>1 DEF AnswerInv, Course
  <2>4. \A e \in DB : HashKnown(e) /\ ValueKnown(e)
    BY <2>1 DEF HashKnown, ValueKnown
  <2>5. AnswersTrue'
    BY <2>1, <2>2, <2>4 DEF AnswerInv, AnswersTrue, ValueOf
  <2> QED
    BY <2>2, <2>3, <2>5 DEF AnswerInv
<1> QED
  BY <1>1, <1>2, <1>3, <1>4, <1>5, <1>6, HashAnswers, ValueAnswers DEF ToolNext
(* They are before the first query. *)
LEMMA InitAnswers == Init => AnswerInv /\ ChainTold
<1> SUFFICES ASSUME Init PROVE AnswerInv /\ ChainTold
  OBVIOUS
<1> USE DEF Init, DbInit, ToolInit
<1>1. \A d \in DB, s \in Spine : rows[d][s] = {}
  OBVIOUS
<1>2. RowsFinite
  BY <1>1, FS_EmptySet DEF RowsFinite
<1>3. AnswersTrue
  BY DEF AnswersTrue, HashKnown, ValueKnown, Verdicts
<1>4. Course
  BY DEF Course, Verdicts
<1>5. ChainTold
  <2> SUFFICES ASSUME NEW d \in DB
               PROVE  Carries(rows[d], d, forkAt[d], tip[d], defect) /\ ForkAboveSettled(d)
    BY DEF ChainTold
  <2>1. tip[d] = 0 /\ forkAt[d] = 0 /\ settled[d] = {}
    OBVIOUS
  <2> QED
    BY <1>1, <2>1 DEF Carries, ForkAboveSettled
<1> QED
  BY <1>2, <1>3, <1>4, <1>5 DEF AnswerInv

-----------------------------------------------------------------------------
(***************************************************************************)
(* Equal hashes mean equal values: the summand of a row depends on its     *)
(* content alone, and equal hashes count every content alike.              *)
(***************************************************************************)
LEMMA EqualHashEqualValue ==
  ASSUME NEW S, IsFiniteSet(S), NEW T, IsFiniteSet(T),
         \A r \in S \cup T : r \in Row, SetHash(S) = SetHash(T)
  PROVE  ValueAggregate(S) = ValueAggregate(T)
<1> DEFINE A == {r.content : r \in S}
           B == {r.content : r \in T}
           f == [r \in S |-> Value(r)]
           g == [r \in T |-> Value(r)]
           C == [r \in S |-> r.content]
           D == [r \in T |-> r.content]
           hS == [c \in A |-> Cardinality({r \in S : r.content = c})]
           hT == [c \in B |-> Cardinality({r \in T : r.content = c})]
<1>1. hS = hT
  BY DEF SetHash
<1>2. A = B
  <2>1. DOMAIN hS = A /\ DOMAIN hT = B
    OBVIOUS
  <2> QED
    BY <1>1, <2>1
<1>3. SameClasses(S, C, T, D)
  <2> SUFFICES ASSUME NEW c
               PROVE  Cardinality({r \in S : r.content = c}) = Cardinality({r \in T : r.content = c})
    <3>1. \A c : {x \in S : C[x] = c} = {r \in S : r.content = c} /\ {y \in T : D[y] = c} = {r \in T : r.content = c}
      OBVIOUS
    <3> QED
      BY <3>1 DEF SameClasses
  <2>1. CASE c \in A
    <3>1. hS[c] = hT[c]
      BY <1>1
    <3> QED
      BY <1>2, <2>1, <3>1
  <2>2. CASE c \notin A
    <3>1. {r \in S : r.content = c} = {} /\ {r \in T : r.content = c} = {}
      BY <1>2, <2>2
    <3> QED
      BY <3>1
  <2> QED
    BY <2>1, <2>2
<1>4. \A r \in S \cup T : Value(r) \in Int
  BY DEF Value, Row
<1>5. \A r, u : r.content = u.content => Value(r) = Value(u)
  BY DEF Value
<1>6. SumFunctionOnSet(f, S) = SumFunctionOnSet(g, T)
  <2>1. /\ \A x \in S : f[x] \in Int
        /\ \A y \in T : g[y] \in Int
        /\ \A x \in S, y \in T : C[x] = D[y] => f[x] = g[y]
    BY <1>4, <1>5
  <2> HIDE DEF f, g, C, D
  <2> QED
    BY <1>3, <2>1, SumByClass
<1>7. SumFunction(f) = SumFunctionOnSet(f, S) /\ SumFunction(g) = SumFunctionOnSet(g, T)
  BY DEF SumFunction
<1>8. {Value(r) : r \in S} = {Value(r) : r \in T}
  <2>1. \A r \in S : \E u \in T : u.content = r.content
    BY <1>2
  <2>2. \A u \in T : \E r \in S : r.content = u.content
    BY <1>2
  <2> QED
    BY <1>5, <2>1, <2>2
<1>9. S = {} <=> T = {}
  BY <1>2
<1> HIDE DEF A, B, C, D, hS, hT
<1> QED
  BY <1>6, <1>7, <1>8, <1>9 DEF ValueAggregate

(***************************************************************************)
(* Two sets of rows with the same contents, each once, have one hash.      *)
(***************************************************************************)
LEMMA SameContentsSameHash ==
  ASSUME NEW S, IsFiniteSet(S), NEW T, IsFiniteSet(T),
         \A r, u \in S : r.content = u.content => r = u,
         \A r, u \in T : r.content = u.content => r = u,
         {r.content : r \in S} = {r.content : r \in T}
  PROVE  SetHash(S) = SetHash(T)
<1> DEFINE A == {r.content : r \in S}
           C == [r \in S |-> r.content]
           D == [r \in T |-> r.content]
<1>1. Cardinality(A) = Cardinality(S)
  <2>1. C \in Surjection(S, A) /\ C \in Injection(S, A)
    BY DEF Surjection, Injection, IsInjective
  <2> QED
    BY <2>1, FS_Surjection
<1>2. Cardinality(A) = Cardinality(T)
  <2>1. D \in Surjection(T, A) /\ D \in Injection(T, A)
    BY DEF Surjection, Injection, IsInjective
  <2> QED
    BY <2>1, FS_Surjection
<1>3. \A c \in A : Cardinality({r \in S : r.content = c}) = Cardinality({r \in T : r.content = c})
  <2> SUFFICES ASSUME NEW c \in A
               PROVE  Cardinality({r \in S : r.content = c}) = Cardinality({r \in T : r.content = c})
    OBVIOUS
  <2>1. PICK x \in S : {r \in S : r.content = c} = {x}
    OBVIOUS
  <2>2. PICK y \in T : {r \in T : r.content = c} = {y}
    OBVIOUS
  <2> QED
    BY <2>1, <2>2, FS_Singleton
<1> QED
  BY <1>1, <1>2, <1>3 DEF SetHash

(***************************************************************************)
(* Over settled positions that database 2 got right, both databases carry  *)
(* the same contents: the main branch's.                                   *)
(***************************************************************************)
LEMMA SettledAlike ==
  ASSUME IInv, RowsFinite, ChainTold, NEW s \in Spine, NEW W,
         W \subseteq settled[1], W \subseteq settled[2], defect.pos \notin W
  PROVE  SetHash({r \in rows[1][s] : r.pos \in W}) = SetHash({r \in rows[2][s] : r.pos \in W})
<1> DEFINE S(d) == {r \in rows[d][s] : r.pos \in W}
           A == UNION {Contents(s, 1, "main", p, defect) : p \in W}
<1>1. \A p \in W : Contents(s, 2, "main", p, defect) = Contents(s, 1, "main", p, defect)
  <2> SUFFICES ASSUME NEW p \in W
               PROVE  Contents(s, 2, "main", p, defect) = Contents(s, 1, "main", p, defect)
    OBVIOUS
  <2>1. p # defect.pos
    OBVIOUS
  <2>2. Indices(s, 2, "main", p, defect) = Indices(s, 1, "main", p, defect)
    BY <2>1 DEF Indices
  <2> QED
    BY <2>1, <2>2 DEF Contents
<1>2. \A d \in DB : /\ IsFiniteSet(S(d))
                    /\ \A r, u \in S(d) : r.content = u.content => r = u
                    /\ {r.content : r \in S(d)} = A
  <2> SUFFICES ASSUME NEW d \in DB
               PROVE  /\ IsFiniteSet(S(d))
                      /\ \A r, u \in S(d) : r.content = u.content => r = u
                      /\ {r.content : r \in S(d)} = A
    OBVIOUS
  <2>1. IsFiniteSet(S(d))
    <3>1. IsFiniteSet(rows[d][s]) /\ S(d) \in SUBSET rows[d][s]
      BY DEF RowsFinite
    <3> HIDE DEF S
    <3> QED
      BY <3>1, FS_Subset
  <2>2. /\ \A r \in rows[d][s] : r.content \in Contents(s, d, BranchAt(forkAt[d], r.pos), r.pos, defect)
        /\ \A p \in 1 .. tip[d] : \A c \in Contents(s, d, BranchAt(forkAt[d], p), p, defect) :
             \E r \in rows[d][s] : r.content = c
        /\ \A r, u \in rows[d][s] : r.content = u.content => r = u
    BY DEF ChainTold, Carries
  <2>3. W \subseteq settled[d] /\ settled[d] \subseteq 1 .. tip[d]
    BY DEF DB, IInv, DbGood, GoodSettled
  <2>4. tip[d] \in Nat /\ forkAt[d] \in Nat
    BY ChainAssumption DEF IInv, DbTypes
  <2>5. \A p \in W : p \in 1 .. tip[d] /\ BranchAt(forkAt[d], p) = "main"
    BY <2>3, <2>4 DEF ChainTold, ForkAboveSettled, BranchAt
  <2>6. \A p \in W : Contents(s, d, "main", p, defect) = Contents(s, 1, "main", p, defect)
    BY <1>1 DEF DB
  <2>7. \A r \in S(d) : r.content \in A
    BY <2>2, <2>5, <2>6
  <2>8. \A c \in A : \E r \in S(d) : r.content = c
    <3> SUFFICES ASSUME NEW p \in W, NEW c \in Contents(s, 1, "main", p, defect)
                 PROVE  \E r \in S(d) : r.content = c
      OBVIOUS
    <3>1. PICK r \in rows[d][s] : r.content = c
      BY <2>2, <2>5, <2>6
    <3>2. c.pos = p /\ c.pos = r.pos
      BY <2>2, <3>1, ContentsAt
    <3> QED
      BY <3>1, <3>2
  <2>9. {r.content : r \in S(d)} = A
    <3> HIDE DEF S, A
    <3> QED
      BY <2>7, <2>8
  <2> QED
    BY <2>1, <2>2, <2>9
<1> DEFINE S1 == S(1)
           S2 == S(2)
<1>3. /\ IsFiniteSet(S1) /\ \A r, u \in S1 : r.content = u.content => r = u
      /\ IsFiniteSet(S2) /\ \A r, u \in S2 : r.content = u.content => r = u
      /\ {r.content : r \in S1} = {r.content : r \in S2}
  <2> HIDE DEF S, A
  <2> QED
    BY <1>2 DEF DB
<1>4. SetHash(S1) = SetHash(S2)
  <2> HIDE DEF S1, S2
  <2> QED
    BY <1>3, SameContentsSameHash
<1> QED
  BY <1>4

-----------------------------------------------------------------------------
(* The answers of every reachable state are true ones. *)
LEMMA AnswersInvariant == Spec => [](IInv /\ AnswerInv /\ ChainTold)
<1>1. Init => IInv /\ AnswerInv /\ ChainTold
  BY InitInv, InitAnswers
<1>2. IInv /\ AnswerInv /\ ChainTold /\ [Next]_vars => (IInv /\ AnswerInv /\ ChainTold)'
  <2> SUFFICES ASSUME IInv, AnswerInv, ChainTold, [Next]_vars
               PROVE  IInv' /\ AnswerInv' /\ ChainTold'
    OBVIOUS
  <2>1. CASE ToolNext
    BY <2>1, ToolStepInv, ToolStepAnswers
  <2>2. CASE DbStep
    BY <2>2, DbStepInv, DbStepAnswers
  <2>3. CASE UNCHANGED vars
    <3>1. UNCHANGED dbVars /\ UNCHANGED toolVars
      BY <2>3 DEF vars
    <3>2. UNCHANGED <<pc, cutoffArg, window, table, tips, cutoff, hash, value, status>>
      BY <3>1 DEF toolVars
    <3>3. /\ Trusted' = Trusted /\ RowsFinite' /\ ChainTold'
          /\ \A d \in DB : Chosen(d)' = Chosen(d)
      BY <3>1, <3>2, SameChosen DEF AnswerInv
    <3>4. Course' /\ AnswersTrue'
      BY <3>2, <3>3 DEF AnswerInv, Course, AnswersTrue, HashKnown, ValueKnown, ValueOf
    <3> QED
      BY <2>3, <3>3, <3>4, StutterInv DEF AnswerInv
  <2> QED
    BY <2>1, <2>2, <2>3 DEF Next
<1> QED
  BY <1>1, <1>2, PTL DEF Spec

(* With a verdict, the two values agree whenever the two hashes do. *)
LEMMA ValuesFollowHashes ==
  ASSUME IInv, AnswerInv, Trusted, status \in Verdicts
  PROVE  /\ \A d \in DB : hash[d] = SetHash(Chosen(d))
         /\ hash[1] = hash[2] => value[1] = value[2]
<1>1. \A d \in DB : hash[d] = SetHash(Chosen(d)) /\ value[d] = ValueOf(Chosen(d))
  BY DEF AnswerInv, AnswersTrue, HashKnown, ValueKnown
<1>2. \A d \in DB : IsFiniteSet(Chosen(d)) /\ \A r \in Chosen(d) : r \in Row
  <2> SUFFICES ASSUME NEW d \in DB
               PROVE  IsFiniteSet(Chosen(d)) /\ \A r \in Chosen(d) : r \in Row
    OBVIOUS
  <2>1. table \in Tables
    BY DEF AnswerInv, Course
  <2>2. SpineOf(table) \in Spine /\ TableRows(table, rows[d]) = rows[d][SpineOf(table)]
    BY <2>1, TableSpine
  <2>3. /\ IsFiniteSet(rows[d][SpineOf(table)]) /\ rows[d][SpineOf(table)] \subseteq Row
        /\ Chosen(d) \in SUBSET rows[d][SpineOf(table)]
    BY <2>2 DEF AnswerInv, RowsFinite, IInv, DbTypes, Chosen
  <2> QED
    BY <2>3, FS_Subset
<1>3. hash[1] = hash[2] => ValueAggregate(Chosen(1)) = ValueAggregate(Chosen(2))
  <2>1. \A r \in Chosen(1) \cup Chosen(2) : r \in Row
    BY <1>2 DEF DB
  <2> QED
    BY <1>1, <1>2, <2>1, EqualHashEqualValue DEF DB
<1> QED
  BY <1>1, <1>3 DEF ValueOf, DB

(***************************************************************************)
(* For every chain and boundary: MATCH is reported exactly when the two    *)
(* databases hold the same content over the wanted positions               *)
(* (compare.py:46-84), though tips, ranges and hashes were read at         *)
(* different times of two databases that move.                             *)
(***************************************************************************)
THEOREM VerdictsAreTrue == Spec => []VerdictIsTruth
<1>1. IInv /\ AnswerInv => VerdictIsTruth
  <2> SUFFICES ASSUME IInv, AnswerInv, Trusted, status \notin {"PENDING", "ERROR"}
               PROVE  status = "MATCH" <=> Truth(1) = Truth(2)
    BY DEF VerdictIsTruth
  <2>1. status \in Verdicts
    BY DEF IInv, ToolTypes, Verdicts
  <2>2. status = Verdict(hash[1], hash[2], value[1], value[2])
    BY <2>1 DEF AnswerInv, Course
  <2>3. hash[1] = Truth(1) /\ hash[2] = Truth(2) /\ (hash[1] = hash[2] => value[1] = value[2])
    BY <2>1, ValuesFollowHashes DEF Truth, Chosen, DB
  <2> QED
    BY <2>2, <2>3 DEF Verdict
<1> QED
  BY <1>1, AnswersInvariant, PTL

(***************************************************************************)
(* The value proof, read on later snapshots than the hash (compare.py:     *)
(* 53-58), never contradicts it in a run that keeps its margin.            *)
(***************************************************************************)
THEOREM ValueProofsAgree == Spec => []ValueProofAgrees
<1>1. IInv /\ AnswerInv => ValueProofAgrees
  <2> SUFFICES ASSUME IInv, AnswerInv, MarginKept, status = "VALUE_DIFF"
               PROVE  FALSE
    BY DEF ValueProofAgrees
  <2>1. Trusted /\ status \in Verdicts
    BY DEF Trusted, Verdicts, Statuses
  <2>2. status = Verdict(hash[1], hash[2], value[1], value[2])
    BY <2>1 DEF AnswerInv, Course
  <2>3. hash[1] = hash[2] => value[1] = value[2]
    BY <2>1, ValuesFollowHashes
  <2> QED
    BY <2>2, <2>3 DEF Verdict
<1> QED
  BY <1>1, AnswersInvariant, PTL

(***************************************************************************)
(* A run that keeps its margin reports a difference only where database 2  *)
(* wrote something wrong: not because of ids, a fork or a rollback         *)
(* (docs/02, problem 1; sql.py and ranges.py throughout).                  *)
(***************************************************************************)
THEOREM NoFalseAlarms == Spec => []NoFalseAlarm
<1>1. IInv /\ AnswerInv /\ ChainTold => NoFalseAlarm
  <2> SUFFICES ASSUME IInv, AnswerInv, ChainTold, MarginKept, defect.pos \notin Wanted,
                      status \in {"COUNT_DIFF", "HASH_DIFF", "VALUE_DIFF"}
               PROVE  FALSE
    BY DEF NoFalseAlarm
  <2>1. Trusted /\ status \in Verdicts
    BY DEF Trusted, Verdicts, Statuses
  <2>2. /\ status = Verdict(hash[1], hash[2], value[1], value[2])
        /\ table \in Tables /\ CutKnown
    BY <2>1 DEF AnswerInv, Course, CutKnown, Verdicts
  <2>3. /\ hash[1] = SetHash(Chosen(1)) /\ hash[2] = SetHash(Chosen(2))
        /\ hash[1] = hash[2] => value[1] = value[2]
    BY <2>1, ValuesFollowHashes DEF DB
  <2>4. Wanted \subseteq settled[1] /\ Wanted \subseteq settled[2]
    BY <2>2, MarginSettles DEF DB
  <2> DEFINE s == SpineOf(table)
  <2>5. s \in Spine /\ \A d \in DB : Chosen(d) = {r \in rows[d][s] : r.pos \in Wanted}
    BY <2>2, TableSpine DEF Chosen
  <2> HIDE DEF s
  <2>6. SetHash(Chosen(1)) = SetHash(Chosen(2))
    BY <2>4, <2>5, SettledAlike DEF AnswerInv, DB
  <2> QED
    BY <2>2, <2>3, <2>6 DEF Verdict
<1> QED
  BY <1>1, AnswersInvariant, PTL
=============================================================================
