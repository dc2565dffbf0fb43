---------------------------- MODULE SpineRanges ----------------------------
(***************************************************************************)
(* The queries of ranges.py, and the predicate and set hash of sql.py that *)
(* use their answers, as functions of a snapshot of a database.            *)
(*                                                                         *)
(* A spine is one of the tables block -> tx -> leaf.  "leaf" stands for    *)
(* tx_out, pool_update and gov_action_proposal, which the code treats      *)
(* alike.  A row has an id, the surrogate primary key, and a key, the      *)
(* value of the indexed column the walk seeks on: block_no for a block     *)
(* (NULL, here None, for genesis and epoch boundary blocks), the block id  *)
(* for a tx, and the tx id for a leaf.                                     *)
(***************************************************************************)
EXTENDS Integers, FiniteSets

CONSTANT None      \* SQL NULL, Python None

ASSUME NoneAssumption == None \notin Int /\ None \notin Int \X Int

Spine == {"block", "tx", "leaf"}

IdRange == [lo : Int \cup {None}, hi : Int \cup {None}]

NoRange == [lo |-> None, hi |-> None]

(***************************************************************************)
(* v BETWEEN lo AND hi, which SQL does not hold true of a NULL.            *)
(***************************************************************************)
Between(v, lo, hi) ==
  /\ None \notin {v, lo, hi}
  /\ lo <= v
  /\ v <= hi

(***************************************************************************)
(* ORDER BY key, id LIMIT 1 and ORDER BY key DESC, id DESC LIMIT 1.        *)
(***************************************************************************)
Before(r, q) == r.key < q.key \/ (r.key = q.key /\ r.id <= q.id)

FirstRow(S) == CHOOSE r \in S : \A q \in S : Before(r, q)

LastRow(S) == CHOOSE r \in S : \A q \in S : Before(q, r)

(* Slip: the upper end of the window is left out. *)
MinmaxHalfOpen(S, lo, hi) ==
  LET in == {r \in S : Between(r.key, lo, hi) /\ r.key # hi}
  IN  IF in = {} THEN NoRange ELSE [lo |-> FirstRow(in).id, hi |-> LastRow(in).id]

Minmax(S, lo, hi) ==
  LET in == {r \in S : Between(r.key, lo, hi)}
  IN  IF in = {} THEN NoRange ELSE [lo |-> FirstRow(in).id, hi |-> LastRow(in).id]

(***************************************************************************)
(* The block range: of a --block-range window, or of everything up to the  *)
(* cutoff, from id 0 so that blocks without a number are kept.             *)
(***************************************************************************)
(* Slip: cutoff mode starts at the first numbered block, not at id 0. *)
BlockRangeNumbered(blocks, cutoff, window) ==
  IF window # None
  THEN Minmax(blocks, window[1], window[2])
  ELSE Minmax(blocks, 0, cutoff)

BlockRange(blocks, cutoff, window) ==
  LET below == {b \in blocks : b.key # None /\ b.key <= cutoff}
  IN  IF window # None
      THEN Minmax(blocks, window[1], window[2])
      ELSE [lo |-> 0, hi |-> IF below = {} THEN None ELSE LastRow(below).id]

(***************************************************************************)
(* The next range down the walk: nothing when the range above is empty.    *)
(***************************************************************************)
ChildRange(children, parent) ==
  IF parent.lo = None THEN NoRange ELSE Minmax(children, parent.lo, parent.hi)

(***************************************************************************)
(* The whole walk over one snapshot.  rows maps each spine to its rows.    *)
(***************************************************************************)
ComputeSpineRanges(rows, cutoff, window) ==
  LET b == BlockRange(rows["block"], cutoff, window)
      t == ChildRange(rows["tx"], b)
  IN  [s \in Spine |-> CASE s = "block" -> b
                         [] s = "tx"    -> t
                         [] s = "leaf"  -> ChildRange(rows["leaf"], t)]

(***************************************************************************)
(* How a compared table is bound: the spine of its range, and whether its  *)
(* anchor column is its own id (table block) or a foreign key.             *)
(*   block     self_block        tx         block_fk                       *)
(*   leaf      tx_fk             owner      pool_update_fk, one a leaf     *)
(*                               committee  gap_fk, NULL in genesis rows   *)
(***************************************************************************)
IdRangeTables == {"block", "tx", "leaf", "owner"}

AnchorSpine(table) == CASE table \in {"block", "tx"} -> "block"
                        [] table = "leaf"            -> "tx"
                        [] table \in {"owner", "committee"} -> "leaf"

TableRows(table, rows) == IF table = "owner" THEN rows["leaf"] ELSE rows[table]

Anchor(table, row) == IF table \in {"tx", "leaf", "committee"} THEN row.key ELSE row.id

(***************************************************************************)
(* bound_predicate for an id range.  A range whose upper end alone is None *)
(* puts the word None in the SQL text, which the server rejects.           *)
(***************************************************************************)
PredicateFails(range) == range.lo # None /\ range.hi = None

Selected(table, rows, range) ==
  {r \in TableRows(table, rows) : Between(Anchor(table, r), range.lo, range.hi)}

(***************************************************************************)
(* The order independent, duplicate safe hash of a set of rows: a count    *)
(* and how often each normalised content occurs (md5 sums, idealised as    *)
(* free of collisions).                                                    *)
(***************************************************************************)
SetHash(S) ==
  [n |-> Cardinality(S),
   h |-> [c \in {r.content : r \in S} |-> Cardinality({r \in S : r.content = c})]]
=============================================================================
