------------------------------- MODULE DbSync -------------------------------
(***************************************************************************)
(* Two cardano-db-sync databases that follow one chain, as the comparator  *)
(* sees them: tables that grow at the tip and lose their tail in a         *)
(* rollback.  db-sync is not part of the repository; this module is the    *)
(* environment its queries run against.                                    *)
(*                                                                         *)
(* The chain is a row of positions.  Most carry a block number; genesis    *)
(* and epoch boundary blocks do not.  A database is on the main branch up  *)
(* to some position and may be on a fork from there on, until a rollback   *)
(* takes it back.  A position becomes settled in a database once K         *)
(* numbered blocks follow it there: consensus then never takes it away, so *)
(* settled positions hold the main branch.                                 *)
(*                                                                         *)
(* Ids come from sequences that a rollback does not rewind, so the two     *)
(* databases hold the same rows under different ids.  A block is inserted  *)
(* with its txs and leaves, and deleted with them, in one transaction.     *)
(***************************************************************************)
EXTENDS SpineRanges

CONSTANTS
  ChainLen,           \* number of positions of the chain
  BlockNo,       \* position -> block number or None
  NumTx,         \* branch -> position -> number of txs
  Leaves,        \* branch -> position -> the txs that have a leaf row
  K,             \* security parameter: depth of the deepest rollback
  Defects,       \* how database 2 may be wrong: [pos, lost] records
  MaxDeleted     \* bound: block rows each database ever deletes

DB == {1, 2}

Branch == {"main", "fork"}

Pos == 1 .. ChainLen

Numbered == {p \in Pos : BlockNo[p] # None}

ASSUME ChainAssumption ==
  /\ ChainLen \in Nat
  /\ K \in Nat
  /\ BlockNo \in [Pos -> Nat \cup {None}]
  /\ \A p, q \in Numbered : p < q => BlockNo[p] < BlockNo[q]
  /\ NumTx \in [Branch -> [Pos -> Nat]]
  /\ Leaves \in [Branch -> [Pos -> SUBSET Nat]]
  /\ \A b \in Branch, p \in Pos : Leaves[b][p] \subseteq 1 .. NumTx[b][p]
  /\ Defects \subseteq [pos : Nat, lost : BOOLEAN]
  /\ MaxDeleted \in Nat

VARIABLES
  rows,      \* DB -> spine -> set of rows
  seq,       \* DB -> spine -> next id of the sequence
  tip,       \* DB -> position of the last block
  forkAt,    \* DB -> first position on the fork, 0 when there is none
  settled,   \* DB -> positions that no rollback can reach
  defect     \* what database 2 writes wrongly, pos = 0 for nothing

dbVars == <<rows, seq, tip, forkAt, settled, defect>>

(***************************************************************************)
(* Positions up to the last one whose number is at most n.                 *)
(***************************************************************************)
Within(n) == {p \in Pos : \E q \in Numbered : p <= q /\ BlockNo[q] <= n}

(***************************************************************************)
(* The content of a row after normalisation: where it is on which branch   *)
(* of the chain, and whether the database got it wrong.                    *)
(***************************************************************************)
Content(d, b, p, i) ==
  [branch |-> b, pos |-> p, idx |-> i,
   bad |-> d = 2 /\ i > 0 /\ p = defect.pos /\ ~defect.lost]

HasLeaf(d, b, p, i) ==
  i \in Leaves[b][p] /\ ~(d = 2 /\ p = defect.pos /\ defect.lost)

(***************************************************************************)
(* The rows the block at position p on branch b adds to database d.  next  *)
(* gives the next id of each sequence.  A tx without a leaf leaves a gap   *)
(* in the ids of the leaves, which sequences are free to do.               *)
(***************************************************************************)
NewRows(d, b, p, next) ==
  [s \in Spine |->
     CASE s = "block" -> {[id |-> next["block"], key |-> BlockNo[p], pos |-> p,
                           content |-> Content(d, b, p, 0)]}
       [] s = "tx"    -> {[id |-> next["tx"] + i, key |-> next["block"], pos |-> p,
                           content |-> Content(d, b, p, i)] : i \in 1 .. NumTx[b][p]}
       [] s = "leaf"  -> {[id |-> next["leaf"] + i, key |-> next["tx"] + i, pos |-> p,
                           content |-> Content(d, b, p, i)] :
                             i \in {j \in 1 .. NumTx[b][p] : HasLeaf(d, b, p, j)}}]

NextSeq(b, p, next) ==
  [s \in Spine |-> IF s = "block" THEN next[s] + 1 ELSE next[s] + NumTx[b][p] + 1]

(***************************************************************************)
(* Both databases start empty.  The initial states the comparator meets    *)
(* are the ones the two databases reach from here.                         *)
(***************************************************************************)
DbInit ==
  /\ rows = [d \in DB |-> [s \in Spine |-> {}]]
  /\ seq = [d \in DB |-> [s \in Spine |-> 1]]
  /\ tip = [d \in DB |-> 0]
  /\ forkAt = [d \in DB |-> 0]
  /\ settled = [d \in DB |-> {}]
  /\ defect \in Defects

(***************************************************************************)
(* Database d applies the next block.  It may leave the main branch there, *)
(* except at genesis and epoch boundary blocks, which every branch shares, *)
(* and not so that a position off the main branch would settle.            *)
(***************************************************************************)
Append(d) ==
  LET p == tip[d] + 1
      newly == IF p \in Numbered THEN Within(BlockNo[p] - K) ELSE {}
  IN  /\ p \in Pos
      /\ \E f \in IF forkAt[d] # 0 THEN {forkAt[d]}
              ELSE IF p \in Numbered THEN {0, p} ELSE {0} :
           LET b == IF f = 0 THEN "main" ELSE "fork"
               add == NewRows(d, b, p, seq[d])
           IN  /\ \A q \in newly : f = 0 \/ q < f
               /\ forkAt' = [forkAt EXCEPT ![d] = f]
               /\ rows' = [rows EXCEPT ![d] = [s \in Spine |-> rows[d][s] \cup add[s]]]
               /\ seq' = [seq EXCEPT ![d] = NextSeq(b, p, seq[d])]
      /\ tip' = [tip EXCEPT ![d] = p]
      /\ settled' = [settled EXCEPT ![d] = @ \cup newly]
      /\ UNCHANGED defect

(***************************************************************************)
(* Database d rolls back to position p: the rows above it go, the          *)
(* sequences stay where they are.                                          *)
(***************************************************************************)
Rollback(d) ==
  \E p \in 0 .. tip[d] - 1 :
    /\ settled[d] \subseteq 1 .. p
    /\ seq[d]["block"] - 1 - p <= MaxDeleted
    /\ rows' = [rows EXCEPT ![d] = [s \in Spine |-> {r \in rows[d][s] : r.pos <= p}]]
    /\ tip' = [tip EXCEPT ![d] = p]
    /\ forkAt' = [forkAt EXCEPT ![d] = IF p < @ THEN 0 ELSE @]
    /\ UNCHANGED <<seq, settled, defect>>

DbNext == \E d \in DB : Append(d) \/ Rollback(d)
=============================================================================
