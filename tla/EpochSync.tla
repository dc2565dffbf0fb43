----------------------------- MODULE EpochSync ------------------------------
(***************************************************************************)
(* Two cardano-db-sync databases again, seen through the rows that change  *)
(* after their block was written: at an epoch boundary db-sync decides     *)
(* governance proposals, reaches a later stage of the rewards of epochs    *)
(* gone by and, once, writes the genesis committee; a tx marks the outputs *)
(* it spends; and objects are entered when first seen and never leave.     *)
(*                                                                         *)
(* The chain is a row of numbered blocks, block p at position p.  What a   *)
(* database holds follows from where it is, so that a rollback undoes all  *)
(* of it but the objects.  It is external like module DbSync, modelled     *)
(* from what registries.py:87-328 and docs/06-09 say of the tables.        *)
(***************************************************************************)
EXTENDS Integers, FiniteSets, Sequences

CONSTANTS
  None,      \* SQL NULL, Python None
  EpochOf,   \* position -> epoch
  Block,     \* branch -> position -> the block: what it mints (set of
             \* objects), whether it proposes, whether it creates an output,
             \* the position of the output it spends (0 for none), and the
             \* positions of the proposals decided when it begins an epoch
  K,         \* depth of the deepest rollback
  Lag,       \* epochs until the rewards of an epoch are complete
  Shown,     \* the epoch whose boundary writes the genesis committee
  Defects,   \* how database 2 may be wrong: [table, at, how]
  MaxMoves   \* bound: blocks and rollbacks from the first state on

DB == {1, 2}

Branch == {"main", "fork"}

Pos == DOMAIN EpochOf

Epochs == {EpochOf[p] : p \in Pos}

Begins(e) == CHOOSE p \in Pos : EpochOf[p] = e /\ \A q \in Pos : EpochOf[q] = e => p <= q

ASSUME EpochAssumption ==
  /\ None \notin Int
  /\ EpochOf \in Seq(Nat)
  /\ \A p, q \in Pos : p < q => EpochOf[p] <= EpochOf[q] /\ EpochOf[q] - EpochOf[p] <= q - p
  /\ {K, MaxMoves} \subseteq Nat
  /\ Lag \in Nat \ {0}
  /\ Shown \in Epochs
  /\ \A b \in Branch, p \in Pos :
       /\ DOMAIN Block[b] = Pos
       /\ IsFiniteSet(Block[b][p].mints)
       /\ Block[b][p].decides # {} => p = Begins(EpochOf[p])

(***************************************************************************)
(* An epoch is longer than the deepest rollback.                           *)
(***************************************************************************)
ASSUME LongEpochs ==
  \A e \in Epochs : e + 1 \in Epochs => Begins(e + 1) - Begins(e) >= K

(***************************************************************************)
(* A defect is one of a row of the main branch, and changes it.            *)
(***************************************************************************)
ASSUME DefectsAssumption ==
  \A x \in Defects :
    /\ x.how \in {"bad", "lost", "unset"}
    /\ x.table = "gov_action_proposal" => x.at \in Pos /\ Block["main"][x.at].proposes
    /\ x.table = "reward" => x.at \in Epochs
    /\ x.table = "committee" => x.at = Shown /\ x.how # "unset"

VARIABLES
  tip,      \* DB -> position of the last block
  high,     \* DB -> the last position it ever had
  forkAt,   \* DB -> first position on the fork, 0 when there is none
  applied,  \* DB -> the blocks ever applied, [branch, position]
  defect,   \* what database 2 gets wrong, None for nothing
  moves     \* moves made

dbVars == <<tip, high, forkAt, applied, defect, moves>>

BranchAt(d, p) == IF forkAt[d] # 0 /\ p >= forkAt[d] THEN "fork" ELSE "main"

BlockAt(d, p) == Block[BranchAt(d, p)][p]

(***************************************************************************)
(* The databases start on the main branch; DbStep takes them elsewhere.    *)
(***************************************************************************)
DbInit ==
  /\ tip \in [DB -> {p \in Pos : p >= Len(EpochOf) - 3}]
  /\ high = tip
  /\ forkAt = [d \in DB |-> 0]
  /\ applied = [d \in DB |-> {<<"main", p>> : p \in 1 .. tip[d]}]
  /\ moves = 0

(***************************************************************************)
(* A database applies the next block, and may leave the main branch with   *)
(* it, or rolls back, by at most K blocks from where it ever was.          *)
(***************************************************************************)
Extend(d) ==
  LET p == tip[d] + 1
  IN  /\ p \in Pos
      /\ \E f \in IF forkAt[d] = 0 THEN {0, p} ELSE {forkAt[d]} :
           /\ forkAt' = [forkAt EXCEPT ![d] = f]
           /\ tip' = [tip EXCEPT ![d] = p]
           /\ high' = [high EXCEPT ![d] = IF p > @ THEN p ELSE @]
           /\ f # 0 => f > high'[d] - K
           /\ applied' = [applied EXCEPT ![d] = @ \cup {<<IF f = 0 THEN "main" ELSE "fork", p>>}]

Rollback(d) ==
  \E p \in 1 .. tip[d] - 1 :
    /\ p >= high[d] - K
    /\ tip' = [tip EXCEPT ![d] = p]
    /\ forkAt' = [forkAt EXCEPT ![d] = IF p < @ THEN 0 ELSE @]
    /\ UNCHANGED <<high, applied>>

DbStep ==
  /\ moves < MaxMoves
  /\ moves' = moves + 1
  /\ UNCHANGED defect
  /\ \E d \in DB : Extend(d) \/ Rollback(d)
-----------------------------------------------------------------------------
(***************************************************************************)
(* What a row says that was not known with its block: the epoch in which   *)
(* its proposal was decided, the tx that spent it, the stage of a reward.  *)
(***************************************************************************)
Processed(d) == 1 .. tip[d]

Decided(d, p) ==
  LET by == {q \in Processed(d) : p \in BlockAt(d, q).decides}
  IN  IF by = {} THEN None ELSE EpochOf[CHOOSE q \in by : \A o \in by : q <= o]

Spent(d, p) ==
  LET by == {q \in Processed(d) : BlockAt(d, q).spends = p}
  IN  IF by = {} THEN None ELSE CHOOSE q \in by : \A o \in by : q <= o

Stage(d, e) ==
  LET gone == EpochOf[tip[d]] - e IN IF gone < Lag THEN gone ELSE Lag

Seen(d) == UNION {Block[b[1]][b[2]].mints : b \in applied[d]}

Row(at, branch, late) == [at |-> at, branch |-> branch, late |-> late, bad |-> FALSE]

TrueRows(table, d) ==
  CASE table = "gov_action_proposal" ->
         {Row(p, BranchAt(d, p), Decided(d, p)) : p \in {q \in Processed(d) : BlockAt(d, q).proposes}}
    [] table = "tx_out" ->
         {Row(p, BranchAt(d, p), Spent(d, p)) : p \in {q \in Processed(d) : BlockAt(d, q).creates}}
    [] table = "reward" ->
         {Row(e, "main", Stage(d, e)) : e \in {f \in Epochs : f < EpochOf[tip[d]]}}
    [] table = "committee" ->
         {Row(Shown, "main", None) : q \in {p \in Processed(d) : p = Begins(Shown)}}
    [] table = "multi_asset" ->
         {Row(a, "main", None) : a \in Seen(d)}

(***************************************************************************)
(* Database 2 may write one row wrongly, lose it, or leave what comes      *)
(* later unset.                                                            *)
(***************************************************************************)
Wrong(r) ==
  CASE defect.how = "bad"   -> {[r EXCEPT !.bad = TRUE]}
    [] defect.how = "lost"  -> {}
    [] defect.how = "unset" -> {[r EXCEPT !.late = None]}

Rows(table, d) ==
  UNION {IF d = 2 /\ defect # None /\ defect.table = table /\ defect.at = r.at
         THEN Wrong(r) ELSE {r} : r \in TrueRows(table, d)}
=============================================================================
