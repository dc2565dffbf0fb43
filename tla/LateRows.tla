------------------------------ MODULE LateRows ------------------------------
(***************************************************************************)
(* One run of the comparator over one table whose rows change after their  *)
(* block, or have no block: the tips and cutoffs (cli.main), the predicate *)
(* (sql.bound_predicate), the cap on lifecycle epochs, the verdict         *)
(* (compare.compare_table) and the deep check (verify.py), against two     *)
(* databases that may move between any two queries.                        *)
(*                                                                         *)
(* Id ranges are taken as exact here; when they are is the matter of       *)
(* module Comparison.                                                      *)
(***************************************************************************)
EXTENDS EpochSync

CONSTANTS
  Tables,     \* tables to try
  Margins,    \* pairs of --block-margin and --epoch-margin to try
  Windows     \* values of --block-range to try, None for none

ASSUME OptionsAssumption ==
  /\ Tables \subseteq {"gov_action_proposal", "tx_out", "reward", "committee", "multi_asset"}
  /\ Margins \subseteq [block : Nat, epoch : Nat]
  /\ Windows \subseteq {None} \cup (Nat \X Nat)

VARIABLES
  table,    \* the table compared
  margin,   \* --block-margin and --epoch-margin
  window,   \* --block-range
  moving,   \* whether db-sync runs during the comparison
  pc,       \* the step that comes next
  tips,     \* DB -> block number and epoch of the tip when it was read
  hash,     \* DB -> the rows hashed
  status,   \* the verdict
  keys,     \* DB -> the keys streamed by the deep check
  deep      \* the verdict of the deep check

options == <<table, margin, window, moving>>

vars == <<dbVars, options, pc, tips, hash, status, keys, deep>>

Accumulator == table = "multi_asset"

Init ==
  /\ DbInit
  /\ table \in Tables
  /\ defect \in {x \in Defects : x.table = table} \cup {None}
  /\ margin \in Margins
  /\ window \in Windows
  /\ moving \in BOOLEAN
  /\ pc = <<"start", 1>>
  /\ tips = [d \in DB |-> None]
  /\ hash = [d \in DB |-> None]
  /\ status = "PENDING"
  /\ keys = [d \in DB |-> None]
  /\ deep = "none"

Start ==
  /\ pc = <<"start", 1>>
  /\ pc' = <<"tip", 1>>
  /\ UNCHANGED <<dbVars, options, tips, hash, status, keys, deep>>

Then(query, d, next) == pc' = IF d = 1 THEN <<query, 2>> ELSE <<next, 1>>

ReadTip(d) ==
  /\ pc = <<"tip", d>>
  /\ tips' = [tips EXCEPT ![d] = [block |-> tip[d], epoch |-> EpochOf[tip[d]]]]
  /\ Then("tip", d, "hash")
  /\ UNCHANGED <<dbVars, options, hash, status, keys, deep>>

(***************************************************************************)
(* The common boundary: the lower tip of each kind, less the margin.       *)
(***************************************************************************)
AtLeastZero(n) == IF n < 0 THEN 0 ELSE n

LowBlock == IF tips[1].block < tips[2].block THEN tips[1].block ELSE tips[2].block

LowEpoch == IF tips[1].epoch < tips[2].epoch THEN tips[1].epoch ELSE tips[2].epoch

(* Slip: the block margin is forgotten. *)
CutoffAtTip == LowBlock

CutoffBlock == AtLeastZero(LowBlock - margin.block)

(* Slip: the epoch cutoff may fall below zero. *)
CutoffEpochUnclamped == LowEpoch - margin.epoch

CutoffEpoch == AtLeastZero(LowEpoch - margin.epoch)

(***************************************************************************)
(* The blocks compared, and the rows a predicate selects.  A window leaves *)
(* out whatever has no block of its own.                                   *)
(***************************************************************************)
InScope(p) ==
  IF window = None THEN p <= CutoffBlock ELSE window[1] <= p /\ p <= window[2]

(* Slip: every lifecycle epoch is compared. *)
Uncapped(r) == r

Capped(r) == IF r.late # None /\ r.late > CutoffEpoch THEN [r EXCEPT !.late = None] ELSE r

Selected(d) ==
  CASE table = "gov_action_proposal" -> {Capped(r) : r \in {q \in Rows(table, d) : InScope(q.at)}}
    [] table = "tx_out"              -> {r \in Rows(table, d) : InScope(r.at)}
    [] table \in {"reward", "committee"} ->
         {r \in Rows(table, d) : window = None /\ r.at <= CutoffEpoch}
    [] table = "multi_asset"         -> {r \in Rows(table, d) : window = None}

Hash(d) ==
  /\ pc = <<"hash", d>>
  /\ hash' = [hash EXCEPT ![d] = Selected(d)]
  /\ Then("hash", d, "classify")
  /\ UNCHANGED <<dbVars, options, tips, status, keys, deep>>

(***************************************************************************)
(* The ladder of verdicts.  Only a count difference of an accumulator, or  *)
(* of a table that is empty on one side, has a gentler reading later on.   *)
(***************************************************************************)
Verdict(S1, S2) ==
  CASE Cardinality(S1) # Cardinality(S2)             -> "COUNT_DIFF"
    [] Cardinality(S1) = Cardinality(S2) /\ S1 # S2  -> "HASH_DIFF"
    [] S1 = S2                                       -> "MATCH"

Classify ==
  /\ pc = <<"classify", 1>>
  /\ status' = Verdict(hash[1], hash[2])
  /\ pc' = IF Accumulator /\ status' = "COUNT_DIFF" THEN <<"stream", 1>> ELSE <<"done", 1>>
  /\ UNCHANGED <<dbVars, options, tips, hash, keys, deep>>

(***************************************************************************)
(* The deep check streams the whole table, as it is by then.               *)
(***************************************************************************)
Stream(d) ==
  /\ pc = <<"stream", d>>
  /\ keys' = [keys EXCEPT ![d] = {r.at : r \in Rows(table, d)}]
  /\ Then("stream", d, "verdict")
  /\ UNCHANGED <<dbVars, options, tips, hash, status, deep>>

(* Slip: keys on one side alone are enough for the verdict "neither". *)
SubsetVerdictStrict(K1, K2) == IF K1 = K2 THEN "identical" ELSE "neither"

SubsetVerdict(K1, K2) ==
  CASE K1 = K2                                    -> "identical"
    [] K1 # K2 /\ K2 \subseteq K1                 -> "db2 in db1"
    [] K1 # K2 /\ K1 \subseteq K2                 -> "db1 in db2"
    [] ~(K1 \subseteq K2) /\ ~(K2 \subseteq K1)   -> "neither"

Conclude ==
  /\ pc = <<"verdict", 1>>
  /\ deep' = SubsetVerdict(keys[1], keys[2])
  /\ pc' = <<"done", 1>>
  /\ UNCHANGED <<dbVars, options, tips, hash, status, keys>>

(***************************************************************************)
(* db-sync runs before the comparison, and during it unless it is stopped. *)
(***************************************************************************)
DbMoves ==
  /\ moving \/ pc = <<"start", 1>>
  /\ pc # <<"done", 1>>
  /\ DbStep
  /\ UNCHANGED <<options, pc, tips, hash, status, keys, deep>>

Finished == pc = <<"done", 1>> /\ UNCHANGED vars

Next ==
  \/ Start
  \/ \E d \in DB : ReadTip(d) \/ Hash(d) \/ Stream(d)
  \/ Classify
  \/ Conclude
  \/ DbMoves
  \/ Finished

Spec == Init /\ [][Next]_vars
-----------------------------------------------------------------------------
Done == pc = <<"done", 1>>

(***************************************************************************)
(* What the documentation asks for (docs/07:340-376): margins that cover a *)
(* rollback when db-sync runs, no block of a fork below the tips when it   *)
(* does not, epochs late enough for what is written later, and neither a   *)
(* clamped cutoff nor a window above it.                                   *)
(***************************************************************************)
EpochsHeldBack ==
  CASE table = "reward"                             -> IF moving THEN Lag + 1 ELSE Lag
    [] table \in {"gov_action_proposal", "committee"} -> IF moving THEN 1 ELSE 0
    [] table \in {"tx_out", "multi_asset"}          -> 0

Trusted ==
  /\ IF moving THEN margin.block >= K ELSE forkAt = [d \in DB |-> 0]
  /\ EpochsHeldBack <= margin.epoch /\ margin.epoch <= LowEpoch
  /\ window # None => window[2] <= CutoffBlock

(***************************************************************************)
(* The defect is one of a row, and of a value, within the boundary.        *)
(***************************************************************************)
DecidedOnMain(p) == {EpochOf[q] : q \in {o \in Pos : p \in Block["main"][o].decides}}

DefectInScope ==
  /\ defect # None
  /\ CASE table \in {"reward", "committee"} -> window = None /\ defect.at <= CutoffEpoch
       [] table = "tx_out"                  -> InScope(defect.at)
       [] table = "gov_action_proposal"     ->
            /\ InScope(defect.at)
            /\ defect.how = "unset" => \E e \in DecidedOnMain(defect.at) : e <= CutoffEpoch
       [] table = "multi_asset"             -> FALSE

TypeOK ==
  /\ pc \in {"start", "tip", "hash", "classify", "stream", "verdict", "done"} \X DB
  /\ \A d \in DB : tips[d] # None => tips[d] \in [block : Pos, epoch : Epochs]
  /\ None \notin {tips[1], tips[2]} => CutoffBlock \in Nat /\ CutoffEpoch \in Nat
  /\ status \in {"PENDING", "MATCH", "COUNT_DIFF", "HASH_DIFF"}
  /\ deep \in {"none", "identical", "db2 in db1", "db1 in db2", "neither"}
  /\ \A d \in DB : high[d] - K <= tip[d] /\ tip[d] <= high[d]

(***************************************************************************)
(* A table whose values come with epochs gets the verdict that the chain   *)
(* and the defect demand, whatever the two databases have reached:         *)
(* lifecycle epochs, rewards and the genesis committee are complete and    *)
(* equal up to the cutoff epoch in both (registries.py:205-212,            *)
(* sql.py:34-42).                                                          *)
(***************************************************************************)
VerdictFollowsChain ==
  Done /\ Trusted /\ table \in {"gov_action_proposal", "reward", "committee"} =>
    (status = "MATCH" <=> ~DefectInScope)

(***************************************************************************)
(* The one false alarm of tx_out in a database that records consumption is *)
(* an output within the boundary that only one database knows to be spent, *)
(* by a tx above the boundary (docs/09:115-121).                           *)
(***************************************************************************)
SpentLaterOnly ==
  Done /\ Trusted /\ table = "tx_out" /\ status # "MATCH" =>
    \/ DefectInScope
    \/ /\ status = "HASH_DIFF"
       /\ \E r \in hash[1] \cup hash[2] : r.late # None /\ ~InScope(r.late)

(***************************************************************************)
(* An accumulator fails the run, or is called diverged by the deep check,  *)
(* only if a database really holds something the chain does not account    *)
(* for: an object of a fork, or one lost or wrong.  Being behind, or       *)
(* catching up between the two phases, never is enough (docs/06:618-626).  *)
(***************************************************************************)
FromFork ==
  \E d \in DB, p \in Pos : <<"fork", p>> \in applied[d] /\ Block["fork"][p].mints # {}

NeitherMeansForked ==
  Done /\ Accumulator /\ (status = "HASH_DIFF" \/ deep = "neither") => FromFork \/ defect # None

(***************************************************************************)
(* A clean superset confirms that a count delta is purely tip-gap extra    *)
(* rows, not a real difference (cli.py:85-86).                             *)
(***************************************************************************)
SupersetMeansTipGap ==
  Done /\ deep \in {"db2 in db1", "db1 in db2"} => defect = None

AtOneTip == ~moving /\ tip[1] = tip[2] /\ forkAt = [d \in DB |-> 0] /\ ~FromFork

(***************************************************************************)
(* MATCH: same row count and same content fingerprint, so identical chain  *)
(* data (docs/05:185); tables that are skipped for a --block-range         *)
(* (docs/05:75) get no such verdict.  Two databases at one tip of one      *)
(* chain leave no other reason for a difference than a wrong row.          *)
(***************************************************************************)
MatchMeansIdentical ==
  Done /\ status = "MATCH" /\ AtOneTip => Rows(table, 1) = Rows(table, 2)
=============================================================================
