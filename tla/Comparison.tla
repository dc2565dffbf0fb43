----------------------------- MODULE Comparison -----------------------------
(***************************************************************************)
(* One run of the comparator over one table, query by query, against two   *)
(* databases that may move between any two queries: the tips and the       *)
(* cutoff (cli.main), the id ranges of each database                       *)
(* (ranges.compute_spine_ranges), then the hashes, the value proof and the *)
(* classification (compare.compare_table).  Every query autocommits, so it *)
(* sees a snapshot of its own.                                             *)
(***************************************************************************)
EXTENDS DbSync, FiniteSetsExt, Functions

CONSTANTS
  BlockMargin,   \* --block-margin
  CutoffArgs,    \* values of --cutoff-block to try, None for none
  Windows,       \* values of --block-range to try, None for none
  Tables,        \* tables to try
  AtRest         \* TRUE when the databases stand still during the run

ASSUME ToolAssumption ==
  /\ BlockMargin \in Nat
  /\ CutoffArgs \subseteq Nat \cup {None}
  /\ Windows \subseteq {None} \cup (Nat \X Nat)
  /\ Tables \subseteq IdRangeTables
  /\ AtRest \in BOOLEAN

VARIABLES
  pc,          \* the query that comes next
  cutoffArg,   \* --cutoff-block
  window,      \* --block-range
  table,       \* the table compared, None before a worker takes one
  tips,        \* DB -> block number of the tip when it was read
  cutoff,      \* cutoff_block
  ranges,      \* DB -> spine -> id range
  hash,        \* DB -> answer of the hash query
  value,       \* DB -> answer of the value query
  status       \* verdict, "PENDING" until there is one

toolVars == <<pc, cutoffArg, window, table, tips, cutoff, ranges, hash, value, status>>

vars == <<dbVars, toolVars>>

Statuses == {"PENDING", "MATCH", "COUNT_DIFF", "HASH_DIFF", "VALUE_DIFF", "ERROR"}

Stages == {<<"tip", d>> : d \in DB} \cup {<<"cut", 1>>}
            \cup {<<"range", d, s>> : d \in DB, s \in Spine}
            \cup {<<q, d>> : q \in {"hash", "value"}, d \in DB}
            \cup {<<"pick", 1>>, <<"classify", 1>>, <<"done", 1>>, <<"aborted", 1>>}

(***************************************************************************)
(* Tables with a numeric value column: tx.fee and tx_out.value.            *)
(***************************************************************************)
ValueTables == {"tx", "leaf"}

Value(r) == r.content.idx + (IF r.content.bad THEN 1 ELSE 0)

(***************************************************************************)
(* The value proof of a table with a numeric column: its sum, least and    *)
(* greatest value, 0 when no row is selected.                              *)
(***************************************************************************)
ValueAggregate(S) ==
  LET values == {Value(r) : r \in S}
  IN  [sum |-> SumFunction([r \in S |-> Value(r)]),
       min |-> IF S = {} THEN 0 ELSE Min(values),
       max |-> IF S = {} THEN 0 ELSE Max(values)]

Larger(a, b) == IF a > b THEN a ELSE b

Smaller(a, b) == IF a < b THEN a ELSE b

ToolInit ==
  /\ pc = <<"tip", 1>>
  /\ cutoffArg \in CutoffArgs
  /\ window \in Windows
  /\ table = None
  /\ tips = [d \in DB |-> 0]
  /\ cutoff = 0
  /\ ranges = [d \in DB |-> [s \in Spine |-> NoRange]]
  /\ hash = [d \in DB |-> None]
  /\ value = [d \in DB |-> None]
  /\ status = "PENDING"

(***************************************************************************)
(* get_tip: max(block_no).  A database without a numbered block answers    *)
(* NULL, int(None) raises, and the run ends in a traceback.                *)
(***************************************************************************)
(* Slip: a tip of NULL is passed on instead of ending the run. *)
ReadTipOrNull(d) ==
  LET numbers == {b.key : b \in rows[d]["block"]} \ {None}
  IN  /\ pc = <<"tip", d>>
      /\ \E n \in numbers \cup {None} :
           /\ n = None => numbers = {}
           /\ \A m \in numbers : m <= n
           /\ tips' = [tips EXCEPT ![d] = n]
      /\ pc' = IF d = 1 THEN <<"tip", 2>> ELSE <<"cut", 1>>
      /\ UNCHANGED <<dbVars, cutoffArg, window, table, cutoff, ranges, hash, value, status>>

ReadTip(d) ==
  LET numbers == {b.key : b \in rows[d]["block"]} \ {None}
  IN  /\ pc = <<"tip", d>>
      /\ IF numbers = {}
         THEN pc' = <<"aborted", 1>> /\ UNCHANGED tips
         ELSE /\ \E n \in numbers :
                   /\ \A m \in numbers : m <= n
                   /\ tips' = [tips EXCEPT ![d] = n]
              /\ pc' = IF d = 1 THEN <<"tip", 2>> ELSE <<"cut", 1>>
      /\ UNCHANGED <<dbVars, cutoffArg, window, table, cutoff, ranges, hash, value, status>>

(***************************************************************************)
(* The common boundary.  The code asks whether --cutoff-block is true, not *)
(* whether it is given: 0 counts as none.                                  *)
(***************************************************************************)
Overrides(arg) == arg \notin {None, 0}

(* Slip: the margin is forgotten. *)
CutoffAtTip(arg, tip1, tip2) == IF Overrides(arg) THEN arg ELSE Smaller(tip1, tip2)

CutoffBlock(arg, tip1, tip2) ==
  Larger(0, (IF Overrides(arg) THEN arg ELSE Smaller(tip1, tip2)) - BlockMargin)

Cut ==
  /\ pc = <<"cut", 1>>
  /\ cutoff' = CutoffBlock(cutoffArg, tips[1], tips[2])
  /\ pc' = <<"range", 1, "block">>
  /\ UNCHANGED <<dbVars, cutoffArg, window, table, tips, ranges, hash, value, status>>

(***************************************************************************)
(* One query of compute_spine_ranges.  All of database 1 comes first.      *)
(***************************************************************************)
RangeOf(d, s) ==
  CASE s = "block" -> BlockRange(rows[d]["block"], cutoff, window)
    [] s = "tx"    -> ChildRange(rows[d]["tx"], ranges[d]["block"])
    [] s = "leaf"  -> ChildRange(rows[d]["leaf"], ranges[d]["tx"])

AfterRange(d, s) ==
  CASE s = "block" -> <<"range", d, "tx">>
    [] s = "tx"    -> <<"range", d, "leaf">>
    [] s = "leaf"  -> IF d = 1 THEN <<"range", 2, "block">> ELSE <<"pick", 1>>

ReadRange(d, s) ==
  /\ pc = <<"range", d, s>>
  /\ ranges' = [ranges EXCEPT ![d][s] = RangeOf(d, s)]
  /\ pc' = AfterRange(d, s)
  /\ UNCHANGED <<dbVars, cutoffArg, window, table, tips, cutoff, hash, value, status>>

(***************************************************************************)
(* A worker takes a table of the plan.                                     *)
(***************************************************************************)
Pick ==
  /\ pc = <<"pick", 1>>
  /\ table' \in Tables
  /\ pc' = <<"hash", 1>>
  /\ UNCHANGED <<dbVars, cutoffArg, window, tips, cutoff, ranges, hash, value, status>>

(***************************************************************************)
(* The rows a query of compare_table selects in database d.                *)
(***************************************************************************)
(* Slip: the ids of database 1 bound both queries. *)
TableRangeShared(d) == ranges[1][AnchorSpine(table)]

TableRange(d) == ranges[d][AnchorSpine(table)]

Rows(d) == Selected(table, rows[d], TableRange(d))

(***************************************************************************)
(* Anything compare_table raises ends it with status ERROR.                *)
(***************************************************************************)
Error ==
  /\ status' = "ERROR"
  /\ pc' = <<"done", 1>>
  /\ UNCHANGED <<hash, value>>

Hash(d) ==
  /\ pc = <<"hash", d>>
  /\ IF PredicateFails(TableRange(d))
     THEN Error
     ELSE /\ hash' = [hash EXCEPT ![d] = SetHash(Rows(d))]
          /\ pc' = IF d = 1 THEN <<"hash", 2>>
                   ELSE IF table \in ValueTables THEN <<"value", 1>> ELSE <<"classify", 1>>
          /\ UNCHANGED <<value, status>>
  /\ UNCHANGED <<dbVars, cutoffArg, window, table, tips, cutoff, ranges>>

ReadValue(d) ==
  /\ pc = <<"value", d>>
  /\ value' = [value EXCEPT ![d] = ValueAggregate(Rows(d))]
  /\ pc' = IF d = 1 THEN <<"value", 2>> ELSE <<"classify", 1>>
  /\ UNCHANGED <<dbVars, cutoffArg, window, table, tips, cutoff, ranges, hash, status>>

(***************************************************************************)
(* A query of compare_table hits the statement timeout, or its connection  *)
(* breaks.                                                                 *)
(***************************************************************************)
QueryFails ==
  /\ \E d \in DB : pc \in {<<"hash", d>>, <<"value", d>>}
  /\ Error
  /\ UNCHANGED <<dbVars, cutoffArg, window, table, tips, cutoff, ranges>>

(***************************************************************************)
(* The ladder of verdicts at the end of compare_table.  That one side is   *)
(* empty is a COUNT_DIFF too, told apart in the note only.                 *)
(***************************************************************************)
(* Slip: equal counts are taken for equal content. *)
VerdictByCount(a, b, v1, v2) ==
  CASE a.n # b.n             -> "COUNT_DIFF"
    [] a.n = b.n /\ v1 # v2  -> "VALUE_DIFF"
    [] a.n = b.n /\ v1 = v2  -> "MATCH"

Verdict(a, b, v1, v2) ==
  CASE a.n # b.n             -> "COUNT_DIFF"
    [] a.n = b.n /\ a # b    -> "HASH_DIFF"
    [] a = b /\ v1 # v2      -> "VALUE_DIFF"
    [] a = b /\ v1 = v2      -> "MATCH"

Classify ==
  /\ pc = <<"classify", 1>>
  /\ status' = Verdict(hash[1], hash[2], value[1], value[2])
  /\ pc' = <<"done", 1>>
  /\ UNCHANGED <<dbVars, cutoffArg, window, table, tips, cutoff, ranges, hash, value>>

ToolNext ==
  \/ \E d \in DB : ReadTip(d) \/ Hash(d) \/ ReadValue(d)
  \/ \E d \in DB, s \in Spine : ReadRange(d, s)
  \/ Cut
  \/ Pick
  \/ QueryFails
  \/ Classify

(***************************************************************************)
(* The databases move at any time, or only before the run when AtRest.     *)
(***************************************************************************)
DbStep ==
  /\ pc[1] \notin {"done", "aborted"}
  /\ AtRest => pc = <<"tip", 1>>
  /\ DbNext
  /\ UNCHANGED toolVars

Init == DbInit /\ ToolInit

Next == ToolNext \/ DbStep

Spec == Init /\ [][Next]_vars
-----------------------------------------------------------------------------
(***************************************************************************)
(* The positions the run is meant to compare.                              *)
(***************************************************************************)
Wanted ==
  IF window = None
  THEN Within(cutoff)
  ELSE LET ends == {p \in Numbered : window[1] <= BlockNo[p] /\ BlockNo[p] <= window[2]}
       IN  {p \in Pos : \E q, r \in ends : q <= p /\ p <= r}

LowTip == Smaller(tips[1], tips[2])

(***************************************************************************)
(* What the documentation asks of a run against moving databases           *)
(* (docs/07): the margin is at least the security parameter, both tips are *)
(* beyond the margin, and a cutoff or a window given by hand is not above  *)
(* what the tips allow.                                                    *)
(***************************************************************************)
MarginKept ==
  IF window = None
  THEN K <= BlockMargin /\ BlockMargin <= LowTip /\ (Overrides(cutoffArg) => cutoffArg <= LowTip)
  ELSE window[2] + K <= LowTip

(***************************************************************************)
(* Databases at rest need no margin, only a boundary both have reached.    *)
(***************************************************************************)
Trusted ==
  \/ MarginKept
  \/ AtRest /\ (IF window = None THEN cutoff ELSE window[2]) <= LowTip

RangeKnown(d, s) ==
  /\ pc[1] \in {"range", "pick", "hash", "value", "classify", "done"}
  /\ pc[1] = "range" =>
       \/ d < pc[2]
       \/ d = pc[2] /\ \/ s = "block" /\ pc[3] # "block"
                       \/ s = "tx" /\ pc[3] = "leaf"

(***************************************************************************)
(* The content of table in database d over the wanted positions, told by   *)
(* the chain position of each row and not by any id.                       *)
(***************************************************************************)
Truth(d) == SetHash({r \in TableRows(table, rows[d]) : r.pos \in Wanted})
-----------------------------------------------------------------------------
TypeOK ==
  /\ pc \in Stages
  /\ cutoffArg \in CutoffArgs
  /\ window \in Windows
  /\ table \in Tables \cup {None}
  /\ tips \in [DB -> Nat]
  /\ cutoff \in Nat
  /\ ranges \in [DB -> [Spine -> IdRange]]
  /\ status \in Statuses
  /\ tip \in [DB -> 0 .. ChainLen]
  /\ forkAt \in [DB -> 0 .. ChainLen]
  /\ settled \in [DB -> SUBSET Pos]
  /\ seq \in [DB -> [Spine -> Nat \ {0}]]
  /\ defect \in Defects

(***************************************************************************)
(* An id range, once read, selects exactly the rows of the wanted blocks   *)
(* of its database, now and for the rest of the run, whatever is appended  *)
(* or rolled back meanwhile (ranges.py:44-79: ids are used long after they *)
(* were read).                                                             *)
(***************************************************************************)
WindowExact ==
  Trusted =>
    \A d \in DB, s \in Spine :
      RangeKnown(d, s) =>
        \A r \in rows[d][s] :
          Between(r.id, ranges[d][s].lo, ranges[d][s].hi) <=> r.pos \in Wanted

(***************************************************************************)
(* A verdict is the truth: MATCH exactly when the two databases hold the   *)
(* same content over the wanted positions (compare.py:46-84), although     *)
(* tips, ranges and hashes come from up to a dozen snapshots.              *)
(***************************************************************************)
VerdictIsTruth ==
  Trusted /\ status \notin {"PENDING", "ERROR"} =>
    (status = "MATCH" <=> Truth(1) = Truth(2))

(***************************************************************************)
(* A run that keeps its margin reports a difference only where database 2  *)
(* really wrote something wrong within the window: never because of        *)
(* drifting ids, of a fork, or of a rollback (docs/02, problem 1).         *)
(***************************************************************************)
NoFalseAlarm ==
  MarginKept /\ status \in {"COUNT_DIFF", "HASH_DIFF", "VALUE_DIFF"} =>
    defect.pos \in Wanted

(***************************************************************************)
(* The value proof runs on later snapshots than the hash it confirms       *)
(* (compare.py:53-58); in a run that keeps its margin the two never        *)
(* contradict each other.                                                  *)
(***************************************************************************)
ValueProofAgrees == MarginKept => status # "VALUE_DIFF"
=============================================================================
