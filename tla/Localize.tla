------------------------------ MODULE Localize ------------------------------
(***************************************************************************)
(* Phase 2 for one mismatching table (cli._localize_mismatch): bisection   *)
(* (compare.localize) or one pass over buckets (compare.localize_buckets), *)
(* then the rows that have no block (compare.localize_null_anchored).      *)
(*                                                                         *)
(* Each database goes through a history of snapshots while this runs, and  *)
(* every query sees one of them, never an earlier one than the query       *)
(* before.  The two databases move independently, so that the queries of   *)
(* one window, or of one pass, are one step: what counts is which snapshot *)
(* of its own database each of them saw.                                   *)
(***************************************************************************)
EXTENDS Buckets

CONSTANTS
  BlockNo,       \* chain position -> block number or None
  Cutoff,        \* cutoff_block
  CutoffEpoch,   \* cutoff_epoch
  Limits,        \* pairs of min_width and max_leaves to try
  NumBuckets,    \* --localize-buckets
  Tables,        \* tables to try: those of SpineRanges, and "epoch"
  Methods,       \* values of --localize to try
  Databases      \* table -> pairs of databases to try:
                 \*   history   DB -> its snapshots, the rows of each table
                 \*   settled   coordinate up to which they never change
                 \*   tied      content tells a row's place on the chain

Pos == DOMAIN BlockNo

Numbered == {p \in Pos : BlockNo[p] # None}

ASSUME LocalizeAssumption ==
  /\ BlockNo \in Seq(Nat \cup {None})
  /\ \A p, q \in Numbered : p < q => BlockNo[p] < BlockNo[q]
  /\ \A p, q \in Numbered : \A n \in BlockNo[p] .. BlockNo[q] : \E m \in Numbered : BlockNo[m] = n
  /\ Cutoff \in Nat /\ CutoffEpoch \in Nat /\ NumBuckets \in Int
  /\ Limits \subseteq [width : Nat, leaves : Nat \ {0}]
  /\ Tables \subseteq IdRangeTables \cup {"committee", "epoch"}
  /\ Methods \subseteq {"bisect", "buckets"}

(***************************************************************************)
(* What every snapshot S of a database keeps to (DbSync shows how): ids    *)
(* grow along the chain and foreign keys with the ids, a row points at one *)
(* of its own block, epoch boundary blocks hold no transactions, and no    *)
(* epoch lacks all its blocks before the first boundary.                   *)
(***************************************************************************)
Parent(u) == CASE u = "tx" -> "block" [] u = "leaf" -> "tx" [] u = "committee" -> "leaf"

WellTyped(S) ==
  /\ \A u \in Spine \cup {"committee", "epoch"} : IsFiniteSet(S[u])
  /\ \A u \in Spine : \A r \in S[u] : r.id \in Nat /\ r.pos \in Pos
  /\ \A u \in {"tx", "leaf"} : \A r \in S[u] : r.key \in Nat
  /\ \A r \in S["committee"] : IF r.pos = 0 THEN r.key = None ELSE r.pos \in Pos /\ r.key \in Nat
  /\ \A r \in S["epoch"] : r.key \in Nat

InChainOrder(S) ==
  /\ \A u \in Spine : \A r, q \in S[u] : r.id <= q.id => r.pos <= q.pos
  /\ \A u \in {"tx", "leaf"} : \A r, q \in S[u] : r.id <= q.id => r.key <= q.key
  /\ \A b \in S["block"] : b.key = BlockNo[b.pos]

Linked(S) ==
  /\ \A u \in {"tx", "leaf", "committee"} : \A r \in S[u] :
       r.pos # 0 =>
         /\ \E q \in S[Parent(u)] : q.id = r.key /\ q.pos = r.pos
         /\ \A p \in Numbered : p < r.pos => r.pos \in Numbered
  /\ \A b \in S["block"] :
       b.pos \notin Numbered /\ (\E p \in Numbered : p < b.pos) =>
         \E q \in S["block"] : q.pos \in Numbered /\ q.pos < b.pos

(***************************************************************************)
(* The rows of a table that are settled when the blocks, or epochs, up to  *)
(* n are.  Those without a block count as settled once an epoch within the *)
(* cutoff names them: r.shown is the first such epoch, or None.            *)
(***************************************************************************)
SettledPlaces(n) == {p \in Pos : \E q \in Numbered : p <= q /\ BlockNo[q] <= n}

SettledRows(S, u, n) ==
  {r \in S[u] : IF u = "epoch" THEN r.key <= n
                ELSE r.pos \in SettledPlaces(n) \/ (r.pos = 0 /\ Between(r.shown, 0, CutoffEpoch))}

(* Every snapshot of history h of a database has the same settled rows. *)
Settles(t, h, n) ==
  \A i \in 1 .. Len(h), u \in IF t = "epoch" THEN {t} ELSE Spine \cup {"committee"} :
    SettledRows(h[i], u, n) = SettledRows(h[1], u, n)

(* What a later snapshot adds has ids above all that were ever given out. *)
NeverReused(h) ==
  \A i, j \in 1 .. Len(h), u \in Spine :
    i < j => \A q \in h[i][u], r \in h[j][u] : r \in h[i][u] \/ q.id < r.id

(* Rows of two snapshots with one content are at one place. *)
TellsPlace(t, S, Q) ==
  \A r \in TableRows(t, S), q \in TableRows(t, Q) :
    r.content = q.content => IF t = "epoch" THEN r.key = q.key ELSE r.pos = q.pos

ASSUME DatabasesAssumption ==
  \A t \in Tables : \A x \in Databases[t] :
    /\ x.settled \in Nat /\ x.tied \in BOOLEAN
    /\ \A d \in {1, 2} :
         /\ Len(x.history[d]) \in Nat \ {0}
         /\ \A i \in 1 .. Len(x.history[d]) :
              WellTyped(x.history[d][i]) /\ InChainOrder(x.history[d][i]) /\ Linked(x.history[d][i])
         /\ Settles(t, x.history[d], x.settled) /\ NeverReused(x.history[d])
    /\ \A p \in Numbered : BlockNo[p] <= x.settled =>
         \E d \in {1, 2} : \E b \in x.history[d][1]["block"] : b.pos = p
    /\ x.tied =>
         \A d, e \in {1, 2} : \A i \in 1 .. Len(x.history[d]), j \in 1 .. Len(x.history[e]) :
           TellsPlace(t, x.history[d][i], x.history[e][j])

VARIABLES
  table,       \* the table localized
  method,      \* --localize
  limits,      \* min_width and max_leaves
  dbs,         \* the two databases
  now,         \* DB -> the snapshot its last query saw
  pc,          \* "align", "hash", "search", "nullrows" or "done"
  kept,        \* edges and thresholds that survive the alignment
  stack,       \* windows still to search, the next one last
  found,       \* windows that differ
  truncated,   \* the search stopped with windows on the stack
  noBlock,     \* the rows without a block differ
  errors       \* which of the two parts failed

input == <<table, method, limits, dbs>>

vars == <<input, now, pc, kept, stack, found, truncated, noBlock, errors>>

DB == {1, 2}

OnEpochs == table = "epoch"

Top == IF OnEpochs THEN CutoffEpoch ELSE Cutoff

Narrow == IF OnEpochs THEN 0 ELSE limits.width

(***************************************************************************)
(* The snapshots that three range queries and then a hash query may see of *)
(* database d from snapshot i on, and the answers the hash may be, each    *)
(* with the snapshot it is from.                                           *)
(***************************************************************************)
From(d, i) == i .. Len(dbs.history[d])

Looks(d, i) ==
  {l \in From(d, i) \X From(d, i) \X From(d, i) \X From(d, i) :
     l[1] <= l[2] /\ l[2] <= l[3] /\ l[3] <= l[4]}

Answers(d, i, Query(_)) == {[says |-> Query(l), at |-> l[4]] : l \in Looks(d, i)}

(***************************************************************************)
(* The rows of the compared table in a window of its coordinate.  The hash *)
(* query selects by ranges that may be older than the rows it reads.       *)
(***************************************************************************)
Snapshot(d, i) == dbs.history[d][i]

IdRangeRows(d, l, window) ==
  LET seen == [s \in Spine |-> CASE s = "block" -> Snapshot(d, l[1])[s]
                                  [] s = "tx"    -> Snapshot(d, l[2])[s]
                                  [] s = "leaf"  -> Snapshot(d, l[3])[s]]
      ranges == ComputeSpineRanges(seen, Cutoff, window)
  IN  Selected(table, Snapshot(d, l[4]), ranges[AnchorSpine(table)])

WindowRows(d, l, w) ==
  IF OnEpochs
  THEN {r \in Snapshot(d, l[4])["epoch"] : Between(r.key, w.lo, w.hi)}
  ELSE IdRangeRows(d, l, <<w.lo, w.hi>>)

(* Slip: only the counts of a window are compared. *)
WindowCounts(d, w) ==
  LET Count(l) == [n |-> Cardinality(WindowRows(d, l, w))] IN Answers(d, now[d], Count)

WindowHashes(d, w) ==
  LET Hash(l) == SetHash(WindowRows(d, l, w)) IN Answers(d, now[d], Hash)

(***************************************************************************)
(* The rows without a block that an epoch_state row within the cutoff      *)
(* epoch names.                                                            *)
(***************************************************************************)
NullRows(d, i) ==
  IF table = "committee"
  THEN {r \in Snapshot(d, i)["committee"] : r.key = None /\ Between(r.shown, 0, CutoffEpoch)}
  ELSE {}

(***************************************************************************)
(* The rows phase 1 compares.  Phase 2 runs only for a table that phase 1  *)
(* found different, and empty on neither side.                             *)
(***************************************************************************)
PhaseOneHashes(d) ==
  LET Hash(l) ==
        SetHash(NullRows(d, l[4]) \cup
                  (IF OnEpochs THEN WindowRows(d, l, [lo |-> 0, hi |-> CutoffEpoch])
                               ELSE IdRangeRows(d, l, None)))
  IN  Answers(d, 1, Hash)

NothingKept == [edges |-> <<>>, thresholds |-> <<<<>>, <<>>>>]

WholeChain == <<[lo |-> 0, hi |-> Top]>>

ByBuckets == method = "buckets" /\ ~OnEpochs

Init ==
  /\ table \in Tables
  /\ dbs \in Databases[table]
  /\ \E a \in PhaseOneHashes(1), b \in PhaseOneHashes(2) :
       a.says # b.says /\ 0 \notin {a.says.n, b.says.n} /\ now = <<a.at, b.at>>
  /\ method \in Methods
  /\ limits \in Limits
  /\ pc = IF ByBuckets THEN "align" ELSE "search"
  /\ kept = NothingKept
  /\ stack = IF ByBuckets THEN <<>> ELSE WholeChain
  /\ found = <<>>
  /\ truncated = FALSE
  /\ noBlock = FALSE
  /\ errors = {}
-----------------------------------------------------------------------------
(***************************************************************************)
(* localize_buckets: line up the edges, whose ids are one query a          *)
(* database.  With fewer than two edges it falls back to the bisection.    *)
(***************************************************************************)
Alignment(i, j) ==
  LET edges == BlockEdges(Cutoff, NumBuckets)
      Boundaries(d, k) == BucketBoundaryIds(Snapshot(d, k), AnchorSpine(table), edges)
  IN  AlignBucketBoundaries(edges, Boundaries(1, i), Boundaries(2, j))

Align ==
  /\ pc = "align"
  /\ \E i \in From(1, now[1]), j \in From(2, now[2]) :
       /\ kept' = Alignment(i, j)
       /\ now' = <<i, j>>
  /\ IF Len(kept'.edges) < 2
     THEN pc' = "search" /\ stack' = WholeChain
     ELSE pc' = "hash" /\ UNCHANGED stack
  /\ UNCHANGED <<input, found, truncated, noBlock, errors>>

(***************************************************************************)
(* One scan per database hashes every bucket; those that differ are        *)
(* reported in order.                                                      *)
(***************************************************************************)
BucketOf(d, r) == WidthBucket(Anchor(table, r), kept.thresholds[d])

BucketHashes(d) ==
  LET Rows(l) == IdRangeRows(d, l, None)
      Hash(l) == [v \in 0 .. Len(kept.edges) |->
                    SetHash({r \in Rows(l) : BucketOf(d, r) = v})]
  IN  Answers(d, now[d], Hash)

HashBuckets ==
  /\ pc = "hash"
  /\ \E a \in BucketHashes(1), b \in BucketHashes(2) :
       LET differs == Ascending({v \in 0 .. Len(kept.edges) : a.says[v] # b.says[v]})
       IN  /\ found' = [i \in DOMAIN differs |-> BucketWindow(differs[i], kept.edges, Cutoff)]
           /\ now' = <<a.at, b.at>>
  /\ pc' = "nullrows"
  /\ UNCHANGED <<input, kept, stack, truncated, noBlock, errors>>

(***************************************************************************)
(* One turn of the bisection: drop a window whose hashes agree, report one *)
(* that is narrow enough, split any other, its lower half on top.          *)
(***************************************************************************)
(* Slip: both halves hold the middle. *)
HalvesOverlapping(w) ==
  LET mid == (w.lo + w.hi) \div 2
  IN  <<[lo |-> mid, hi |-> w.hi], [lo |-> w.lo, hi |-> mid]>>

(* Slip: the middle is rounded up. *)
HalvesRoundedUp(w) ==
  LET mid == (w.lo + w.hi + 1) \div 2
  IN  <<[lo |-> mid + 1, hi |-> w.hi], [lo |-> w.lo, hi |-> mid]>>

(* Slip: the middle is in neither half. *)
HalvesApart(w) ==
  LET mid == (w.lo + w.hi) \div 2
  IN  <<[lo |-> mid + 1, hi |-> w.hi], [lo |-> w.lo, hi |-> mid - 1]>>

(* Slip: the upper half comes first. *)
HalvesSwapped(w) ==
  LET mid == (w.lo + w.hi) \div 2
  IN  <<[lo |-> w.lo, hi |-> mid], [lo |-> mid + 1, hi |-> w.hi]>>

Halves(w) ==
  LET mid == (w.lo + w.hi) \div 2
  IN  <<[lo |-> mid + 1, hi |-> w.hi], [lo |-> w.lo, hi |-> mid]>>

Searching == pc = "search" /\ stack # <<>> /\ Len(found) < limits.leaves

TopHashes(differ) ==
  \E a \in WindowHashes(1, Last(stack)), b \in WindowHashes(2, Last(stack)) :
    differ = (a.says # b.says) /\ now' = <<a.at, b.at>>

Prune ==
  /\ Searching
  /\ TopHashes(FALSE)
  /\ stack' = Front(stack)
  /\ UNCHANGED <<input, pc, kept, found, truncated, noBlock, errors>>

Report ==
  /\ Searching
  /\ TopHashes(TRUE)
  /\ Last(stack).hi - Last(stack).lo <= Narrow
  /\ found' = Append(found, Last(stack))
  /\ stack' = Front(stack)
  /\ UNCHANGED <<input, pc, kept, truncated, noBlock, errors>>

Split ==
  /\ Searching
  /\ TopHashes(TRUE)
  /\ Last(stack).hi - Last(stack).lo > Narrow
  /\ stack' = Front(stack) \o Halves(Last(stack))
  /\ UNCHANGED <<input, pc, kept, found, truncated, noBlock, errors>>

(* Slip: the list counts as complete when the cap ends the search. *)
StopUnmarked ==
  /\ pc = "search"
  /\ stack = <<>> \/ Len(found) >= limits.leaves
  /\ pc' = "nullrows"
  /\ UNCHANGED <<input, now, kept, stack, found, truncated, noBlock, errors>>

Stop ==
  /\ pc = "search"
  /\ stack = <<>> \/ Len(found) >= limits.leaves
  /\ truncated' = (stack # <<>>)
  /\ pc' = "nullrows"
  /\ UNCHANGED <<input, now, kept, stack, found, noBlock, errors>>

(***************************************************************************)
(* A query of the search fails.  Its windows are lost, the rows without a  *)
(* block are checked all the same.                                         *)
(***************************************************************************)
(* Slip: the failure ends phase 2 for the table. *)
SearchFailsForGood ==
  /\ pc \in {"align", "hash", "search"}
  /\ errors' = errors \cup {"windows"}
  /\ found' = <<>>
  /\ pc' = "done"
  /\ UNCHANGED <<input, now, kept, stack, truncated, noBlock>>

SearchFails ==
  /\ pc \in {"align", "hash", "search"}
  /\ errors' = errors \cup {"windows"}
  /\ found' = <<>>
  /\ pc' = "nullrows"
  /\ UNCHANGED <<input, now, kept, stack, truncated, noBlock>>

CheckNullRows ==
  /\ pc = "nullrows"
  /\ \/ /\ \E i \in From(1, now[1]), j \in From(2, now[2]) :
             /\ noBlock' = (SetHash(NullRows(1, i)) # SetHash(NullRows(2, j)))
             /\ now' = <<i, j>>
        /\ UNCHANGED errors
     \/ table = "committee" /\ errors' = errors \cup {"rows"} /\ UNCHANGED <<now, noBlock>>
  /\ pc' = "done"
  /\ UNCHANGED <<input, kept, stack, found, truncated>>

Finished == pc = "done" /\ UNCHANGED vars

Next ==
  \/ Align \/ HashBuckets
  \/ Prune \/ Report \/ Split \/ Stop
  \/ SearchFails
  \/ CheckNullRows
  \/ Finished

(***************************************************************************)
(* Weak fairness of Next: one thread runs this straight through, and every *)
(* query ends, with an answer or by a timeout.  A step that changes vars   *)
(* is enabled until pc = "done" (TLC finds no deadlock), which spares it   *)
(* the evaluation of ENABLED.                                              *)
(***************************************************************************)
Fairness == []<>(pc = "done") \/ []<><<Next>>_vars

Spec == Init /\ [][Next]_vars /\ Fairness
-----------------------------------------------------------------------------
(***************************************************************************)
(* Where a row is on the chain, told without ids: the number of its block, *)
(* and the last number at or before it (0 before the first).  Properties   *)
(* are about settled rows, which are in every snapshot; at rest that is    *)
(* all rows within the boundary.                                           *)
(***************************************************************************)
SettledTop == IF dbs.settled < Top THEN dbs.settled ELSE Top

NumberOf(r) ==
  CASE OnEpochs               -> r.key
    [] ~OnEpochs /\ r.pos = 0 -> None
    [] ~OnEpochs /\ r.pos > 0 -> BlockNo[r.pos]

NumberedRows(d) ==
  {r \in TableRows(table, Snapshot(d, 1)) : Between(NumberOf(r), 0, SettledTop)}

InWindow(r, w) == w.lo <= NumberOf(r) /\ NumberOf(r) <= w.hi

WindowsOf(seq) == {seq[i] : i \in DOMAIN seq}

Bisecting == pc = "search" \/ ("windows" \notin errors /\ ~(ByBuckets /\ Len(kept.edges) >= 2))

TypeOK ==
  /\ pc \in {"align", "hash", "search", "nullrows", "done"}
  /\ \A w \in WindowsOf(stack) \cup WindowsOf(found) :
       w \in [lo : 0 .. Top, hi : 0 .. Top] /\ w.lo <= w.hi
  /\ Len(kept.edges) = Len(kept.thresholds[1])
  /\ Len(kept.edges) = Len(kept.thresholds[2])
  /\ errors \subseteq {"windows", "rows"}
  /\ {truncated, noBlock} \subseteq BOOLEAN

(***************************************************************************)
(* Where settled rows of the two databases differ: the numbers under which *)
(* rows that carry them do, and, for all rows up to where both databases   *)
(* have a settled block, the last number at or before each place where     *)
(* they do.                                                                *)
(***************************************************************************)
LastNumber == [p \in Pos |-> Max({0} \cup {BlockNo[q] : q \in {n \in Numbered : n <= p}})]

BothReach(p) ==
  p > 0 /\ \A d \in DB : \E b \in Snapshot(d, 1)["block"] :
              p <= b.pos /\ Between(b.key, 0, SettledTop)

ChainRows(d) == {r \in TableRows(table, Snapshot(d, 1)) : BothReach(r.pos)}

DifferAt(S1, S2, At(_)) ==
  {c \in {At(r) : r \in S1 \cup S2} :
     SetHash({r \in S1 : At(r) = c}) # SetHash({r \in S2 : At(r) = c})}

NumberedDiffering == DifferAt(NumberedRows(1), NumberedRows(2), NumberOf)

Differing ==
  IF OnEpochs
  THEN NumberedDiffering
  ELSE LET Place(r) == r.pos
       IN  {LastNumber[p] : p \in DifferAt(ChainRows(1), ChainRows(2), Place)}

(***************************************************************************)
(* The bisection loses nothing: where content tells a row's place, every   *)
(* number at which settled rows differ is in a window found or in one      *)
(* still on the stack, whatever else the databases did between two windows *)
(* (compare.py:132).  Without that, equal content in two places lets a     *)
(* stretch that differs be dropped.                                        *)
(***************************************************************************)
RestAgrees ==
  Bisecting /\ pc # "align" /\ dbs.tied =>
    \A c \in NumberedDiffering :
      \E w \in WindowsOf(stack) \cup WindowsOf(found) : w.lo <= c /\ c <= w.hi

(***************************************************************************)
(* What the bisection has dropped is, taken together, alike in the two     *)
(* databases, also where content does not tell a row's place: a difference *)
(* may hide another one in its stretch, but none hides what is left        *)
(* (compare.py:132).  This is about rows under numbers all of which are    *)
(* settled; epoch boundary blocks, which a window may cut off, are left    *)
(* out with their table.                                                   *)
(***************************************************************************)
Dropped(d) ==
  {r \in NumberedRows(d) : \A w \in WindowsOf(stack) \cup WindowsOf(found) : ~InWindow(r, w)}

DroppedAgree ==
  Bisecting /\ pc # "align" /\ table # "block" /\ SettledTop = Top =>
    SetHash(Dropped(1)) = SetHash(Dropped(2))

(***************************************************************************)
(* What the bisection reports are disjoint narrow windows, in ascending    *)
(* order, all below whatever is still on the stack ("lowest first",        *)
(* compare.py:106-108), and those of settled rows still differ however     *)
(* often they are asked for again.                                         *)
(***************************************************************************)
LowestFirst ==
  Bisecting =>
    LET order == found \o Reverse(stack)
    IN  /\ \A w \in WindowsOf(found) :
             /\ w.hi - w.lo <= Narrow
             /\ w.hi <= SettledTop =>
                  \A a \in WindowHashes(1, w), b \in WindowHashes(2, w) : a.says # b.says
        /\ \A i, j \in DOMAIN order : i < j => order[i].hi < order[j].lo

(***************************************************************************)
(* Bucket k means the same blocks in both databases although the           *)
(* thresholds are ids that drift (compare.py:159-167), read from databases *)
(* with different tips: the bucket of a settled row is the count of kept   *)
(* edges its number has reached.                                           *)
(***************************************************************************)
BucketsAlign ==
  pc = "hash" =>
    \A d \in DB : \A r \in NumberedRows(d) :
      BucketOf(d, r) = Cardinality({k \in DOMAIN kept.edges : kept.edges[k] <= NumberOf(r)})

(***************************************************************************)
(* A difference in the rows without a block is reported, or their own      *)
(* failure is, whatever became of the windows (cli.py:146-148: neither     *)
(* result can hide the other).                                             *)
(***************************************************************************)
NeitherHidesTheOther ==
  pc = "done" => "rows" \in errors \/ (noBlock <=> SetHash(NullRows(1, 1)) # SetHash(NullRows(2, 1)))

(***************************************************************************)
(* Phase 2 comes to an end.                                                *)
(***************************************************************************)
Termination == <>(pc = "done")

(***************************************************************************)
(* Every mismatch phase 1 finds is located somewhere by a phase 2 that     *)
(* neither fails nor stops early (docs/05:192).                            *)
(***************************************************************************)
EveryMismatchLocated ==
  pc = "done" /\ errors = {} => found # <<>> \/ noBlock
-----------------------------------------------------------------------------
(***************************************************************************)
(* Buckets see every settled row, those of genesis and of epoch boundary   *)
(* blocks too (docs/05:208: it checks every window).                       *)
(***************************************************************************)
BucketsSeeAll ==
  pc \in {"nullrows", "done"} /\ errors = {} /\ Len(kept.edges) >= 2 /\ dbs.tied =>
    \A c \in Differing : \E w \in WindowsOf(found) : w.lo <= c /\ c <= w.hi

(***************************************************************************)
(* The numbers above the last settled block, or epoch, of both databases.  *)
(***************************************************************************)
Beyond ==
  {c \in 0 .. Top : IF OnEpochs THEN c > SettledTop
                    ELSE \A p \in Numbered : BothReach(p) => BlockNo[p] < c}

(***************************************************************************)
(* Both methods keep the promise of module Localization, on databases that *)
(* move too: no settled difference is lost, and a window that holds none   *)
(* reaches into the unsettled blocks (docs/07:361, an artifact of the tip  *)
(* "would be localized (Phase 2) to those last few blocks").               *)
(***************************************************************************)
Promise == INSTANCE Localization WITH
  differing <- Differing \cup Beyond,
  numbered  <- IF dbs.tied THEN NumberedDiffering ELSE {},
  phase     <- CASE pc \in {"align", "hash", "search"}                      -> "searching"
                 [] pc \in {"nullrows", "done"} /\ "windows" \in errors     -> "failed"
                 [] pc \in {"nullrows", "done"} /\ "windows" \notin errors  -> "done",
  windows   <- found,
  complete  <- pc \in {"nullrows", "done"} /\ "windows" \notin errors /\ ~truncated

KeepsPromise == Promise!Spec
=============================================================================
