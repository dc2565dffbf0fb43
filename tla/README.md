# A formal model of cardano-db-sync-compare

`db_sync_comparator` compares two cardano-db-sync PostgreSQL databases table by
table. Both follow one chain, but they hold it under different surrogate ids, they
may keep moving while they are compared, and the tables are too large to fetch. The
program therefore bounds every table by an id range that it works out per database,
compares one order-independent hash, and, for a table that differs, searches the
chain for the place. This directory models that machinery in TLA+ and checks it with
TLC on small instances. Every safety property that a passing run checks is also proved with
TLAPS, for every value of the constants; so is that phase 2 implements its promise.

## Inventory

| Part | State it keeps | Operations | What makes it correct |
|---|---|---|---|
| id-range windows, `ranges.py` | none; answers are kept by `cli.main` for the whole run | `get_tip`, `compute_spine_ranges`, `block_edges`, `bucket_boundary_ids` | an id range selects the rows of the wanted blocks and no others, when read and for as long as it is used |
| SQL building, `sql.py` | `JoinBuilder`: joins so far | `build_anchor`, `bound_predicate`, `null_anchor_predicate`, `hash_sql`, `hash_sql_bucketed`, `value_sql`, `natural_key_exprs`, `epoch_capped_expr` | equal hashes exactly for equal bags of normalised rows |
| introspection, `schema.py` | none; the answer is kept by `cli.main` | `introspect`, `indexed_columns` | what one database lacks is named, also when a table became a view |
| planner, `planning.py`, with `registries.py` | `TablePlan` | `plan_table` | every column is compared or named as not compared |
| comparison of a table, `compare.compare_table` | `TableResult` | two hash queries, two value queries, the ladder | the verdict is the truth about the two databases |
| localizer, `compare.localize`, `localize_buckets`, `localize_null_anchored` | stack, windows found; kept edges and thresholds | split, prune, report; align, hash | reported windows differ, none is left out, or the list says that it is cut |
| deep check, `verify.py` with `db.stream_keys` | two generators, two keys in hand, counters | build keys, pull, merge, verdict | keys name rows as the hash does, counts and verdict are exact, no connection is left |
| the run, `cli.main`, with `report.py` | arguments, tips, cutoff, ranges, plans, futures, results, connections, report | parse, connect, plan, pool, collect, phase 2, verify, summarise, write report | every table compared, or no exit code 0; exit code 0 only after a complete run without a hard difference, and with the report asked for |
| cardano-db-sync (not in the repository) | tables and sequences | append a block, roll back, cross an epoch boundary | environment |

How they interact: `main` connects, introspects both schemas, reads both tips,
derives the cutoff, reads all ranges of database 1 and then of database 2, plans
every common table, and submits one task per table to a `ThreadPoolExecutor`. A
thread opens two connections, runs `compare_table` with the ranges `main` read, and
closes them. `main` collects the futures as they complete, runs phase 2 for hard
mismatches over two further connections, streams the accumulators whose counts
differ, prints the summary and returns the exit code. Nothing is shared between
threads but the immutable plans and ranges; the databases are shared with two
db-sync processes that write to them.

Where the difficulty is:

* every query autocommits, so a verdict is put together from up to a dozen snapshots
  of two databases that append, fork and roll back (`cli.py:227-262`, `compare.py:46-58`);
* id ranges rest on ids that grow with the chain, although rollbacks burn ids, forks
  insert rows again, and genesis and epoch boundary blocks have no number
  (`ranges.py:44-79`);
* some columns and rows are written at later epoch boundaries or by later transactions,
  and accumulators have no place on the chain (`registries.py:205-233`, `sql.py:153-182`);
* phase 2 prunes by hash equality, stops at a cap, and lines up thresholds that are
  ids of different databases (`compare.py:92-236`);
* a run consists of parts that fail independently: connects in threads, queries,
  generators, the window search and the rows without a block;
* boundaries: a cutoff clamped at zero, empty ranges, one-block windows, the first and
  last bucket, the end of a stream.

`PROJECT.json` lists these as hazards, each at its line, with the property that watches it.

## Modules

| Module | Models | Extends |
|---|---|---|
| `SpineRanges` | queries of `ranges.py`, predicates and set hash of `sql.py`, as functions of one snapshot | |
| `DbSync` | the two databases: `Append`, `Rollback` | `SpineRanges` |
| `Comparison` | one run over one table, query by query, against `DbSync` | `DbSync` |
| `SumTheorems` | lemmas: induction over finite sets, and the sums by which rows are counted and values added | `FiniteSetTheorems`, `TLAPS` |
| `ComparisonProofs` | theorems about `Comparison`: its id ranges and its verdicts | `Comparison`, `SumTheorems`, `TLAPS` |
| `Buckets` | bucket edges, boundary ids, alignment, bucket of a row | `SpineRanges` |
| `Localization` | abstract: what phase 2 promises for a table | |
| `Localize` | both localizers and the rows without a block, at rest and on moving databases; refines `Localization` | `Buckets` |
| `LocalizeProofs` | theorems about `Localize`: both localizers, what the bisection finds | `Localize`, `TLAPS` |
| `BucketProofs` | theorems about `Localize`: what the buckets find, that both localizers implement `Localization`, and what the bisection drops | `LocalizeProofs` |
| `EpochSync` | the two databases again: what epoch boundaries, spending and forks do to rows | |
| `LateRows` | one run over one table of such rows, query by query, with the deep check | `EpochSync` |
| `LateRowsProofs` | theorems about `LateRows` | `LateRows`, `SumTheorems`, `TLAPS` |
| `Verify` | the deep check and its two generators | |
| `VerifyProofs` | theorems about `Verify` | `Verify`, `TLAPS` |
| `Registries` | an excerpt of `registries.py`, with an entry of every kind | |
| `Introspection` | `introspect` and what `main` derives from two schemas | `Registries` |
| `Planning` | `plan_table` and `natural_key_exprs`, what a plan makes of a row, and the keys of the deep check | `Introspection` |
| `PlanningProofs` | theorems about `Planning` | `Planning`, `SumTheorems`, `TLAPS` |
| `CompareRun` | `cli.main`: arguments, threads, futures, phases, report, exit code | |
| `CompareRunProofs` | theorems about `CompareRun` | `CompareRun`, `TLAPS` |
| `MC...` | small values for the constants | the module named |

The definitions called "Slip" are deliberate mistakes, each put before the definition
it distorts. Nothing uses them: substituted for that definition they show that the
properties notice.

### Correspondence to the code

**SpineRanges.** A row is `[id, key, pos, content]`: `id` the surrogate key, `key` the
column the walk seeks on (`block_no`, `block_id`, `tx_id`), `pos` its place on the
chain, which no operator of the code's model reads and only properties use, and
`content` what the normalised columns say. `None` is SQL NULL, and `Between` is not
true of it. `leaf` stands for `tx_out`, `pool_update` and `gov_action_proposal`, which
`ranges.py` treats alike. The md5 sums are idealised: a set hash is the count and the
bag of contents.

**DbSync** is external, modelled from what `ranges.py` and `sql.py:115-120` rely on. The
chain is a row of positions, some without a number. A block is written with its
transactions and leaves in one transaction. Rollbacks delete the tail and leave
sequences where they are, so ids drift. A position settles once `K` numbered blocks
follow it, and then never goes; above that each database may be on a fork of its own.
Database 2 may write one position wrongly or lose its leaves (`Defects`).

**Comparison.** `pc` names the next query. `ReadTip`, `Cut`, `ReadRange(d, s)` (one per
spine table, database 1 first), `Pick` (a thread takes a table), `Hash`, `ReadValue`,
`Classify`, and `QueryFails` for anything `compare_table` turns into `ERROR`. `DbStep`
interleaves the databases between any two of them. A database without a numbered block
ends the run (`get_tip` raises); a range `(0, None)` makes the query fail. `Overrides` says
when `--cutoff-block` counts as given: 0 does not.

**Localize.** Each database is a history of snapshots; `now[d]` numbers the last one seen and
only grows, so that between two queries a database may roll back, fork and grow. `Looks`
is one query of each database, in order, each on a snapshot of its own: the ranges and the
hash of a bisection window are two queries per database, the edges, thresholds and bucket
hashes one each (`From` says how far the database may have moved). Phase 1 saw the first
snapshots. `Align` and `HashBuckets` are the one-pass method with its fallback to
bisection; `Prune`, `Report` and `Split` are the three outcomes of a turn of the loop,
`Stop` its end; `SearchFails` an exception caught in `_localize_mismatch`; `CheckNullRows`
the rows without a block. The properties about moving databases speak of settled blocks:
what differs there must be found, and what is reported above them may be a fork. `Buckets`
gives the edges that survive the alignment as the one set that keeps to the rule of the
loop (`Keeps`), in ascending order, and `Ascending` is `sorted()`.

What snapshots may hold is `DatabasesAssumption`: columns have their types (`WellTyped`), ids
grow along the chain (`InChainOrder`), a foreign key points at a row of the same block, an
epoch boundary block holds no transactions and has a numbered block before it (`Linked`),
settled rows are the same in every snapshot of a database (`Settles`), what a later snapshot
adds has ids above all given out before (`NeverReused`), and each settled numbered block is
in one database at least. `DbSync` shows how a database comes to keep to these, but for the
epoch boundary blocks, which have no transactions on Cardano's chain and end an epoch that
has blocks, and the last, which says that the chain was synchronised at all. Block numbers
on the chain grow without a gap (`LocalizeAssumption`). `tied` says whether content tells a row's place on the chain
(`TellsPlace`), as that of most tables does, whose natural keys lead to a block.

**EpochSync** is external as well. A database is a position on a chain (with the fork it
may have left for), and every row follows from that: `Decided` is the epoch in which
db-sync decided a proposal, `Spent` the transaction that spent an output, `Stage` how far
the rewards of an epoch have come, and the genesis committee is written at one boundary. Only
what was ever `applied` stays through a rollback, and with it the objects of an accumulator
(`Seen`).

**LateRows.** `pc` names the next query and the database it goes to: `ReadTip`, `Hash`,
`Classify`, `Stream`, `Conclude`. `Selected` is `bound_predicate` with the cap on lifecycle
epochs; id ranges are taken as exact there, which is what `Comparison` shows. `DbMoves`
is enabled before the run, and during it when `moving`.

**Verify.** `open` says whether a generator holds its connection, `taken` how far it has
been read, `pulls` which `next()` comes next. `Same` and `OnlyIn(d)` are the branches of
the merge; the two loops at its end are `OnlyIn` with the other stream exhausted. A stream
that fails (`StreamFails`) has closed its own connection, or not: its rollback comes before
the close and may raise, and so may the statement after the connect. The other stream stays
as it is. What is open then is closed when the exception that holds it is dropped
(`DropStream`).

**Introspection.** A catalogue holds the columns of every relation and which of them are
base tables. `Introspect` keeps the base tables; `CommonTables`, `CommonColumns`,
`OnlyInDb`, `ExtraColumns` and `EpochNote` are what `main` and `plan_table` derive from two
of them.

**Planning.** `todo` holds the shared columns that the loop has still to look at, `Current` the
foremost of them in alphabetical order (`ColumnOrder`); `frames` is the recursion of
`natural_key_exprs` (one record per call under way), `joins` the `JoinBuilder`: alias
`j3` is `joins[3]`, alias 0 is `t0`. `DropColumn`, `TranslateColumn`, `FlagUnmapped` and
`TakeColumn` are the branches of the loop (a capped lifecycle column is a taken one with
`cap`), `KeyColumn`, `KeyFollow` and `KeyReturn` those of the recursion. `GiveUp` is the
`None` that every caller passes on, up to the marker in `plan_table`. `Content` is the
row under the md5: LEFT JOINs followed along the aliases (`Match` is one ON clause), with ids
that differ between the databases. `KeyOf` is the key the deep check streams for the same row
(`key_query`): its expressions joined as text, NULL and the empty string alike (`Coalesced`), and
for committee members the text of the hand-written query (`MemberKey`), in which a proposal id
that is NULL means genesis and one that names nothing gives no text at all.
The excluded tables and the natural keys stand in `Registries` under
their own names; the anchor of a plan is in `SpineRanges`.

**CompareRun.** `main` is where `main()` is, `stage` where each thread's `work()` is,
`future` and `result` what tasks left. The pool's queue is a set,
from which a thread takes the table that comes first in the plan (`Earlier`, `Heads`). What `compare_table` returns is any result it can
return; `Comparison` and `LateRows` say which. `chosen` is what `--tables` leaves, `report`
the JSON file with its results; it may fail to open, or break off. A connect is two
statements, so `Connected` takes a thread from `connect1` over `set1`, `connect2` and `set2` to
`compare`, and `ConnectFails` may stop it at any of the four. `leaked` counts the connections kept
alive by the frames in a failed future's traceback: one or both when `SET work_mem` raises or the
second connect fails, so that phase 1 can hold more than the two per worker of docs/11:150.
`verified` holds the verdict of the deep check on each table it looked at.

## Runs

| Run | Question | Bounds |
|---|---|---|
| `comparison_live` | Is a verdict true while both databases move? | 5 positions (genesis, block 1, epoch boundary, blocks 2 and 3), `K` = margin = 1, one rolled-back block per database, `--block-range` absent or 1:2, tables `leaf` and `owner` |
| `comparison_rest` | And at rest without a margin, for all kinds of table, cutoffs and windows? | same chain, margin 0, `--cutoff-block` absent, 0 or 2, `--block-range` absent or 2:3, wrong or lost rows |
| `localize` | Does phase 2 find every settled difference, in order, or say that it stopped; do buckets mean the same blocks; does it end and keep the promise of `Localization`? | blocks 0..6 at rest, windows of one or two blocks, at most 1 or 2 found, up to three faults of three kinds, two of which may make up for each other, contents that tell their place and that do not; pairs of moving databases with up to three snapshots each |
| `verify` | Is the merge exact, with repeated keys; does it end, with every connection closed, wherever a stream fails? | all ordered streams of up to 4 keys out of 3, two examples kept |
| `planning` | Does a plan tell apart exactly the rows that differ in a column it compares, and does the key of the deep check follow the hash? Are epoch aggregates compared or noted? | 13 tables (`multi_asset` with a column outside its key) with natural keys up to three tables deep, depth budget 1, 2 and 8, both epoch schemas, 10 columns, a table, a type or a generated column that one side lacks, rows of every combination of two to four values |
| `compare_run` | Exit codes, report, connections, end of the run | 2 plain tables, 1 accumulator, three choices of `--tables`, 2 threads, every combination of options |
| `late` | Is a verdict true of rows that are written late; what can go wrong with spent outputs and accumulators? | 7 blocks in epochs 0 to 4, `K` = 1, rewards complete after 2 epochs, five tables, five pairs of margins, with and without a window, one wrong row, three moves in total |

The chain of five positions has each case the code treats differently: a block without a
number at the bottom and between two numbered ones, two transactions in a block, one
without a leaf, a fork with fewer and one with more transactions than the main branch.
With `K` = 1 a rollback can cut exactly the part above the settled one, and one deleted
block per database makes ids drift apart, up to and including an id range that would
select other rows in the other database. Seven numbered blocks let bisection split
three times, with a window of each width down to one. With two faults, a cap of two lets
the bisection finish, and a cap of one stops it with a difference left on the stack. A
database that moves shows bisection a fork in one query and not in the next. The planned tables
hold a foreign key of each kind (by name, by table, unmapped, unregistered, ambiguous,
shared target by two paths, beyond the budget), and the objects they reference differ in
one part of their key at a time, so that a lost part is noticed. Two threads and three tables let tasks overlap, wait and
fail in every order. Three moves let a database cross a boundary, roll back over it and
cross it on the fork, before the tips are read, between the tips and the hashes, or
between the hashes and the streams.

Deadlock is not checked in the `Comparison` runs, where a finished run simply stops;
the other modules have a `Finished` step, and there TLC looks for deadlock.

Properties worth reading first: `WindowExact`, `VerdictIsTruth`, `NoFalseAlarm`
(`Comparison`); `VerdictFollowsChain`, `NeitherMeansForked` (`LateRows`); `RestAgrees`,
`DroppedAgree`, `BucketsAlign`, `KeepsPromise` (`Localize`); `CountsExact` (`Verify`); `PlanTells`, `KeyTells`
(`Planning`); `ExitCodeTrue` (`CompareRun`).

`Comparison` states its properties under `Trusted`, what the documentation asks of the
person who runs it: the margin is at least the depth of the deepest rollback and both
tips are beyond it (`MarginKept`), or the databases stand still. `LateRows` adds what the
epoch margin must cover (`EpochsHeldBack`): `Lag` epochs for rewards, and one more for
rewards, proposals and the genesis committee if db-sync runs during the comparison, because
a database may roll back over the boundary whose epoch was read as its tip. Each of
these is needed: with one epoch less, or without the other parts of `Trusted`, TLC finds a false
verdict. So the default `--epoch-margin 2` is just enough for databases that stand still,
and leaves no room for a rollback across an epoch boundary while db-sync runs. That an epoch is
longer than the deepest rollback is an assumption (`LongEpochs`), true of every Cardano network.

### Disagreements with the documentation

Five runs check a sentence of the documentation or of the program's own text that the
code does not keep, and end in a counterexample. Each has the bounds of the passing run of
its module, or smaller ones.

| Run | Text | What the code does |
|---|---|---|
| `localize_genesis` | docs/05:192, a real mismatch gets its windows | bisection asks by `block_no`, so rows of genesis and epoch boundary blocks are in no window |
| `planning_drift` | docs/09:13 and planning.py:45, only shared columns are read | a foreign key inside a natural key is joined on without a look at the other schema |
| `compare_run_abort` | docs/11:181, a bad table never aborts the others | a failing connect in a thread drops all results |
| `late_superset` | cli.py:85-86 and docs/06:622, a superset is purely a tip gap | a lost row gives a clean superset, also with equal tips, and exit code 0 |
| `late_window` | docs/05:185 and docs/05:75, MATCH means identical data and tables without blocks are skipped in a window | they get MATCH over no rows at all |

Met while modelling, without a run of their own, because each is one condition or one assignment
that the code spells out:

* `main` asks whether `--cutoff-block` is true (`cli.py:229`), so `--cutoff-block 0` counts as not
  given and the run goes up to the tips less the margin; docs/05:104 and docs/05:230 have it compare
  blocks 0 to N. `comparison_rest` passes 0 and takes it as the code does.
* An accumulator that differs at equal counts gets neither phase 2 (`cli.py:326-331`) nor the deep
  check (`cli.py:353-354`), although docs/05:192 has phase 2 follow "any real mismatch". The run still
  fails, with exit code 1 (`ExitCodeTrue`).
* The verdict of the deep check has no part in the exit code (`cli.py:387`): two key sets of which
  neither is within the other are "a real difference to investigate" (docs/06:625), and docs/05:241
  gives exit code 1 to real discrepancies, but a run with nothing worse ends with 0.
* `merge_compare` counts a key as often as it comes, so a key that one database has once more is
  "only there": duplicate keys are reported as a clean superset, never as the identical key sets
  that verify.py:135 expects of them. Identical key sets after a count difference mean rather that a
  database caught up between phase 1 and the streams.
* Most keys of the deep check are the natural key and leave out other hashed columns
  (`multi_asset.fingerprint`): a row that is wrong in one of those has the key of the right one,
  so a database with "nothing the ahead DB lacks" (docs/06:588-590) may lack the row as it should be.
* The loop over the columns drops generated ones (`planning.py:79`, as docs/06:141 says), the choice of
  the value column does not look (`planning.py:124-133`): a generated one would be summed. No schema
  of today has one.
* docs/07:157 says that a stretch with equal hashes matches. Where the hashed columns do not lead to
  a block (`ma_tx_out` without its `tx_out_id`), two differences in it may cancel out. `DroppedAgree`
  says what holds all the same.
* docs/11:192 says that the deep check forces a read-only transaction, but the setting is made when
  that transaction has begun; docs/09:93 suggests `--cutoff-block` to be strict about accumulators,
  which are compared whole all the same; and docs/05:238-244 reserve exit code 2 for a run that could
  not be done, while one that ends in a traceback (`Crash`, `RaiseAfterPool`, a report that cannot be
  written) has exit code 1, that of a discrepancy.

### Fairness

`Comparison` and `LateRows` have no liveness property: they are straight lines of queries, and
make no assumption about the databases. `Localize` and
`Verify` are straight-line code in one thread; weak fairness of their steps says that
a query ends, with rows, an error or a timeout, and in `Verify` also that what an exception
holds is freed once it has been handled, as CPython's reference counts do. (`Localize` writes weak fairness out as
"finished, or another step is always taken", which is the same there because some step
is possible until it has finished.) `CompareRun` assumes weak fairness of the main
thread and of each pool thread: operating system threads are scheduled, and every
connect and query ends. No strong fairness is needed: no thread's step is ever disabled
by another one's, except by taking the last task.

## Proofs

Every theorem is about a specification as the runs check it, for every value of its constants
that the named assumptions allow: `ASSUME`s of `SpineRanges`, `DbSync`, `Comparison`,
`EpochSync`, `LateRows`, `CompareRun`, `Verify`, `Localize` and `Planning`, which TLC evaluates in the runs. A constant without
an assumption (the bounds on deletions, for one) may be anything.

| Module | Theorem | Property for all chains, tables, streams, threads |
|---|---|---|
| `ComparisonProofs` | `Invariance`, `TypeCorrect`, `WindowsStayExact`; `AnswersInvariant`, `VerdictsAreTrue`, `NoFalseAlarms`, `ValueProofsAgree` | `IInv`, `TypeOK`, `WindowExact`; `AnswerInv` and `ChainTold`, `VerdictIsTruth`, `NoFalseAlarm`, `ValueProofAgrees` |
| `LateRowsProofs` | `RunInvariance`, `LateTypesHold`; `HashInvariance`, `VerdictsFollowChain`, `OnlySpentLater`; `MintInvariance`, `OnlyForksDiverge` | `RunInv`, `TypeOK`; `HashInv` and `SpentInv`, `VerdictFollowsChain`, `SpentLaterOnly`; `AppliedInv` and `MintInv`, `NeitherMeansForked` |
| `LocalizeProofs` | `LocalizeInvariance`, `LocalizeTypesHold`, `NothingIsLost`, `LowestIsFirst`, `BucketsLineUp`, `NeitherResultHides` | `LocalizeInv`, `TypeOK`, `RestAgrees`, `LowestFirst`, `BucketsAlign`, `NeitherHidesTheOther` |
| `BucketProofs` | `BucketInvariance`, `BucketsMissNothing`; `HoldInvariance`, `PromiseKept`; `DropInvariance`, `DroppedIsAlike` | `BucketInv`, `BucketsSeeAll`; `HoldInv` and `AlignedInv`, `KeepsPromise`; `DropInv`, `DroppedAgree` |
| `VerifyProofs` | `VerifyInvariance`, `VerifyTypesHold`, `CountsAreExact`, `VerdictsAreSound`, `NoStreamIsLeft` | `VerifyInv`, `TypeOK`, `CountsExact`, `VerdictSound`, `NoStreamLeft` |
| `PlanningProofs` | `PlanInvariance`, `TypeCorrect`, `EpochsCovered`; `NeverTooDeep`; `PlanCorrect`, `KeysCorrect` | `PlanInv`, `TypeOK`, `EpochsNotSilent`; `HeightInv`; `PlanTells`, `KeyTells` |
| `CompareRunProofs` | `RunInvariance`, `RunTypesHold`, `ExitCodesAreTrue`, `ConnectionsAreBounded`, `ReportsAgree` | `RunInv`, `TypeOK`, `ExitCodeTrue`, `ConnectionsBounded`, `ReportAgrees` |

Every module has an inductive invariant, made of named parts; the properties follow from it.

### Id ranges (`IInv`)

`WindowExact` is not inductive: it says nothing of the rows a range is computed from.
`IInv` adds what it takes:

* `DbTypes`, `ToolTypes`: types;
* `GoodRows` (in `DbGood`): ids are below the sequence, never decrease along the chain, neither
  do foreign keys along the ids, a foreign key points at a row of the same position, and
  every position up to the tip has its block;
* `GoodSettled` (in `DbGood`): settled positions are below the tip, and whatever lies `K`
  numbers under a block that is present is settled;
* `TipPromise`, `CutFromTips`: once a tip `n` has been read, everything up to `n - K` stays settled,
  and the cutoff is computed from the two tips;
* `RangesBelow`: a range ends below every id the sequence has still to give;
* `RangesExact`: `WindowExact` itself.

From these, `WantedCovered` shows that in a trusted run the wanted positions are settled in
both databases (or nothing moves). The step cases are then: an append adds rows above
every id in a range and outside the wanted positions; a rollback removes rows above every
settled position; a query reads rows whose order is known, and the lemmas `MinmaxExact`,
`BlockRangeExact` and `ChildRangeExact` say that its answer encloses exactly the rows of a
convex set of positions.

### Verdicts (`AnswerInv`, `ChainTold`)

`AnswersTrue` says that in a trusted run an answer read earlier is the answer that the wanted
rows of its database would give now. That takes `WindowExact` (a query selects those rows)
and that an append or a rollback leaves them alone (`ChosenStays`). `Course` ties status,
answers and `pc`. `VerdictIsTruth` follows because equal set hashes mean as many
rows of each content. `ValueProofAgrees` needs sums: the value aggregate of a set of rows
depends only on how many it has of each content (`SumByClass`), so equal hashes
give equal values (`EqualHashEqualValue`).

`NoFalseAlarm` needs the chain as well. `ChainTold` says that a database holds exactly what
its branch and its defect put at each position, each content once. Settled positions are
on the main branch in both databases, so without a defect among the wanted positions both
have the same contents there (`SettledAlike`).

### Late rows (`RunInv`, `HashInv`, `MintInv`)

`RunInv` says where run and databases are. Its part that matters is `PlaceInv`: a database is at
most `K` blocks below where it ever was, and a fork no longer than that. With `TipInv`
(a tip read is one the database reached) it gives what a trusted run may rely on later:

* `BlocksSettled`: the blocks within the boundary are on the main branch in both databases,
  and stay there;
* `EpochsSettled`: so are the boundaries of all epochs up to the cutoff epoch. Here the extra
  epoch of a moving database is spent: a rollback may cross the boundary that was read as
  the tip, but by `LongEpochs` not the one before it;
* `RewardsComplete`: the rewards of those epochs have reached their last stage.

`HashInv` then says that a hash, once read, is `Damaged(d, Clean)`: rows that the main branch
determines, and what the defect makes of them. Both databases have the same `Clean`, so
the verdict tells the defect (`DamageShows`), which is `VerdictFollowsChain`. For tx_out the
rows depend on how far spending is known; `SpentInv` says that without a defect in scope they
are those of all outputs of the main branch, and that the one thing left open is a spending
above the boundary. So counts agree, and a difference shows an output spent beyond it.

`MintInv` needs nothing of margins. As long as no fork has entered an object, what was
hashed or streamed are the objects of the main branch up to some block (`AppliedInv`: the
blocks of the main branch are applied in order, none left out). Of two such
sets one contains the other, whichever was read first and whatever happened in between; equally
many objects are then the same ones, and the deep check cannot say "neither".

This proof corrected the model. `NeitherMeansForked` used to ask whether a database holds an
object that the main branch never brings. That is too little to ask: a fork may bring early
what the main branch brings later, which also sets two databases apart, in a way the chain of
the run did not show. The model now keeps the blocks applied, and `FromFork` asks whether a
block of a fork brought anything. The assumptions became explicit as well: proposals are
decided at the boundary of an epoch, rewards are not complete before the next one (`Lag` at
least 1), and a defect is one of a row that the main branch has.

### Phase 2 (`LocalizeInv`, `BucketInv`)

`SettledWindow` is the main lemma: what four queries select for a settled window, each from a
snapshot of its own, are the same rows whatever the snapshots, because the ranges have
settled rows at both ends. `RowsHeld` says which places those rows are from. The invariant:

* `InputInv`, `CourseInv`, `WindowInv`: types, and where the search is;
* `OrderInv`: windows found ascend, are narrow and lie below all on the stack;
* `DifferInv`: a settled window found differs for every choice of snapshots, not only for the
  ones its queries saw;
* `CoverInv`: no number at which settled rows differ leaves the stack but for the windows
  found. A pruned window cannot hold one, since equal hashes of tied contents mean
  equal hashes of the rows at each number (`SamePartSameHash`), for settled rows also when a
  query sees more;
* `NullInv`: the rows without a block.

While this was proved the model turned out to be wrong about contents that do not tell their
place: there a row lost at one block can be made up for by one too many at another, a
stretch with both has equal hashes, and bisection and buckets drop it. `RestAgrees` and
`BucketsSeeAll` are therefore about tied contents, and the run has
such compensating faults among its cases. For all contents there is `DroppedAgree`: the rows under
numbers that are no longer in any window, taken together, hash alike, so what is left differs as much as
the whole did. `DropInv` says so of every turn. A settled window selects exactly the rows that carry
its numbers (`WindowNumbers`), no other window has one of its numbers (`TopAlone`), and so a window that
is dropped adds sets with one hash to sets with one hash, and nothing twice (`AlikeTogether`). The table
`block` is left out: an epoch boundary block has no number and belongs to a window or to none, depending on
where the halves meet.

`BucketsAlign` follows from where a threshold is: the first row of a spine at or
after an edge has the least position that reaches the edge (`BoundaryReached`), in both
databases.

`BucketInv` says that what the buckets found are the windows of those buckets that
differ for some snapshots. `BucketsSeeAll` then has three cases (`PlaceFound`): a place with
a number, or without one after the first number, is in the bucket of the last number at
or before it (`PlaceBucket`), whose thresholds are on the same side of it in both databases; a
place before all numbers is in bucket 0; and an epoch boundary block that comes just before
an edge is told by the block of its last number, which both databases have, or which differs
itself.

### Phase 2 implements its promise (`PromiseKept`)

`Localization` speaks of no query: a list grows by windows that hold a difference of settled
rows or reach beyond them, in ascending order, with nothing that differs left out below the
last of them; a list that claims to be complete leaves nothing out at all. `KeepsPromise` is
`Promise!Spec` under the mapping in `Localize`. The proof takes, besides `LocalizeInv`:

* `HoldInv`: everything found holds a difference or reaches beyond what is settled. If two
  sets of rows hash differently, their rows at some place do (`SameParts`); the rows of
  a window are at places between its numbers (`WindowSpans`). The one place that a window may
  cut off is an epoch boundary block next to a block that a database lacks, and then that
  block is the difference (`WindowWithin`);
* `AlignedInv`: the thresholds of the buckets come from snapshots no newer than the last query. A
  threshold may be the id of a row that was rolled back since; because no id is given out
  twice (`NeverReused`), it still cuts the newer rows where it cut the older ones, so that the
  rows of a bucket are at places of its window (`BucketPlaces`, `BucketWithin`);
* `NumberFound`: buckets miss no number, even one that only one database has settled.

Order and completeness of the bisection's list come from `OrderInv` and `CoverInv`
(`ReportGood`, `StopComplete`), those of the buckets' list from `BucketsAscend` and
`NumberFound` (`HashGood`). Then each action is a step of the promise (`Report` finds, `Stop` and
`HashBuckets` conclude, `SearchFails` fails) or leaves what it speaks of unchanged
(`Resting`).

### Deep check (`VerifyInv`)

The counts are exact for the keys dealt with because of `Behind`: a key that one prefix has more
often than the other is below every key that the other stream has still to give, which holds as streams are ordered, and so nothing to come can make up for it. With both
streams exhausted the counts are the differences of the whole bags, and the verdict is about
them. `NoStreamLeft` says that a verdict is over streams that were read to their end and
closed; it takes the part of the invariant by which a stream without a key in hand, once
begun, is closed. Where a stream fails, connections may stay open for a while: that they do not
stay so for good is liveness (`Termination`), which TLC checks.

### The run (`RunInv`)

`RunTypes`, `PoolInv` (which task is waiting, running, returned or failed, and which thread
holds which connections), `MainInv` (what the main thread has collected at each point),
and `ExitInv` (what exit code and report are made of). `ConnectionsBounded` sums connections
over threads and failed tasks: each thread has at most two, and so has each failed task.

### The plan (`PlanInv`, `HeightInv`)

A finished plan is a flat list of expressions and joins; that they still spell out whole natural
keys has to be carried along the recursion that made them. `PlanInv` does so with two
sets of aliases that the program never computes:

* `PlanTypes`, `CourseInv`: types, and what is still empty where the planner is; a join's parent
  comes before it;
* `ColumnsInv`: there is a set `S` of aliases that are spliced in. For each of them, every part of
  its natural key has its expression in the hash, or a further alias of `S` (`Spliced`), and
  each leads back to a column that is translated and not skipped (`RootOf`). Each column
  looked at is in the hash as it is, has its alias in `S`, or is named in `skipped_cols`
  (`SeenInv`), and the hash holds nothing else (`ExprsInv`). A key that is given up leaves its joins,
  but none of its aliases comes into `S`;
* `KeyInv`: each call of `natural_key_exprs` under way is for the part that its caller has come to
  (`CallsInv`), and a set `U` does for the key collected so far what `S` does for the hash
  (`UnderWay`). When the outermost call returns, `U` and its alias join `S`;
* `JoinsInv`: every join follows a foreign key of the table or of a natural key.

An alias may be handed out a second time while it is in `S` already, since `JoinBuilder` knows
it; that does no harm because what `S` needs is only ever added to.

`HeightInv` weighs a call's depth against how far natural keys still lead: at most three tables,
against a budget of eight. So of a table that is no giant, a foreign key is skipped only
because its target has no natural key.

The properties then speak of a finished plan (`FinishedIs`). `JoinedObjects` is defined along the
joins because parents come first (`ObjectsIs`). That equal rows have equal contents goes down the joins
(`MeantTells`): if two rows name the same object, every further alias joins the same one,
under whichever ids. The converse goes up (`ContentTells`): aliases with equal keys join
the same object, because the plain parts are in the content, the foreign keys are equal by the
induction, and a natural key tells one object from another, and from none (`SameObject`).
`KeyTells` says of an accumulator whose key columns the hash reads as well (`KeysRead`) that equal
contents have equal keys: the key has no expression that is not in the content (`KeyCompared`,
`SameKey`). The converse, that equal keys mean equal contents, is claimed for committee members
only, whose hand-written query has every column; it finds back committee and member
(`MemberTold`, `FindTells`, `CommitteeTells`). For other accumulators it is false: two rows of
`multi_asset` that differ in `fingerprint` have one key. `PlanTells` is proved without its premise `SharedRead`, which says only
that the databases accept the query at all.

What the proofs assume, none of which the code checks: natural keys are keys and their plain
parts are not NULL (`ObjectsAssumption`), as db-sync's unique constraints have it; foreign keys
name objects, but for one value at most per column that names nothing (`RowsAssumption`); and
a schema has the epoch aggregates in a table or else in `epoch_finalized` (`CatalogsAssumption`).
A dangling value joins to NULL whatever it is, so with two of them
a hash could not tell their rows apart. These assumptions
used to be implicit in the values that the run gave to the constants. The proof also
made the depth budget of ordinary tables, which was a constant of the run, the program's own
8 (`NormalMaxDepth`): with a budget of 1 or 2 `NeverTooDeep` is false.

### What is only model-checked, and why

* Liveness (`Termination` of `Localize`, `Verify` and `CompareRun`): out of the prover's reach.
* The five properties that runs refute have no theorem, of course.

What these properties leave open, so that nobody reads more into them:

* Differences that make up for each other. `RestAgrees`, `BucketsSeeAll` and the completeness in
  `Localization` are about contents that tell their place; without that, a row lost at
  one block and one too many at another can hide each other from any window that holds both. What
  the bisection drops is then still alike as a whole (`DroppedAgree`), so whatever else differs is
  left to be found; the blocks of the two are in no window.
* Columns of a natural key that one schema lacks. `sql.py:99-101` leaves such a column out of the
  key; only the plan of the table it belongs to names it (`extra`). `PlanTells` claims that equal
  contents mean equal rows only where all columns of the keys are shared (`KeysShared`).
* Accumulators in the deep check, beyond what `KeyTells` says: rows that differ in a hashed column
  outside their key have one key.

What the proofs take from the library are facts about finite sets, functions and sequences,
and that the order of the naturals is well-founded. The library's induction theorems take
an operator and cannot be instantiated here; `NatSetInduction` states induction for a set of
numbers instead, and `SumTheorems` derives the laws of sums (`SumFunctionOnSet`, and
cardinalities as sums) from it.

## Not modelled, and why

* `indexed_columns` and the note on anchors without an index: about speed.
* Declarations of the arguments to argparse, plan printing (`_print_plan`), labels and the
  wording of summary and report: text without state.
* The entries of `registries.py` that repeat a kind already in the excerpt.
* `Verify` and `Comparison` in one model: the merge is exact for any two streams, and
  `LateRows` says what two streams of moving databases can hold.
* md5 collisions and the 60-bit truncation of `SETHASH_SELECT`: a probability, not a
  behaviour; the set hash is idealised.
* The text of SQL statements: each is modelled by what it selects.
* Parallel plans, planner choices, temporary disk: performance.

## Plan

Done: `SpineRanges`, `DbSync`, `Comparison` with its proofs, `Buckets`, `Localization`,
`Localize` at rest and on moving databases, `Verify`, `CompareRun` with its arguments and
report, `Registries`, `Introspection`, `Planning` with the keys of the deep check,
`EpochSync`, `LateRows`. Nothing of weight is left to model.

Proved: every safety property of the passing runs, the refinement `KeepsPromise` included. What
is left is what the prover cannot do, liveness, and what would extend the scope: entries of
`registries.py` beyond the excerpt, over which the proofs about natural keys would have to
be run again (`NaturalKeys` and `MemberTables` are the lemmas that look at them).
