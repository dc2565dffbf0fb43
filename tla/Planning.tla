------------------------------ MODULE Planning ------------------------------
(***************************************************************************)
(* The plan of one table (planning.plan_table): which columns the hash     *)
(* covers, column by column, and the natural keys that stand in for        *)
(* foreign keys (sql.natural_key_exprs, sql.JoinBuilder), part by part,    *)
(* under the depth budget and for two schemas that may differ; and the     *)
(* keys of the deep check, which name the same objects (verify.py).        *)
(***************************************************************************)
EXTENDS Introspection, Integers, FiniteSets, SequencesExt

CONSTANTS
  PlannedTables,  \* tables to plan
  ColumnOrder,    \* all column names in alphabetical order
  Catalogs,       \* pairs of catalogues to try
  GiantDepths,    \* values of --giant-fk-depth to try
  CutoffEpoch,    \* lifecycle_cutoff_epoch
  EmptyText,      \* the text of no characters
  Objects,        \* table -> its rows by name, foreign keys naming rows
  Rows            \* planned table -> rows to tell apart

(***************************************************************************)
(* The accumulators that the deep check has a key for: those with a        *)
(* natural key of plain columns only, and the ones with a query of their   *)
(* own; and the columns that make up the key.                              *)
(***************************************************************************)
VERIFY_KEY_QUERIES == {"committee_member"}

Keyed(t) ==
  \/ t \in VERIFY_KEY_QUERIES
  \/ t \in DOMAIN NATURAL_KEYS /\ \A part \in ToSet(NATURAL_KEYS[t]) : part.to = None

KeyColumns(target) == {part.col : part \in ToSet(NATURAL_KEYS[target])}

RowKey(t) ==
  IF t \in VERIFY_KEY_QUERIES THEN {"committee_id", "committee_hash_id", "expiration_epoch"}
  ELSE KeyColumns(t)

ASSUME PlanningAssumption ==
  /\ None \notin Int /\ None \notin DOMAIN NATURAL_KEYS
  /\ ColumnOrder \in Seq(ToSet(ColumnOrder))
  /\ GiantDepths \subseteq Nat /\ CutoffEpoch \in Nat
  /\ PlannedTables \subseteq DOMAIN Rows
  /\ \A c \in Catalogs : DOMAIN c = DB

(***************************************************************************)
(* Schemas: every column has its place in the order, and the epoch         *)
(* aggregates are in the table epoch or else in epoch_finalized.           *)
(***************************************************************************)
ASSUME CatalogsAssumption ==
  \A c \in Catalogs :
    \A d \in DB :
      /\ \A t \in DOMAIN c[d].columns : c[d].columns[t] \subseteq ToSet(ColumnOrder)
      /\ "epoch" \in DOMAIN c[d].columns =>
           ("epoch" \in c[d].base <=> "epoch_finalized" \notin DOMAIN Introspect(c[d]))

(***************************************************************************)
(* Objects: those that others reference are told apart by their natural    *)
(* keys, whose plain columns are never NULL.                               *)
(***************************************************************************)
ASSUME ObjectsAssumption ==
  \A t \in DOMAIN NATURAL_KEYS :
    /\ t \in DOMAIN Objects
    /\ DOMAIN Objects[t] \subseteq Int
    /\ \A o \in DOMAIN Objects[t] :
         /\ Objects[t][o] # None
         /\ \A part \in ToSet(NATURAL_KEYS[t]) :
              IF part.to = None THEN Objects[t][o][part.col] # None
              ELSE Objects[t][o][part.col] \in DOMAIN Objects[part.to] \cup {None}
         /\ \A p \in DOMAIN Objects[t] :
              (\A col \in KeyColumns(t) : Objects[t][o][col] = Objects[t][p][col]) => o = p

(***************************************************************************)
(* Rows have the columns of every schema; lifecycle columns hold epochs;   *)
(* and a foreign key holds the name of an object, or else the one value    *)
(* that names nothing.                                                     *)
(***************************************************************************)
Dangling(t, row, col) == row[col] \notin DOMAIN Objects[ResolveFk(t, col)]

ASSUME RowsAssumption ==
  \A t \in DOMAIN Rows : \A r \in Rows[t] :
    /\ \A c \in Catalogs, d \in DB : t \in DOMAIN c[d].columns => c[d].columns[t] \subseteq DOMAIN r
    /\ \A col \in DOMAIN r :
         t \in DOMAIN LIFECYCLE_EPOCH_COLUMNS /\ col \in LIFECYCLE_EPOCH_COLUMNS[t] =>
           r[col] \in Nat \cup {None}
    /\ \A col \in DOMAIN r : ResolveFk(t, col) \in DOMAIN NATURAL_KEYS =>
         /\ r[col] \in Int \cup {None}
         /\ \A q \in Rows[t] : Dangling(t, r, col) /\ Dangling(t, q, col) => r[col] = q[col]

VARIABLES
  table,      \* the table planned
  catalogs,   \* DB -> catalogue
  full,       \* --full
  giantDepth, \* --giant-fk-depth
  pc,         \* "classify", "columns", "key" or "done"
  kind,       \* kind of the plan
  todo,       \* shared columns still to look at
  frames,     \* calls of natural_key_exprs under way, the innermost last
  key,        \* expressions of the key so far
  joins,      \* the joins of the JoinBuilder; alias j is the j-th, 0 is t0
  exprs,      \* select_exprs
  skipped,    \* skipped_cols
  extra,      \* extra_cols
  nullAnchor, \* whether rows without a block are admitted
  valueCol    \* value_col

input == <<table, catalogs, full, giantDepth>>

vars == <<input, pc, kind, todo, frames, key, joins, exprs, skipped, extra, nullAnchor, valueCol>>

Common(t) == CommonColumns(catalogs, t)

IsGiant == table \in GIANT_TABLES /\ ~full

NormalMaxDepth == 8

MaxDepth == IF IsGiant THEN giantDepth ELSE NormalMaxDepth

Anchored == table \in DOMAIN ANCHORS /\ ANCHORS[table] # "accumulator"

Expr(alias, col) == [alias |-> alias, col |-> col, cap |-> FALSE]

Init ==
  /\ catalogs \in Catalogs
  /\ table \in PlannedTables \cap CommonTables(catalogs)
  /\ full \in BOOLEAN
  /\ giantDepth \in GiantDepths
  /\ pc = "classify"
  /\ kind = None
  /\ todo = Common(table)
  /\ frames = <<>> /\ key = <<>> /\ joins = <<>> /\ exprs = <<>>
  /\ skipped = {} /\ extra = {}
  /\ nullAnchor = FALSE
  /\ valueCol = None

Classify ==
  /\ pc = "classify"
  /\ kind' = CASE table \in EXCLUDED_TABLES                           -> "excluded"
               [] table \notin EXCLUDED_TABLES /\ IsGiant              -> "giant"
               [] table \notin EXCLUDED_TABLES /\ ~IsGiant /\ Anchored  -> "normal"
               [] table \notin EXCLUDED_TABLES /\ ~IsGiant /\ ~Anchored -> "accumulator"
  /\ pc' = IF kind' = "excluded" THEN "done" ELSE "columns"
  /\ UNCHANGED <<input, todo, frames, key, joins, exprs, skipped, extra, nullAnchor, valueCol>>

(***************************************************************************)
(* JoinBuilder.join: one alias for each parent alias, column and target.   *)
(***************************************************************************)
Link(parent, col, target) == [parent |-> parent, col |-> col, target |-> target]

(* Slip: the parent is left out of the key of the joins. *)
AliasOfTarget(js, link) ==
  LET same == {j \in DOMAIN js : js[j].col = link.col /\ js[j].target = link.target}
  IN  IF same = {} THEN Len(js) + 1 ELSE CHOOSE j \in same : TRUE

Alias(js, link) ==
  IF link \in ToSet(js) THEN CHOOSE j \in DOMAIN js : js[j] = link ELSE Len(js) + 1

(* Slip: a new alias is handed out and its clause forgotten. *)
JoinedNot(js, link) == js

Joined(js, link) == IF Alias(js, link) \in DOMAIN js THEN js ELSE Append(js, link)

(***************************************************************************)
(* The loop over the shared columns: surrogate and generated ones are      *)
(* dropped, foreign keys translated, unmapped ones flagged, lifecycle      *)
(* epochs capped, all others taken as they are.                            *)
(***************************************************************************)
Foremost(order, S) ==
  order[CHOOSE i \in DOMAIN order : order[i] \in S /\ \A j \in 1..(i - 1) : order[j] \notin S]

Current == Foremost(ColumnOrder, todo)

InColumns == pc = "columns" /\ todo # {}

Dropped(col) ==
  col = "id" \/ \E d \in DB : [table |-> table, col |-> col] \in catalogs[d].generated

Translated(col) == ~Dropped(col) /\ ResolveFk(table, col) # None

Unmapped(col) == ~Dropped(col) /\ ResolveFk(table, col) = None /\ LooksLikeFk(col)

Lifecycle(col) == table \in DOMAIN LIFECYCLE_EPOCH_COLUMNS /\ col \in LIFECYCLE_EPOCH_COLUMNS[table]

DropColumn ==
  /\ InColumns
  /\ Dropped(Current)
  /\ todo' = todo \ {Current}
  /\ UNCHANGED <<input, pc, kind, frames, key, joins, exprs, skipped, extra, nullAnchor, valueCol>>

TranslateColumn ==
  /\ InColumns
  /\ Translated(Current)
  /\ LET link == Link(0, Current, ResolveFk(table, Current))
     IN  /\ joins' = Joined(joins, link)
         /\ frames' = <<[target |-> link.target, alias |-> Alias(joins, link), part |-> 1, depth |-> 1]>>
  /\ key' = <<>>
  /\ pc' = "key"
  /\ UNCHANGED <<input, kind, todo, exprs, skipped, extra, nullAnchor, valueCol>>

FlagUnmapped ==
  /\ InColumns
  /\ Unmapped(Current)
  /\ skipped' = skipped \cup {<<Current>>}
  /\ todo' = todo \ {Current}
  /\ UNCHANGED <<input, pc, kind, frames, key, joins, exprs, extra, nullAnchor, valueCol>>

TakeColumn ==
  /\ InColumns
  /\ ~Dropped(Current) /\ ~Translated(Current) /\ ~Unmapped(Current)
  /\ exprs' = Append(exprs, [Expr(0, Current) EXCEPT !.cap = Lifecycle(Current)])
  /\ todo' = todo \ {Current}
  /\ UNCHANGED <<input, pc, kind, frames, key, joins, skipped, extra, nullAnchor, valueCol>>

(***************************************************************************)
(* natural_key_exprs.  A call that returns None makes all its callers      *)
(* return None, and plan_table drop the column; joins made stay.           *)
(***************************************************************************)
Frame == Last(frames)

Registered == Frame.target \in DOMAIN NATURAL_KEYS

Part == NATURAL_KEYS[Frame.target][Frame.part]

AtPart == pc = "key" /\ Registered /\ Frame.part <= Len(NATURAL_KEYS[Frame.target])

NextPart == [frames EXCEPT ![Len(frames)].part = @ + 1]

GiveUp(markers) ==
  /\ skipped' = skipped \cup markers \cup {<<Current, ResolveFk(table, Current)>>}
  /\ frames' = <<>> /\ key' = <<>>
  /\ todo' = todo \ {Current}
  /\ pc' = "columns"
  /\ UNCHANGED <<input, kind, joins, exprs, extra, nullAnchor, valueCol>>

KeyUnregistered == pc = "key" /\ ~Registered /\ GiveUp({})

KeyTooDeep ==
  /\ AtPart /\ Part.to # None
  /\ Frame.depth >= MaxDepth
  /\ GiveUp({<<Frame.target, Part.col, Part.to>>})

KeyColumn ==
  /\ AtPart /\ Part.to = None
  /\ key' = IF Part.col \in Common(Frame.target) THEN Append(key, Expr(Frame.alias, Part.col)) ELSE key
  /\ frames' = NextPart
  /\ UNCHANGED <<input, pc, kind, todo, joins, exprs, skipped, extra, nullAnchor, valueCol>>

KeyFollow ==
  /\ AtPart /\ Part.to # None
  /\ Frame.depth < MaxDepth
  /\ LET link == Link(Frame.alias, Part.col, Part.to)
     IN  /\ joins' = Joined(joins, link)
         /\ frames' = Append(NextPart, [target |-> link.target, alias |-> Alias(joins, link),
                                        part |-> 1, depth |-> Frame.depth + 1])
  /\ UNCHANGED <<input, pc, kind, todo, key, exprs, skipped, extra, nullAnchor, valueCol>>

KeyReturn ==
  /\ pc = "key" /\ Registered
  /\ Frame.part > Len(NATURAL_KEYS[Frame.target])
  /\ frames' = Front(frames)
  /\ IF Len(frames) = 1
     THEN exprs' = exprs \o key /\ key' = <<>> /\ todo' = todo \ {Current} /\ pc' = "columns"
     ELSE UNCHANGED <<exprs, key, todo, pc>>
  /\ UNCHANGED <<input, kind, joins, skipped, extra, nullAnchor, valueCol>>

(***************************************************************************)
(* The rows without a block, and the column of the value proof.            *)
(***************************************************************************)
AdmitsNullAnchor ==
  /\ table \in DOMAIN NULL_ANCHOR_BOUNDS
  /\ LET bound == NULL_ANCHOR_BOUNDS[table]
     IN  {bound.col, bound.epoch} \subseteq Common(bound.table)

ProvesValue(col) ==
  /\ ResolveFk(table, col) = None
  /\ \A d \in DB : [table |-> table, col |-> col] \in catalogs[d].numeric

ValueColumns == {c \in ToSet(VALUE_COLUMNS) : c \in Common(table) /\ ProvesValue(c)}

Complete ==
  /\ pc = "columns" /\ todo = {}
  /\ extra' = ExtraColumns(catalogs, table)
  /\ nullAnchor' = AdmitsNullAnchor
  /\ valueCol' = IF ValueColumns = {} THEN None ELSE Foremost(VALUE_COLUMNS, ValueColumns)
  /\ pc' = "done"
  /\ UNCHANGED <<input, kind, todo, frames, key, joins, exprs, skipped>>

Planned == pc = "done" /\ UNCHANGED vars

Next ==
  \/ Classify
  \/ DropColumn \/ TranslateColumn \/ FlagUnmapped \/ TakeColumn
  \/ KeyUnregistered \/ KeyTooDeep \/ KeyColumn \/ KeyFollow \/ KeyReturn
  \/ Complete
  \/ Planned

Spec == Init /\ [][Next]_vars
-----------------------------------------------------------------------------
(***************************************************************************)
(* What the plan makes of a row.  The two databases store the same objects *)
(* under different ids; a foreign key holds the id of the object it names. *)
(***************************************************************************)
Id(d, object) == IF d = 1 THEN object ELSE -object

ParentTable(j) == IF joins[j].parent = 0 THEN table ELSE joins[joins[j].parent].target

(***************************************************************************)
(* The object that each alias joins to a row of d, None when a LEFT JOIN   *)
(* finds nothing.                                                          *)
(***************************************************************************)
Match(d, named, target) ==
  LET match == {o \in DOMAIN Objects[target] : named # None /\ Id(d, o) = Id(d, named)}
  IN  IF match = {} THEN None ELSE CHOOSE o \in match : TRUE

JoinedObjects(d, row) ==
  LET object[j \in DOMAIN joins] ==
        LET join   == joins[j]
            parent == object[join.parent]
        IN  CASE join.parent = 0                     -> Match(d, row[join.col], join.target)
              [] join.parent # 0 /\ parent = None    -> None
              [] join.parent # 0 /\ parent # None    ->
                   Match(d, Objects[ParentTable(j)][parent][join.col], join.target)
  IN  object

UpToCutoff(value) == IF value # None /\ value > CutoffEpoch THEN None ELSE value

(***************************************************************************)
(* What d stores in a column of a row, and the values under the row's md5. *)
(***************************************************************************)
Stored(d, row, col) ==
  IF row[col] # None /\ (ResolveFk(table, col) # None \/ LooksLikeFk(col)) THEN Id(d, row[col]) ELSE row[col]

Content(d, row) ==
  LET object   == JoinedObjects(d, row)
      Value(e) == CASE e.alias = 0                               -> Stored(d, row, e.col)
                    [] e.alias # 0 /\ object[e.alias] = None     -> None
                    [] e.alias # 0 /\ object[e.alias] # None     ->
                         Objects[joins[e.alias].target][object[e.alias]][e.col]
  IN  [i \in DOMAIN exprs |-> IF exprs[i].cap THEN UpToCutoff(Value(exprs[i])) ELSE Value(exprs[i])]

(***************************************************************************)
(* The key of a row in the deep check: the columns of its natural key as   *)
(* text, if those are all plain, or for a committee member what a query of *)
(* its own finds through the ids.  NULL becomes the empty text, which      *)
(* another column could hold too; where a number is meant it cannot.       *)
(***************************************************************************)
Coalesced(value) == IF value = None THEN EmptyText ELSE value

Find(target, name) == IF name \in DOMAIN Objects[target] THEN Objects[target][name] ELSE None

(* Slip: the committee of the member is left out. *)
MemberKeyAnywhere(d, row) == <<Find("committee_hash", row.committee_hash_id), row.expiration_epoch>>

MemberKey(d, row) ==
  LET committee == Find("committee", row.committee_id)
      proposal  == IF committee = None THEN None
                   ELSE Find("gov_action_proposal", committee.gov_action_proposal_id)
      maker     == CASE committee = None -> <<"missing-committee">>
                     [] committee # None /\ proposal # None ->
                          <<Find("tx", proposal.tx_id), proposal.index>>
                     [] committee # None /\ proposal = None ->
                          IF committee.gov_action_proposal_id = None THEN <<"genesis">> ELSE <<None, None>>
      quorum    == IF committee = None THEN <<>>
                   ELSE <<committee.quorum_numerator, committee.quorum_denominator>>
  IN  <<maker, quorum, Find("committee_hash", row.committee_hash_id), row.expiration_epoch>>

HasKey == Keyed(table)

KeyOf(d, row) ==
  IF table \in VERIFY_KEY_QUERIES THEN MemberKey(d, row)
  ELSE [i \in DOMAIN NATURAL_KEYS[table] |-> Coalesced(Stored(d, row, NATURAL_KEYS[table][i].col))]

(***************************************************************************)
(* What the comparison is about: the columns of either schema, but for the *)
(* ids, the generated ones, and those the report names as skipped or as of *)
(* one schema only; a foreign key stands for the object it names.          *)
(***************************************************************************)
ComparedColumns ==
  {c \in UNION {Introspect(catalogs[d])[table] : d \in DB} :
     ~Dropped(c) /\ c \notin extra /\ <<c>> \notin skipped /\ <<c, ResolveFk(table, c)>> \notin skipped}

Meant(row) ==
  [c \in ComparedColumns |-> IF Lifecycle(c) /\ row[c] \notin 0..CutoffEpoch THEN None ELSE row[c]]

KeysShared == \A t \in DOMAIN NATURAL_KEYS : KeyColumns(t) \subseteq Common(t)

SharedRead ==
  /\ \A j \in DOMAIN joins : joins[j].col \in Common(ParentTable(j))
  /\ \A i \in DOMAIN exprs :
       LET e == exprs[i] IN e.col \in Common(IF e.alias = 0 THEN table ELSE joins[e.alias].target)
-----------------------------------------------------------------------------
(***************************************************************************)
(* Types; every alias used has its LEFT JOIN, after the one of its parent  *)
(* (JoinBuilder: the text of the query is the clauses in this order).      *)
(***************************************************************************)
TypeOK ==
  /\ pc \in {"classify", "columns", "key", "done"}
  /\ kind \in {None, "excluded", "giant", "normal", "accumulator"}
  /\ pc # "key" <=> frames = <<>>
  /\ nullAnchor \in BOOLEAN
  /\ \A j \in DOMAIN joins : joins[j].parent \in 0..(j - 1)
  /\ \A e \in ToSet(exprs \o key) : e.alias \in 0..Len(joins)
  /\ \A f \in ToSet(frames) : f.alias \in 1..Len(joins)

(***************************************************************************)
(* What the normalised hash of a table is for: rows of the two databases   *)
(* that agree on every column compared have the same content whatever      *)
(* their ids, and rows that differ in one have different contents, so long *)
(* as both schemas have the natural keys in full.  A column missing from   *)
(* a natural key only makes the hash blind, it never makes equal rows      *)
(* differ.                                                                 *)
(***************************************************************************)
PlanTells ==
  pc = "done" /\ kind # "excluded" /\ SharedRead =>
    LET P == {<<Content(d, r), Meant(r)>> : d \in DB, r \in Rows[table]}
    IN  \A x, y \in P : /\ x[2] = y[2] => x[1] = y[1]
                        /\ KeysShared /\ x[1] = y[1] => x[2] = y[2]

(***************************************************************************)
(* The deep check and the hash speak of the same rows of an accumulator,   *)
(* where both read the columns of its key: what is the same to the hash    *)
(* has the same key, so that a tip gap never looks like two sets that      *)
(* diverged (verify.py:133-146); and of a committee member, while the      *)
(* schema has just those columns, the converse, for its key covers every   *)
(* column (verify.py:37-38).                                               *)
(***************************************************************************)
KeysRead ==
  /\ pc = "done" /\ kind = "accumulator" /\ HasKey /\ KeysShared
  /\ RowKey(table) \subseteq {c \in Common(table) : ~Dropped(c)}

KeyTells ==
  KeysRead =>
    LET P == {<<Content(d, r), KeyOf(d, r)>> : d \in DB, r \in Rows[table]}
    IN  \A x, y \in P :
          /\ x[1] = y[1] => x[2] = y[2]
          /\ table \in VERIFY_KEY_QUERIES /\ Common(table) \ {"id"} = RowKey(table) =>
               (x[2] = y[2] => x[1] = y[1])

(***************************************************************************)
(* Epoch aggregates that both databases hold are compared, or the note     *)
(* says that they are not (cli.py:241-258): a run across the upgrade never *)
(* reads as clean coverage of the epoch data.                              *)
(***************************************************************************)
EpochsNotSilent ==
  (\A d \in DB : "epoch" \in DOMAIN catalogs[d].columns) =>
    ({"epoch", "epoch_finalized"} \cap CommonTables(catalogs) = {} <=> EpochNote(catalogs))

(***************************************************************************)
(* plan_table's docstring: the shared columns are needed for the foreign   *)
(* key targets whose natural keys are spliced in (schema-drift safety), so *)
(* that a plan reads only columns both databases have.                     *)
(***************************************************************************)
SharedColumnsOnly == SharedRead
=============================================================================
