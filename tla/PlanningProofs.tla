--------------------------- MODULE PlanningProofs ---------------------------
(***************************************************************************)
(* Proofs about Planning, for schemas, rows and objects of any kind: every *)
(* column shared is compared or named as skipped, a plan tells apart the   *)
(* rows that differ in a column compared and no others, and the keys of    *)
(* the deep check name the same rows.                                      *)
(***************************************************************************)
EXTENDS Planning, SumTheorems, TLAPS

-----------------------------------------------------------------------------
(***************************************************************************)
(* Types and inputs.                                                       *)
(***************************************************************************)
Columns == ToSet(ColumnOrder) \cup UNION {KeyColumns(t) : t \in DOMAIN NATURAL_KEYS}

Targets == {ResolveFk(table, col) : col \in Columns} \cup DOMAIN NATURAL_KEYS

Joins == [parent : Nat, col : Columns, target : Targets]

Exprs == [alias : Nat, col : Columns, cap : BOOLEAN]

Frames == [target : Targets, alias : Nat, part : Nat, depth : Nat]

Steps == {"classify", "columns", "key", "done"}

Kinds == {None, "excluded", "giant", "normal", "accumulator"}

PlanTypes ==
  /\ catalogs \in Catalogs
  /\ table \in PlannedTables \cap CommonTables(catalogs)
  /\ giantDepth \in GiantDepths /\ full \in BOOLEAN
  /\ pc \in Steps /\ kind \in Kinds /\ nullAnchor \in BOOLEAN
  /\ todo \subseteq Common(table)
  /\ joins \in Seq(Joins) /\ exprs \in Seq(Exprs) /\ key \in Seq(Exprs) /\ frames \in Seq(Frames)
  /\ \A j \in DOMAIN joins : joins[j].parent \in 0..(j - 1)

(***************************************************************************)
(* Where the planner is, and what a plan that is finished holds.           *)
(***************************************************************************)
CourseInv ==
  /\ pc # "key" => frames = <<>> /\ key = <<>>
  /\ pc = "classify" => kind = None /\ exprs = <<>> /\ skipped = {}
  /\ pc # "classify" => kind \in {"giant", "normal", "accumulator"} \/ (kind = "excluded" /\ pc = "done")
  /\ pc # "classify" /\ kind # "excluded" => (kind = "giant" <=> IsGiant)
  /\ pc = "done" /\ kind # "excluded" => todo = {} /\ extra = ExtraColumns(catalogs, table)
  /\ valueCol # None => pc = "done" /\ kind # "excluded" /\ valueCol \in ValueColumns

(***************************************************************************)
(* A part of the natural key of the object at alias a is spliced in: a     *)
(* plain one by an expression of E, a foreign key by an alias of S.        *)
(***************************************************************************)
PartDone(a, part, S, E) ==
  IF part.to = None THEN part.col \in Common(joins[a].target) => Expr(a, part.col) \in E
  ELSE \E b \in S : joins[b] = Link(a, part.col, part.to)

Spliced(a, S, E) ==
  /\ joins[a].target \in DOMAIN NATURAL_KEYS
  /\ \A i \in DOMAIN NATURAL_KEYS[joins[a].target] :
       PartDone(a, NATURAL_KEYS[joins[a].target][i], S, E)

(***************************************************************************)
(* What has become of the columns looked at.  S is the set of the aliases  *)
(* whose objects are spliced in; each belongs to a column not skipped.     *)
(***************************************************************************)
Plain(col) == ~Dropped(col) /\ ~Translated(col) /\ ~Unmapped(col)

Taken(col) == [Expr(0, col) EXCEPT !.cap = Lifecycle(col)]

Marker(col) == <<col, ResolveFk(table, col)>>

Seen == Common(table) \ todo

SkippedInv ==
  \A x \in skipped :
    /\ Len(x) \in 1..3
    /\ Len(x) = 1 => Unmapped(x[1]) /\ x[1] \in Seen
    /\ Len(x) = 2 => Translated(x[1]) /\ x[1] \in Seen /\ x = Marker(x[1])

SeenAs(col, S) ==
  /\ Plain(col) => Taken(col) \in ToSet(exprs)
  /\ Unmapped(col) => <<col>> \in skipped
  /\ Translated(col) =>
       \/ Marker(col) \in skipped
       \/ \E a \in S : joins[a] = Link(0, col, ResolveFk(table, col))

SeenInv(S) == \A col \in Seen : SeenAs(col, S)

ExprOf(e, S) ==
  \/ e.alias = 0 /\ e.col \in Seen /\ Plain(e.col) /\ e.cap = Lifecycle(e.col)
  \/ e.alias \in S /\ e.cap = FALSE

ExprsInv(S) == \A e \in ToSet(exprs) : ExprOf(e, S)

RootOf(a) ==
  /\ joins[a].parent = 0 /\ joins[a].col \in Seen
  /\ Translated(joins[a].col) /\ Marker(joins[a].col) \notin skipped
  /\ joins[a].target = ResolveFk(table, joins[a].col)

SpliceInv(S) ==
  /\ \A a \in S : Spliced(a, S, ToSet(exprs))
  /\ \A a \in S : joins[a].parent \in S \/ RootOf(a)

ColumnsInv ==
  /\ SkippedInv
  /\ \E S \in SUBSET (DOMAIN joins) : SeenInv(S) /\ ExprsInv(S) /\ SpliceInv(S)

(***************************************************************************)
(* The calls of natural_key_exprs under way: each is for the part its      *)
(* caller has come to, and what they have passed is spliced into the key.  *)
(***************************************************************************)
Calls == DOMAIN frames

Aliases == {frames[i].alias : i \in Calls}

Passed(i) ==
  {k \in DOMAIN NATURAL_KEYS[frames[i].target] :
     k < frames[i].part /\ (i < Len(frames) => k < frames[i].part - 1)}

CallsInv ==
  /\ todo # {} /\ Translated(Current) /\ frames # <<>>
  /\ joins[frames[1].alias] = Link(0, Current, ResolveFk(table, Current))
  /\ \A i \in Calls :
       /\ frames[i].alias \in DOMAIN joins /\ frames[i].alias # 0
       /\ joins[frames[i].alias].target = frames[i].target
       /\ frames[i].depth = i /\ frames[i].part >= 1
  /\ \A i \in Calls : i + 1 \in Calls =>
       LET part == NATURAL_KEYS[frames[i].target][frames[i].part - 1]
       IN  /\ frames[i].target \in DOMAIN NATURAL_KEYS
           /\ frames[i].part - 1 \in DOMAIN NATURAL_KEYS[frames[i].target]
           /\ part.to # None
           /\ joins[frames[i + 1].alias] = Link(frames[i].alias, part.col, part.to)

PassedInv(U) ==
  \A i \in Calls : frames[i].target \in DOMAIN NATURAL_KEYS =>
    \A k \in Passed(i) :
      PartDone(frames[i].alias, NATURAL_KEYS[frames[i].target][k], U, ToSet(key))

UnderWay(U) ==
  /\ PassedInv(U)
  /\ \A a \in U : Spliced(a, U, ToSet(key)) /\ joins[a].parent \in U \cup Aliases
  /\ \A e \in ToSet(key) : e.alias \in U \cup Aliases /\ e.cap = FALSE

KeyInv == pc = "key" => CallsInv /\ \E U \in SUBSET (DOMAIN joins) : UnderWay(U)

(***************************************************************************)
(* The joins follow the foreign keys of the table and of natural keys.     *)
(***************************************************************************)
Followed(link, js) ==
  IF link.parent = 0 THEN link.target = ResolveFk(table, link.col)
  ELSE \E t \in DOMAIN NATURAL_KEYS : \E i \in DOMAIN NATURAL_KEYS[t] :
         /\ js[link.parent].target = t
         /\ NATURAL_KEYS[t][i].to # None
         /\ link.col = NATURAL_KEYS[t][i].col /\ link.target = NATURAL_KEYS[t][i].to

JoinsInv == \A j \in DOMAIN joins : Followed(joins[j], joins)

PlanInv == PlanTypes /\ CourseInv /\ ColumnsInv /\ KeyInv /\ JoinsInv

(***************************************************************************)
(* Natural keys lead through three tables at most, so that the budget of a *)
(* table that is no giant is never used up.                                *)
(***************************************************************************)
Height(t) ==
  IF t = "committee" THEN 3 ELSE IF t \in {"redeemer", "tx_out", "gov_action_proposal"} THEN 2 ELSE 1

HeightInv ==
  /\ pc = "key" /\ ResolveFk(table, Current) \in DOMAIN NATURAL_KEYS =>
       \A i \in Calls : frames[i].target \in DOMAIN NATURAL_KEYS /\ i + Height(frames[i].target) <= 4
  /\ kind # "giant" =>
       \A x \in skipped : Len(x) = 2 => ResolveFk(table, x[1]) \notin DOMAIN NATURAL_KEYS

-----------------------------------------------------------------------------
(***************************************************************************)
(* The registries.                                                         *)
(***************************************************************************)
LEMMA KeyTables ==
  ASSUME NEW t \in DOMAIN NATURAL_KEYS
  PROVE  t \in {"tx", "stake_address", "pool_hash", "multi_asset", "committee_hash", "redeemer",
                "tx_out", "gov_action_proposal", "committee"}
BY DEF NATURAL_KEYS

LEMMA NaturalKeys ==
  ASSUME NEW t \in DOMAIN NATURAL_KEYS
  PROVE  /\ Len(NATURAL_KEYS[t]) \in Nat /\ DOMAIN NATURAL_KEYS[t] = 1..Len(NATURAL_KEYS[t])
         /\ \E i \in DOMAIN NATURAL_KEYS[t] : NATURAL_KEYS[t][i].to = None
         /\ \A i \in DOMAIN NATURAL_KEYS[t] : NATURAL_KEYS[t][i].to # None =>
              /\ NATURAL_KEYS[t][i].to \in DOMAIN NATURAL_KEYS
              /\ Height(NATURAL_KEYS[t][i].to) < Height(t)
<1> USE PlanningAssumption
<1>1. CASE t = "tx"
  <2>1. NATURAL_KEYS[t] = <<Col("hash")>>
    BY <1>1 DEF NATURAL_KEYS
  <2>2. "tx" \in DOMAIN NATURAL_KEYS /\ "gov_action_proposal" \in DOMAIN NATURAL_KEYS
    BY DEF NATURAL_KEYS
  <2> QED
    BY <1>1, <2>1, <2>2 DEF Col, Fk, Height
<1>2. CASE t = "stake_address"
  <2>1. NATURAL_KEYS[t] = <<Col("hash_raw")>>
    BY <1>2 DEF NATURAL_KEYS
  <2>2. "tx" \in DOMAIN NATURAL_KEYS /\ "gov_action_proposal" \in DOMAIN NATURAL_KEYS
    BY DEF NATURAL_KEYS
  <2> QED
    BY <1>2, <2>1, <2>2 DEF Col, Fk, Height
<1>3. CASE t = "pool_hash"
  <2>1. NATURAL_KEYS[t] = <<Col("hash_raw")>>
    BY <1>3 DEF NATURAL_KEYS
  <2>2. "tx" \in DOMAIN NATURAL_KEYS /\ "gov_action_proposal" \in DOMAIN NATURAL_KEYS
    BY DEF NATURAL_KEYS
  <2> QED
    BY <1>3, <2>1, <2>2 DEF Col, Fk, Height
<1>4. CASE t = "multi_asset"
  <2>1. NATURAL_KEYS[t] = <<Col("policy"), Col("name")>>
    BY <1>4 DEF NATURAL_KEYS
  <2>2. "tx" \in DOMAIN NATURAL_KEYS /\ "gov_action_proposal" \in DOMAIN NATURAL_KEYS
    BY DEF NATURAL_KEYS
  <2> QED
    BY <1>4, <2>1, <2>2 DEF Col, Fk, Height
<1>5. CASE t = "committee_hash"
  <2>1. NATURAL_KEYS[t] = <<Col("raw"), Col("has_script")>>
    BY <1>5 DEF NATURAL_KEYS
  <2>2. "tx" \in DOMAIN NATURAL_KEYS /\ "gov_action_proposal" \in DOMAIN NATURAL_KEYS
    BY DEF NATURAL_KEYS
  <2> QED
    BY <1>5, <2>1, <2>2 DEF Col, Fk, Height
<1>6. CASE t = "redeemer"
  <2>1. NATURAL_KEYS[t] = <<Fk("tx_id", "tx"), Col("purpose"), Col("index")>>
    BY <1>6 DEF NATURAL_KEYS
  <2>2. "tx" \in DOMAIN NATURAL_KEYS /\ "gov_action_proposal" \in DOMAIN NATURAL_KEYS
    BY DEF NATURAL_KEYS
  <2> QED
    BY <1>6, <2>1, <2>2 DEF Col, Fk, Height
<1>7. CASE t = "tx_out"
  <2>1. NATURAL_KEYS[t] = <<Fk("tx_id", "tx"), Col("index")>>
    BY <1>7 DEF NATURAL_KEYS
  <2>2. "tx" \in DOMAIN NATURAL_KEYS /\ "gov_action_proposal" \in DOMAIN NATURAL_KEYS
    BY DEF NATURAL_KEYS
  <2> QED
    BY <1>7, <2>1, <2>2 DEF Col, Fk, Height
<1>8. CASE t = "gov_action_proposal"
  <2>1. NATURAL_KEYS[t] = <<Fk("tx_id", "tx"), Col("index")>>
    BY <1>8 DEF NATURAL_KEYS
  <2>2. "tx" \in DOMAIN NATURAL_KEYS /\ "gov_action_proposal" \in DOMAIN NATURAL_KEYS
    BY DEF NATURAL_KEYS
  <2> QED
    BY <1>8, <2>1, <2>2 DEF Col, Fk, Height
<1>9. CASE t = "committee"
  <2>1. NATURAL_KEYS[t] = <<Fk("gov_action_proposal_id", "gov_action_proposal"), Col("quorum_numerator"), Col("quorum_denominator")>>
    BY <1>9 DEF NATURAL_KEYS
  <2>2. "tx" \in DOMAIN NATURAL_KEYS /\ "gov_action_proposal" \in DOMAIN NATURAL_KEYS
    BY DEF NATURAL_KEYS
  <2> QED
    BY <1>9, <2>1, <2>2 DEF Col, Fk, Height
<1> QED
  BY <1>1, <1>2, <1>3, <1>4, <1>5, <1>6, <1>7, <1>8, <1>9, KeyTables

-----------------------------------------------------------------------------
(***************************************************************************)
(* The columns, and the first of a set of them.                            *)
(***************************************************************************)
LEMMA ForemostIn ==
  ASSUME NEW T, NEW order \in Seq(T), NEW S, S \cap ToSet(order) # {}
  PROVE  Foremost(order, S) \in S \cap ToSet(order)
<1> DEFINE I == {i \in 1..Len(order) : order[i] \in S}
<1>1. DOMAIN order = 1..Len(order) /\ Len(order) \in Nat
  OBVIOUS
<1>2. I \in SUBSET Nat /\ I # {}
  BY <1>1 DEF ToSet
<1>3. PICK m \in I : \A n \in I : m <= n
  BY <1>2, NatLeast
<1>4. m \in DOMAIN order /\ order[m] \in S /\ \A j \in 1..(m - 1) : order[j] \notin S
  BY <1>1, <1>3
<1> HIDE DEF I
<1> QED
  BY <1>4 DEF Foremost, ToSet

LEMMA CommonIn ==
  ASSUME catalogs \in Catalogs, NEW t
  PROVE  Common(t) \subseteq ToSet(ColumnOrder)
BY CatalogsAssumption DEF Common, CommonColumns, Introspect, DB

LEMMA CommonOfTable ==
  ASSUME catalogs \in Catalogs, table \in CommonTables(catalogs)
  PROVE  /\ Common(table) = Introspect(catalogs[1])[table] \cap Introspect(catalogs[2])[table]
         /\ \A d \in DB : /\ table \in DOMAIN catalogs[d].columns
                          /\ Introspect(catalogs[d])[table] = catalogs[d].columns[table]
BY DEF Common, CommonColumns, Introspect, DB, CommonTables

LEMMA CurrentIn ==
  ASSUME PlanTypes, todo # {}
  PROVE  Current \in todo /\ Current \in Common(table) /\ Current \in Columns
<1>1. todo \subseteq ToSet(ColumnOrder)
  BY CommonIn DEF PlanTypes
<1>2. Current \in todo
  BY <1>1, ForemostIn, PlanningAssumption DEF Current
<1> QED
  BY <1>1, <1>2 DEF PlanTypes, Columns

(***************************************************************************)
(* The joins: what JoinBuilder.join adds.                                  *)
(***************************************************************************)
LEMMA JoinsGrow ==
  ASSUME joins \in Seq(Joins), \A j \in DOMAIN joins : joins[j].parent \in 0..(j - 1),
         NEW link \in Joins, link.parent \in 0..Len(joins)
  PROVE  LET js == Joined(joins, link)
         IN  /\ js \in Seq(Joins)
             /\ \A j \in DOMAIN joins : j \in DOMAIN js /\ js[j] = joins[j]
             /\ \A j \in DOMAIN js : js[j].parent \in 0..(j - 1)
             /\ Alias(joins, link) \in DOMAIN js /\ js[Alias(joins, link)] = link
             /\ \A j \in DOMAIN js : j \in DOMAIN joins \/ js[j] = link
<1>1. DOMAIN joins = 1..Len(joins) /\ Len(joins) \in Nat
  OBVIOUS
<1>2. CASE link \in ToSet(joins)
  <2>1. Alias(joins, link) \in DOMAIN joins /\ joins[Alias(joins, link)] = link
    BY <1>2 DEF Alias, ToSet
  <2> QED
    BY <2>1 DEF Joined
<1>3. CASE link \notin ToSet(joins)
  <2>1. Alias(joins, link) = Len(joins) + 1
    BY <1>3 DEF Alias
  <2>2. Alias(joins, link) \notin DOMAIN joins
    BY <1>1, <2>1
  <2>3. Joined(joins, link) = Append(joins, link)
    BY <2>2 DEF Joined
  <2>4. /\ Append(joins, link) \in Seq(Joins) /\ DOMAIN Append(joins, link) = 1..(Len(joins) + 1)
        /\ \A j \in DOMAIN joins : Append(joins, link)[j] = joins[j]
        /\ Append(joins, link)[Len(joins) + 1] = link
    BY <1>1
  <2> QED
    BY <1>1, <2>1, <2>3, <2>4
<1> QED
  BY <1>2, <1>3

(* The joins of this step are kept by it. *)
JoinsKept == \A j \in DOMAIN joins : j \in DOMAIN joins' /\ joins'[j] = joins[j]

LEMMA PartDoneKept ==
  ASSUME JoinsKept, UNCHANGED catalogs,
         NEW S \in SUBSET (DOMAIN joins), NEW S2, S \subseteq S2, NEW E, NEW E2, E \subseteq E2,
         NEW a \in DOMAIN joins, NEW part, PartDone(a, part, S, E)
  PROVE  PartDone(a, part, S2, E2)'
BY DEF JoinsKept, PartDone, Common

LEMMA SplicedKept ==
  ASSUME JoinsKept, UNCHANGED catalogs,
         NEW S \in SUBSET (DOMAIN joins), NEW S2, S \subseteq S2, NEW E, NEW E2, E \subseteq E2,
         NEW a \in DOMAIN joins, Spliced(a, S, E)
  PROVE  Spliced(a, S2, E2)'
<1>1. joins'[a] = joins[a]
  BY DEF JoinsKept
<1>2. \A i \in DOMAIN NATURAL_KEYS[joins[a].target] :
        PartDone(a, NATURAL_KEYS[joins[a].target][i], S2, E2)'
  <2> TAKE i \in DOMAIN NATURAL_KEYS[joins[a].target]
  <2>1. PartDone(a, NATURAL_KEYS[joins[a].target][i], S, E)
    BY DEF Spliced
  <2>2. PICK part : part = NATURAL_KEYS[joins[a].target][i]
    OBVIOUS
  <2>3. PartDone(a, part, S2, E2)'
    BY <2>1, <2>2, PartDoneKept
  <2>4. part = NATURAL_KEYS[joins'[a].target][i]
    BY <1>1, <2>2
  <2> QED
    BY <2>3, <2>4 DEF PartDone
<1> QED
  BY <1>1, <1>2 DEF Spliced

-----------------------------------------------------------------------------
(***************************************************************************)
(* The calls under way.                                                    *)
(***************************************************************************)
LEMMA FrameIn ==
  ASSUME frames \in Seq(Frames), frames # <<>>
  PROVE  /\ Len(frames) \in Nat \ {0} /\ DOMAIN frames = 1..Len(frames)
         /\ Frame = frames[Len(frames)] /\ Frame \in Frames
BY DEF Frame, Last

LEMMA NextPartIs ==
  ASSUME frames \in Seq(Frames), frames # <<>>
  PROVE  /\ NextPart \in Seq(Frames) /\ Len(NextPart) = Len(frames)
         /\ DOMAIN NextPart = DOMAIN frames
         /\ \A i \in DOMAIN frames : i # Len(frames) => NextPart[i] = frames[i]
         /\ NextPart[Len(frames)] = [target |-> Frame.target, alias |-> Frame.alias,
                                     part |-> Frame.part + 1, depth |-> Frame.depth]
<1>1. /\ Len(frames) \in Nat \ {0} /\ DOMAIN frames = 1..Len(frames)
      /\ Frame = frames[Len(frames)] /\ Frame \in Frames
  BY FrameIn
<1>2. [Frame EXCEPT !.part = @ + 1] = [target |-> Frame.target, alias |-> Frame.alias,
                                       part |-> Frame.part + 1, depth |-> Frame.depth]
  BY <1>1 DEF Frames
<1>3. [Frame EXCEPT !.part = @ + 1] \in Frames
  BY <1>1, <1>2 DEF Frames
<1>4. NextPart = [frames EXCEPT ![Len(frames)] = [Frame EXCEPT !.part = @ + 1]]
  BY <1>1 DEF NextPart
<1> QED
  BY <1>1, <1>2, <1>3, <1>4

(* The part of a natural key that the innermost call has come to. *)
LEMMA PartIs ==
  ASSUME AtPart, frames \in Seq(Frames), frames # <<>>
  PROVE  /\ Frame.target \in DOMAIN NATURAL_KEYS
         /\ Frame.part \in Nat
         /\ Frame.part >= 1 => Frame.part \in DOMAIN NATURAL_KEYS[Frame.target]
         /\ Frame.part >= 1 =>
              /\ Part.col \in Columns
              /\ Part.to # None => Part.to \in DOMAIN NATURAL_KEYS
                                   /\ Height(Part.to) < Height(Frame.target)
<1>1. Frame.target \in DOMAIN NATURAL_KEYS /\ Frame.part <= Len(NATURAL_KEYS[Frame.target])
  BY DEF AtPart, Registered
<1>2. Frame.part \in Nat
  BY FrameIn DEF Frames
<1>3. ASSUME Frame.part >= 1
      PROVE  Frame.part \in DOMAIN NATURAL_KEYS[Frame.target]
  BY <1>1, <1>2, <1>3, NaturalKeys
<1>4. ASSUME Frame.part >= 1
      PROVE  Part.col \in KeyColumns(Frame.target)
  BY <1>3, <1>4 DEF Part, KeyColumns, ToSet
<1>5. ASSUME Frame.part >= 1, Part.to # None
      PROVE  Part.to \in DOMAIN NATURAL_KEYS /\ Height(Part.to) < Height(Frame.target)
  BY <1>1, <1>3, <1>5, NaturalKeys DEF Part
<1> QED
  BY <1>1, <1>2, <1>3, <1>4, <1>5 DEF Columns

-----------------------------------------------------------------------------
(***************************************************************************)
(* What a step of the planner keeps, and what each action does to the      *)
(* columns, the joins and the calls.                                       *)
(***************************************************************************)
LEMMA InputKept ==
  ASSUME [Next]_vars
  PROVE  UNCHANGED <<table, catalogs, full, giantDepth>>
BY DEF Next, vars, input, Classify, DropColumn, TranslateColumn, FlagUnmapped, TakeColumn,
       KeyUnregistered, KeyTooDeep, GiveUp, KeyColumn, KeyFollow, KeyReturn, Complete, Planned

LEMMA Unchanged ==
  ASSUME UNCHANGED <<table, catalogs, full, giantDepth>>
  PROVE  /\ \A t : Common(t)' = Common(t)
         /\ IsGiant' = IsGiant /\ MaxDepth' = MaxDepth /\ Targets' = Targets
         /\ ValueColumns' = ValueColumns
         /\ \A col : /\ Dropped(col)' = Dropped(col) /\ Translated(col)' = Translated(col)
                     /\ Unmapped(col)' = Unmapped(col) /\ Lifecycle(col)' = Lifecycle(col)
                     /\ Plain(col)' = Plain(col) /\ Taken(col)' = Taken(col)
                     /\ Marker(col)' = Marker(col)
BY DEF Common, IsGiant, MaxDepth, Targets, ValueColumns, ProvesValue, Dropped, Translated, Unmapped,
       Lifecycle, Plain, Taken, Marker

(* The join that the planner asks for a foreign key of the table. *)
LEMMA TranslateStep ==
  ASSUME PlanInv, TranslateColumn
  PROVE  /\ JoinsKept /\ joins' \in Seq(Joins) /\ \A j \in DOMAIN joins' : joins'[j].parent \in 0..(j - 1)
         /\ Translated(Current) /\ pc = "columns" /\ pc' = "key" /\ key' = <<>>
         /\ \E a \in DOMAIN joins' :
              /\ joins'[a] = Link(0, Current, ResolveFk(table, Current))
              /\ frames' = <<[target |-> ResolveFk(table, Current), alias |-> a, part |-> 1, depth |-> 1]>>
         /\ \A j \in DOMAIN joins' : j \in DOMAIN joins \/ joins'[j] = Link(0, Current, ResolveFk(table, Current))
<1> DEFINE link == Link(0, Current, ResolveFk(table, Current))
<1>1. Current \in Columns
  BY CurrentIn DEF PlanInv, TranslateColumn, InColumns
<1>2. link \in Joins /\ link.parent = 0
  BY <1>1 DEF Link, Joins, Targets
<1>3. joins \in Seq(Joins) /\ \A j \in DOMAIN joins : joins[j].parent \in 0..(j - 1)
  BY DEF PlanInv, PlanTypes
<1>4. joins' = Joined(joins, link) /\ link.target = ResolveFk(table, Current)
      /\ frames' = <<[target |-> link.target, alias |-> Alias(joins, link), part |-> 1, depth |-> 1]>>
  BY DEF TranslateColumn, Link
<1> HIDE DEF link
<1>5. /\ joins' \in Seq(Joins)
      /\ \A j \in DOMAIN joins : j \in DOMAIN joins' /\ joins'[j] = joins[j]
      /\ \A j \in DOMAIN joins' : joins'[j].parent \in 0..(j - 1)
      /\ Alias(joins, link) \in DOMAIN joins' /\ joins'[Alias(joins, link)] = link
      /\ \A j \in DOMAIN joins' : j \in DOMAIN joins \/ joins'[j] = link
  <2>1. Len(joins) \in Nat
    BY <1>3
  <2> QED
    BY <1>2, <1>3, <1>4, <2>1, JoinsGrow
<1> QED
  BY <1>4, <1>5 DEF JoinsKept, TranslateColumn, InColumns, link

(* The join that a call asks for a foreign key in a natural key. *)
LEMMA FollowStep ==
  ASSUME PlanInv, KeyFollow
  PROVE  /\ JoinsKept /\ joins' \in Seq(Joins) /\ \A j \in DOMAIN joins' : joins'[j].parent \in 0..(j - 1)
         /\ AtPart /\ Part.to # None /\ Frame.depth < MaxDepth /\ pc' = pc
         /\ Frame.part >= 1 /\ Frame.alias \in DOMAIN joins
         /\ \E a \in DOMAIN joins' :
              /\ joins'[a] = Link(Frame.alias, Part.col, Part.to)
              /\ frames' = Append(NextPart, [target |-> Part.to, alias |-> a,
                                             part |-> 1, depth |-> Frame.depth + 1])
         /\ \A j \in DOMAIN joins' : j \in DOMAIN joins \/ joins'[j] = Link(Frame.alias, Part.col, Part.to)
<1> DEFINE link == Link(Frame.alias, Part.col, Part.to)
<1>1. /\ AtPart /\ Part.to # None /\ Frame.depth < MaxDepth /\ pc' = pc /\ pc = "key"
  BY DEF KeyFollow, AtPart
<1>2. CallsInv /\ frames \in Seq(Frames)
  BY <1>1 DEF PlanInv, KeyInv, PlanTypes
<1>3. Frame.part >= 1 /\ Frame.alias \in DOMAIN joins
  BY <1>2, FrameIn DEF CallsInv, Calls
<1>4. joins \in Seq(Joins) /\ \A j \in DOMAIN joins : joins[j].parent \in 0..(j - 1)
  BY DEF PlanInv, PlanTypes
<1>5. link \in Joins /\ link.parent \in 0..Len(joins) /\ link.target = Part.to
  BY <1>1, <1>2, <1>3, <1>4, PartIs DEF Link, Joins, Targets, CallsInv
<1>6. joins' = Joined(joins, link)
      /\ frames' = Append(NextPart, [target |-> link.target, alias |-> Alias(joins, link),
                                     part |-> 1, depth |-> Frame.depth + 1])
  BY DEF KeyFollow
<1> HIDE DEF link
<1>7. /\ joins' \in Seq(Joins)
      /\ \A j \in DOMAIN joins : j \in DOMAIN joins' /\ joins'[j] = joins[j]
      /\ \A j \in DOMAIN joins' : joins'[j].parent \in 0..(j - 1)
      /\ Alias(joins, link) \in DOMAIN joins' /\ joins'[Alias(joins, link)] = link
      /\ \A j \in DOMAIN joins' : j \in DOMAIN joins \/ joins'[j] = link
  BY <1>4, <1>5, <1>6, JoinsGrow
<1> QED
  BY <1>1, <1>3, <1>5, <1>6, <1>7 DEF JoinsKept, link

(***************************************************************************)
(* Types.                                                                  *)
(***************************************************************************)
LEMMA TypesStep == PlanInv /\ [Next]_vars => PlanTypes'
<1> SUFFICES ASSUME PlanInv, [Next]_vars
             PROVE  PlanTypes'
  OBVIOUS
<1>0. /\ UNCHANGED <<table, catalogs, full, giantDepth>>
      /\ \A t : Common(t)' = Common(t)
      /\ Targets' = Targets
  BY InputKept, Unchanged
<1>1. PlanTypes
  BY DEF PlanInv
<1>2. Joins' = Joins /\ Frames' = Frames /\ Exprs' = Exprs /\ Columns' = Columns
  BY <1>0 DEF Joins, Frames, Exprs, Columns
<1>3. /\ CommonTables(catalogs)' = CommonTables(catalogs)
      /\ Common(table)' = Common(table)
  BY <1>0
<1>4. <<>> \in Seq(Exprs) /\ <<>> \in Seq(Frames)
  OBVIOUS
<1> DEFINE InputTypes == /\ catalogs' \in Catalogs
                         /\ table' \in PlannedTables \cap CommonTables(catalogs)'
                         /\ giantDepth' \in GiantDepths /\ full' \in BOOLEAN
<1>5. InputTypes
  BY <1>0, <1>1, <1>3 DEF PlanTypes
<1> HIDE DEF InputTypes
<1>6. SUFFICES /\ pc' \in Steps /\ kind' \in Kinds /\ nullAnchor' \in BOOLEAN
               /\ todo' \subseteq todo
               /\ joins' \in Seq(Joins) /\ exprs' \in Seq(Exprs) /\ key' \in Seq(Exprs)
               /\ frames' \in Seq(Frames)
               /\ \A j \in DOMAIN joins' : joins'[j].parent \in 0..(j - 1)
  BY <1>1, <1>2, <1>3, <1>5 DEF PlanTypes, InputTypes, Steps, Kinds
<1>7. CASE Classify
  BY <1>1, <1>7 DEF Classify, PlanTypes, Steps, Kinds
<1>8. CASE DropColumn
  BY <1>1, <1>8 DEF DropColumn, PlanTypes
<1>9. CASE TranslateColumn
  <2>1. /\ joins' \in Seq(Joins) /\ \A j \in DOMAIN joins' : joins'[j].parent \in 0..(j - 1)
        /\ pc' = "key" /\ key' = <<>>
    BY <1>9, TranslateStep
  <2>2. PICK a \in DOMAIN joins' :
          frames' = <<[target |-> ResolveFk(table, Current), alias |-> a, part |-> 1, depth |-> 1]>>
    BY <1>9, TranslateStep
  <2>3. Current \in Columns
    BY <1>1, <1>9, CurrentIn DEF TranslateColumn, InColumns
  <2>4. a \in Nat
    BY <2>1, <2>2
  <2>5. frames' \in Seq(Frames)
    BY <2>2, <2>3, <2>4 DEF Frames, Targets
  <2> QED
    BY <1>1, <1>4, <1>9, <2>1, <2>5 DEF TranslateColumn, PlanTypes, Steps
<1>10. CASE FlagUnmapped
  BY <1>1, <1>10 DEF FlagUnmapped, PlanTypes
<1>11. CASE TakeColumn
  <2>1. Current \in Columns
    BY <1>1, <1>11, CurrentIn DEF TakeColumn, InColumns
  <2>2. [Expr(0, Current) EXCEPT !.cap = Lifecycle(Current)] \in Exprs
    BY <2>1 DEF Expr, Exprs, Lifecycle
  <2>3. exprs' \in Seq(Exprs)
    BY <1>1, <1>11, <2>2 DEF TakeColumn, PlanTypes
  <2> QED
    BY <1>1, <1>11, <2>3 DEF TakeColumn, PlanTypes
<1>12. ASSUME NEW markers, GiveUp(markers)
       PROVE  /\ pc' \in Steps /\ kind' \in Kinds /\ nullAnchor' \in BOOLEAN
              /\ todo' \subseteq todo
              /\ joins' \in Seq(Joins) /\ exprs' \in Seq(Exprs) /\ key' \in Seq(Exprs)
              /\ frames' \in Seq(Frames)
              /\ \A j \in DOMAIN joins' : joins'[j].parent \in 0..(j - 1)
  BY <1>1, <1>4, <1>12 DEF GiveUp, PlanTypes, Steps
<1>13. CASE KeyUnregistered
  BY <1>12, <1>13 DEF KeyUnregistered
<1>14. CASE KeyTooDeep
  BY <1>12, <1>14 DEF KeyTooDeep
<1>15. CASE KeyColumn
  <2>1. AtPart /\ pc = "key" /\ frames \in Seq(Frames)
    BY <1>1, <1>15 DEF KeyColumn, AtPart, PlanTypes
  <2>2. CallsInv
    BY <2>1 DEF PlanInv, KeyInv
  <2>3. Frame \in Frames /\ Part.col \in Columns
    BY <2>1, <2>2, FrameIn, PartIs DEF CallsInv, Calls
  <2>4. Expr(Frame.alias, Part.col) \in Exprs
    BY <2>3 DEF Expr, Exprs, Frames
  <2>5. key' \in Seq(Exprs)
    BY <1>1, <1>15, <2>4 DEF KeyColumn, PlanTypes
  <2>6. frames' \in Seq(Frames)
    BY <1>15, <2>1, <2>2, NextPartIs DEF KeyColumn, CallsInv
  <2> QED
    BY <1>1, <1>15, <2>5, <2>6 DEF KeyColumn, PlanTypes
<1>16. CASE KeyFollow
  <2>1. /\ joins' \in Seq(Joins) /\ \A j \in DOMAIN joins' : joins'[j].parent \in 0..(j - 1)
        /\ AtPart /\ Part.to # None /\ Frame.part >= 1 /\ Frame.alias \in DOMAIN joins
    BY <1>16, FollowStep
  <2>2. PICK a \in DOMAIN joins' :
          frames' = Append(NextPart, [target |-> Part.to, alias |-> a, part |-> 1, depth |-> Frame.depth + 1])
    BY <1>16, FollowStep
  <2>3. CallsInv /\ frames \in Seq(Frames)
    BY <1>1, <2>1 DEF PlanInv, KeyInv, AtPart, PlanTypes
  <2>4. Frame \in Frames /\ NextPart \in Seq(Frames) /\ Part.to \in DOMAIN NATURAL_KEYS
    BY <2>1, <2>3, FrameIn, PartIs, NextPartIs DEF CallsInv
  <2>5. [target |-> Part.to, alias |-> a, part |-> 1, depth |-> Frame.depth + 1] \in Frames
    BY <2>1, <2>2, <2>4 DEF Frames, Targets
  <2>6. frames' \in Seq(Frames)
    BY <2>2, <2>4, <2>5
  <2> QED
    BY <1>1, <1>16, <2>1, <2>6 DEF KeyFollow, PlanTypes
<1>17. CASE KeyReturn
  <2>1. CallsInv /\ frames \in Seq(Frames)
    BY <1>1, <1>17 DEF PlanInv, KeyInv, KeyReturn, PlanTypes
  <2>2. Front(frames) \in Seq(Frames)
    BY <2>1 DEF Front, CallsInv
  <2>3. exprs \o key \in Seq(Exprs)
    BY <1>1 DEF PlanTypes
  <2> QED
    BY <1>1, <1>4, <1>17, <2>2, <2>3 DEF KeyReturn, PlanTypes, Steps
<1>18. CASE Complete
  BY <1>1, <1>18 DEF Complete, AdmitsNullAnchor, PlanTypes, Steps
<1>19. CASE UNCHANGED vars
  BY <1>1, <1>19 DEF vars, PlanTypes
<1> QED
  BY <1>7, <1>8, <1>9, <1>10, <1>11, <1>13, <1>14, <1>15, <1>16, <1>17, <1>18, <1>19 DEF Next, Planned

LEMMA JoinsStep == PlanInv /\ [Next]_vars => JoinsInv'
<1> SUFFICES ASSUME PlanInv, [Next]_vars
             PROVE  JoinsInv'
  OBVIOUS
<1>0. UNCHANGED table /\ JoinsInv /\ joins \in Seq(Joins) /\ \A j \in DOMAIN joins : joins[j].parent \in 0..(j - 1)
  BY InputKept DEF PlanInv, PlanTypes
<1>1. ASSUME JoinsKept, NEW link, \A j \in DOMAIN joins' : j \in DOMAIN joins \/ joins'[j] = link,
             Followed(link, joins)', link.parent = 0 \/ link.parent \in DOMAIN joins
      PROVE  JoinsInv'
  <2>1. ASSUME NEW j \in DOMAIN joins
        PROVE  Followed(joins[j], joins)'
    <3>1. Followed(joins[j], joins) /\ joins'[j] = joins[j]
      BY <1>0, <1>1, <2>1 DEF JoinsInv, JoinsKept
    <3>2. joins[j].parent = 0 \/ joins[j].parent \in DOMAIN joins
      BY <1>0, <2>1
    <3> QED
      BY <1>0, <1>1, <3>1, <3>2 DEF Followed, JoinsKept
  <2> QED
    BY <1>1, <2>1 DEF JoinsInv, Followed
<1>2. CASE TranslateColumn
  <2>1. PICK link : link = Link(0, Current, ResolveFk(table, Current))
    OBVIOUS
  <2>2. JoinsKept /\ \A j \in DOMAIN joins' : j \in DOMAIN joins \/ joins'[j] = link
    BY <1>2, <2>1, TranslateStep
  <2>3. link.parent = 0 /\ link.target = ResolveFk(table, link.col)
    BY <2>1 DEF Link
  <2>4. Followed(link, joins)'
    BY <1>0, <2>3 DEF Followed
  <2> QED
    BY <1>1, <2>2, <2>3, <2>4
<1>3. CASE KeyFollow
  <2>1. PICK link : link = Link(Frame.alias, Part.col, Part.to)
    OBVIOUS
  <2>2. JoinsKept /\ \A j \in DOMAIN joins' : j \in DOMAIN joins \/ joins'[j] = link
    BY <1>3, <2>1, FollowStep
  <2>3. AtPart /\ Part.to # None /\ Frame.part >= 1 /\ Frame.alias \in DOMAIN joins
    BY <1>3, FollowStep
  <2>4. CallsInv /\ frames \in Seq(Frames) /\ frames # <<>>
    BY <2>3 DEF PlanInv, KeyInv, AtPart, PlanTypes, CallsInv
  <2>5. Frame.target \in DOMAIN NATURAL_KEYS /\ Frame.part \in DOMAIN NATURAL_KEYS[Frame.target]
    BY <2>3, <2>4, PartIs
  <2>6. joins[Frame.alias].target = Frame.target
    BY <2>4, FrameIn DEF CallsInv, Calls
  <2>7. link.parent = Frame.alias /\ link.col = Part.col /\ link.target = Part.to
    BY <2>1 DEF Link
  <2>8. joins'[link.parent].target = Frame.target /\ link.parent # 0 /\ link.parent \in DOMAIN joins
    BY <1>0, <2>2, <2>3, <2>6, <2>7 DEF JoinsKept
  <2>9. Followed(link, joins)'
    BY <2>3, <2>5, <2>7, <2>8 DEF Followed, Part
  <2> QED
    BY <1>1, <2>2, <2>8, <2>9
<1>4. CASE UNCHANGED joins
  BY <1>0, <1>4 DEF JoinsInv, Followed
<1> QED
  BY <1>2, <1>3, <1>4
  DEF Next, vars, Classify, DropColumn, FlagUnmapped, TakeColumn, KeyUnregistered, KeyTooDeep, GiveUp,
      KeyColumn, KeyReturn, Complete, Planned

(***************************************************************************)
(* Where the planner is.                                                   *)
(***************************************************************************)
LEMMA CourseStep == PlanInv /\ [Next]_vars => CourseInv'
<1> SUFFICES ASSUME PlanInv, [Next]_vars
             PROVE  CourseInv'
  OBVIOUS
<1>0. /\ UNCHANGED <<table, catalogs, full, giantDepth>>
      /\ IsGiant' = IsGiant /\ ValueColumns' = ValueColumns
      /\ ExtraColumns(catalogs, table)' = ExtraColumns(catalogs, table)
  BY InputKept, Unchanged
<1>1. PlanTypes /\ CourseInv
  BY DEF PlanInv
<1>2. SUFFICES
        /\ pc' # "key" => frames' = <<>> /\ key' = <<>>
        /\ pc' = "classify" => kind' = None /\ exprs' = <<>> /\ skipped' = {}
        /\ pc' # "classify" => kind' \in {"giant", "normal", "accumulator"} \/ (kind' = "excluded" /\ pc' = "done")
        /\ pc' # "classify" /\ kind' # "excluded" => (kind' = "giant" <=> IsGiant)
        /\ pc' = "done" /\ kind' # "excluded" => todo' = {} /\ extra' = ExtraColumns(catalogs, table)
        /\ valueCol' # None => pc' = "done" /\ kind' # "excluded" /\ valueCol' \in ValueColumns
  BY <1>0 DEF CourseInv
<1>3. CASE Classify
  <2>1. kind' \in {"excluded", "giant", "normal", "accumulator"}
        /\ (kind' # "excluded" => (kind' = "giant" <=> IsGiant))
    BY <1>3 DEF Classify
  <2> QED
    BY <1>1, <1>3, <2>1 DEF Classify, CourseInv
<1>4. CASE DropColumn
  BY <1>1, <1>4 DEF DropColumn, InColumns, CourseInv
<1>5. CASE TranslateColumn
  BY <1>1, <1>5 DEF TranslateColumn, InColumns, CourseInv
<1>6. CASE FlagUnmapped
  BY <1>1, <1>6 DEF FlagUnmapped, InColumns, CourseInv
<1>7. CASE TakeColumn
  BY <1>1, <1>7 DEF TakeColumn, InColumns, CourseInv
<1>8. CASE KeyUnregistered
  BY <1>1, <1>8 DEF KeyUnregistered, GiveUp, CourseInv
<1>9. CASE KeyTooDeep
  BY <1>1, <1>9 DEF KeyTooDeep, AtPart, GiveUp, CourseInv
<1>10. CASE KeyColumn
  BY <1>1, <1>10 DEF KeyColumn, AtPart, CourseInv
<1>11. CASE KeyFollow
  BY <1>1, <1>11 DEF KeyFollow, AtPart, CourseInv
<1>12. CASE KeyReturn
  <2>1. Len(frames) = 1 => Front(frames) = <<>>
    BY <1>1 DEF Front, PlanTypes
  <2> QED
    BY <1>1, <1>12, <2>1 DEF KeyReturn, CourseInv
<1>13. CASE Complete
  <2>1. VALUE_COLUMNS \in Seq({"value", "quantity", "amount", "fee", "out_sum", "deposit"})
    BY DEF VALUE_COLUMNS
  <2>2. ValueColumns # {} => Foremost(VALUE_COLUMNS, ValueColumns) \in ValueColumns
    BY <2>1, ForemostIn DEF ValueColumns
  <2>3. valueCol' # None => valueCol' \in ValueColumns
    BY <1>13, <2>2 DEF Complete
  <2> QED
    BY <1>1, <1>13, <2>3 DEF Complete, CourseInv
<1>14. CASE UNCHANGED vars
  BY <1>1, <1>14 DEF vars, CourseInv
<1> QED
  BY <1>3, <1>4, <1>5, <1>6, <1>7, <1>8, <1>9, <1>10, <1>11, <1>12, <1>13, <1>14 DEF Next, Planned

-----------------------------------------------------------------------------
(***************************************************************************)
(* The calls of natural_key_exprs.                                         *)
(***************************************************************************)
LEMMA CallsIn ==
  ASSUME PlanInv, pc = "key"
  PROVE  /\ CallsInv /\ frames \in Seq(Frames) /\ frames # <<>> /\ joins \in Seq(Joins)
         /\ Len(frames) \in Nat \ {0} /\ Calls = 1..Len(frames)
         /\ Frame = frames[Len(frames)] /\ Frame \in Frames
         /\ Frame.part >= 1 /\ Frame.alias \in DOMAIN joins /\ Frame.alias \in Aliases
         /\ joins[Frame.alias].target = Frame.target /\ Frame.depth = Len(frames)
<1>1. CallsInv /\ frames \in Seq(Frames) /\ joins \in Seq(Joins) /\ frames # <<>>
  BY DEF PlanInv, KeyInv, PlanTypes, CallsInv
<1>2. /\ Len(frames) \in Nat \ {0} /\ Calls = 1..Len(frames)
      /\ Frame = frames[Len(frames)] /\ Frame \in Frames
  BY <1>1, FrameIn DEF Calls
<1> QED
  BY <1>1, <1>2 DEF CallsInv, Aliases

LEMMA CallsOfTranslate ==
  ASSUME PlanInv, TranslateColumn
  PROVE  KeyInv'
<1>0. UNCHANGED <<table, catalogs, full, giantDepth, todo>>
  BY DEF TranslateColumn, input
<1>1. /\ JoinsKept /\ joins' \in Seq(Joins)
      /\ Translated(Current) /\ pc = "columns" /\ pc' = "key" /\ key' = <<>>
  BY TranslateStep
<1>2. PICK a \in DOMAIN joins' :
        /\ joins'[a] = Link(0, Current, ResolveFk(table, Current))
        /\ frames' = <<[target |-> ResolveFk(table, Current), alias |-> a, part |-> 1, depth |-> 1]>>
  BY TranslateStep
<1>3. Current' = Current /\ Translated(Current)' = Translated(Current) /\ todo' # {}
      /\ ResolveFk(table, Current)' = ResolveFk(table, Current)
  BY <1>0 DEF Current, Translated, Dropped, TranslateColumn, InColumns
<1>4. a \in Nat \ {0}
  BY <1>1, <1>2
<1>5. /\ DOMAIN frames' = {1} /\ Len(frames') = 1 /\ frames'[1].target = ResolveFk(table, Current)
      /\ frames'[1].alias = a /\ frames'[1].part = 1 /\ frames'[1].depth = 1 /\ frames' # <<>>
  BY <1>2
<1>6. joins'[a].target = ResolveFk(table, Current)
  BY <1>2 DEF Link
<1>7. CallsInv'
  BY <1>1, <1>2, <1>3, <1>4, <1>5, <1>6 DEF CallsInv, Calls
<1>8. ToSet(key') = {}
  BY <1>1 DEF ToSet
<1>9. \A i \in DOMAIN frames' : frames'[i].target \in DOMAIN NATURAL_KEYS =>
        {k \in DOMAIN NATURAL_KEYS[frames'[i].target] :
           k < frames'[i].part /\ (i < Len(frames') => k < frames'[i].part - 1)} = {}
  BY <1>5, NaturalKeys
<1>10. UnderWay({})'
  BY <1>8, <1>9 DEF UnderWay, PassedInv, Passed, Calls
<1> QED
  BY <1>7, <1>10 DEF KeyInv

LEMMA CallsOfColumn ==
  ASSUME PlanInv, KeyColumn
  PROVE  KeyInv'
<1>0. UNCHANGED <<table, catalogs, full, giantDepth, todo, joins, pc>>
      /\ frames' = NextPart /\ AtPart /\ pc = "key" /\ Part.to = None
  BY DEF KeyColumn, input, AtPart
<1>1. /\ CallsInv /\ frames \in Seq(Frames) /\ frames # <<>> /\ joins \in Seq(Joins)
      /\ Len(frames) \in Nat \ {0} /\ Calls = 1..Len(frames)
      /\ Frame = frames[Len(frames)] /\ Frame \in Frames
      /\ Frame.part >= 1 /\ Frame.alias \in DOMAIN joins /\ Frame.alias \in Aliases
      /\ joins[Frame.alias].target = Frame.target /\ Frame.depth = Len(frames)
  BY <1>0, CallsIn
<1>2. Frame.target \in DOMAIN NATURAL_KEYS /\ Frame.part \in Nat
      /\ Frame.part \in DOMAIN NATURAL_KEYS[Frame.target]
  BY <1>0, <1>1, PartIs
<1>3. Current' = Current /\ Translated(Current)' = Translated(Current)
      /\ ResolveFk(table, Current)' = ResolveFk(table, Current)
  BY <1>0 DEF Current, Translated, Dropped
<1>4. /\ DOMAIN frames' = DOMAIN frames /\ Len(frames') = Len(frames) /\ frames' # <<>>
      /\ \A i \in DOMAIN frames : i # Len(frames) => frames'[i] = frames[i]
      /\ frames'[Len(frames)] = [target |-> Frame.target, alias |-> Frame.alias,
                                 part |-> Frame.part + 1, depth |-> Frame.depth]
  BY <1>0, <1>1, NextPartIs
<1>5. /\ \A i \in DOMAIN frames : /\ frames'[i].target = frames[i].target
                                  /\ frames'[i].alias = frames[i].alias
                                  /\ frames'[i].depth = frames[i].depth
                                  /\ frames'[i].part = IF i = Len(frames) THEN Frame.part + 1 ELSE frames[i].part
      /\ Calls' = Calls /\ Aliases' = Aliases
  BY <1>1, <1>4 DEF Calls, Aliases
<1>6. CallsInv'
  BY <1>0, <1>1, <1>2, <1>3, <1>4, <1>5 DEF CallsInv, Calls
<1>7. PICK U \in SUBSET (DOMAIN joins) : UnderWay(U)
  BY <1>0 DEF PlanInv, KeyInv
<1>8. /\ ToSet(key) \subseteq ToSet(key')
      /\ Part.col \in Common(Frame.target) => Expr(Frame.alias, Part.col) \in ToSet(key')
      /\ \A e \in ToSet(key') : e \in ToSet(key) \/ e = Expr(Frame.alias, Part.col)
  <2>1. key \in Seq(Exprs) /\ (key' = key \/ key' = Append(key, Expr(Frame.alias, Part.col)))
        /\ (Part.col \in Common(Frame.target) => key' = Append(key, Expr(Frame.alias, Part.col)))
    BY DEF KeyColumn, PlanInv, PlanTypes
  <2> QED
    BY <2>1 DEF ToSet
<1>9. JoinsKept
  BY <1>0 DEF JoinsKept
<1> PICK E : E = ToSet(key')
  OBVIOUS
<1>10. ASSUME NEW i \in Calls', frames'[i].target \in DOMAIN NATURAL_KEYS, NEW k \in Passed(i)'
       PROVE  PartDone(frames[i].alias, NATURAL_KEYS[frames[i].target][k], U, ToSet(key))'
  <2>1. i \in Calls /\ frames[i].target \in DOMAIN NATURAL_KEYS /\ frames[i].alias \in DOMAIN joins
        /\ joins[frames[i].alias].target = frames[i].target
    BY <1>1, <1>5, <1>10 DEF CallsInv
  <2>2. frames'[i].alias = frames[i].alias /\ frames'[i].target = frames[i].target
    BY <1>5, <2>1 DEF Calls
  <2>3. CASE k \in Passed(i)
    <3>1. PICK a, part : a = frames[i].alias /\ part = NATURAL_KEYS[frames[i].target][k]
      OBVIOUS
    <3>2. PartDone(a, part, U, ToSet(key))
      BY <1>7, <2>1, <2>3, <3>1 DEF UnderWay, PassedInv
    <3>3. PartDone(a, part, U, E)'
      BY <1>0, <1>8, <1>9, <2>1, <3>1, <3>2, PartDoneKept
    <3> QED
      BY <2>2, <3>1, <3>3 DEF PartDone
  <2>4. CASE k \notin Passed(i)
    <3>1. i = Len(frames) /\ k = Frame.part
      <4>1. /\ k \in DOMAIN NATURAL_KEYS[frames[i].target] /\ k < frames'[i].part
            /\ (i < Len(frames) => k < frames'[i].part - 1)
        BY <1>4, <1>10, <2>2 DEF Passed
      <4>2. k \in Nat
        BY <2>1, <4>1, NaturalKeys
      <4>3. i = Len(frames)
        BY <1>4, <1>5, <2>1, <2>4, <4>1 DEF Passed, Calls
      <4>4. frames'[i].part = Frame.part + 1 /\ frames[i].part = Frame.part
        BY <1>1, <1>4, <4>3
      <4> QED
        BY <1>2, <2>4, <4>1, <4>2, <4>3, <4>4 DEF Passed
    <3>2. NATURAL_KEYS[frames[i].target][k] = Part /\ frames[i].alias = Frame.alias
      BY <1>1, <3>1 DEF Part
    <3>4. PICK a, part : a = frames[i].alias /\ part = NATURAL_KEYS[frames[i].target][k]
      OBVIOUS
    <3>5. part = Part /\ a = Frame.alias /\ part.to = None
      BY <1>0, <3>2, <3>4
    <3>6. part.col \in Common(joins[a].target) => Expr(a, part.col) \in E
      BY <1>1, <1>8, <3>5
    <3>7. PartDone(a, part, U, E)'
      BY <1>0, <3>5, <3>6 DEF PartDone, Common
    <3> QED
      BY <2>2, <3>4, <3>7 DEF PartDone
  <2> QED
    BY <2>3, <2>4
<1>11. ASSUME NEW a \in U
       PROVE  Spliced(a, U, ToSet(key))' /\ joins'[a].parent \in U \cup Aliases'
  <2>1. Spliced(a, U, ToSet(key)) /\ joins[a].parent \in U \cup Aliases
    BY <1>7 DEF UnderWay
  <2>2. Spliced(a, U, E)'
    BY <1>0, <1>8, <1>9, <2>1, SplicedKept
  <2>3. Spliced(a, U, ToSet(key))'
    BY <2>2 DEF Spliced, PartDone
  <2> QED
    BY <1>0, <1>5, <2>1, <2>3
<1>12. \A e \in ToSet(key') : e.alias \in U \cup Aliases' /\ e.cap = FALSE
  BY <1>1, <1>5, <1>7, <1>8 DEF UnderWay, Expr
<1>13. UnderWay(U)'
  BY <1>10, <1>11, <1>12 DEF UnderWay, PassedInv
<1>14. U \in SUBSET DOMAIN joins'
  BY <1>0, <1>7
<1> QED
  BY <1>6, <1>13, <1>14 DEF KeyInv

LEMMA CallsOfFollow ==
  ASSUME PlanInv, KeyFollow
  PROVE  KeyInv'
<1>0. UNCHANGED <<table, catalogs, full, giantDepth, todo, key, pc>> /\ pc = "key"
  BY DEF KeyFollow, input, AtPart
<1>1. /\ CallsInv /\ frames \in Seq(Frames) /\ frames # <<>> /\ joins \in Seq(Joins)
      /\ Len(frames) \in Nat \ {0} /\ Calls = 1..Len(frames)
      /\ Frame = frames[Len(frames)] /\ Frame \in Frames
      /\ Frame.part >= 1 /\ Frame.alias \in DOMAIN joins /\ Frame.alias \in Aliases
      /\ joins[Frame.alias].target = Frame.target /\ Frame.depth = Len(frames)
  BY <1>0, CallsIn
<1>2. JoinsKept /\ joins' \in Seq(Joins) /\ AtPart /\ Part.to # None
  BY FollowStep
<1>3. PICK b \in DOMAIN joins' :
        /\ joins'[b] = Link(Frame.alias, Part.col, Part.to)
        /\ frames' = Append(NextPart, [target |-> Part.to, alias |-> b,
                                       part |-> 1, depth |-> Frame.depth + 1])
  BY FollowStep
<1>4. Frame.target \in DOMAIN NATURAL_KEYS /\ Frame.part \in Nat
      /\ Frame.part \in DOMAIN NATURAL_KEYS[Frame.target]
      /\ Part.to \in DOMAIN NATURAL_KEYS
  BY <1>1, <1>2, PartIs
<1>5. Current' = Current /\ Translated(Current)' = Translated(Current)
      /\ ResolveFk(table, Current)' = ResolveFk(table, Current)
  BY <1>0 DEF Current, Translated, Dropped
<1>6. PICK n : n = Len(frames)
  OBVIOUS
<1>7. n \in Nat \ {0} /\ DOMAIN frames = 1..n /\ Calls = 1..n
  BY <1>1, <1>6
<1>8. /\ NextPart \in Seq(Frames) /\ Len(NextPart) = n
      /\ \A i \in 1..n : i # n => NextPart[i] = frames[i]
      /\ NextPart[n] = [target |-> Frame.target, alias |-> Frame.alias,
                        part |-> Frame.part + 1, depth |-> Frame.depth]
  BY <1>1, <1>6, <1>7, NextPartIs
<1>9. /\ Len(frames') = n + 1 /\ DOMAIN frames' = 1..(n + 1) /\ frames' # <<>>
      /\ \A i \in 1..n : i # n => frames'[i] = frames[i]
      /\ frames'[n] = [target |-> Frame.target, alias |-> Frame.alias,
                       part |-> Frame.part + 1, depth |-> Frame.depth]
      /\ frames'[n + 1] = [target |-> Part.to, alias |-> b, part |-> 1, depth |-> n + 1]
  BY <1>1, <1>3, <1>6, <1>7, <1>8
<1>10. \A i \in 1..n : /\ frames'[i].target = frames[i].target
                       /\ frames'[i].alias = frames[i].alias
                       /\ frames'[i].depth = frames[i].depth
                       /\ frames'[i].part = IF i = n THEN Frame.part + 1 ELSE frames[i].part
  BY <1>1, <1>6, <1>7, <1>9
<1>11. Aliases' = Aliases \cup {b} /\ Calls' = 1..(n + 1)
  <2>1. frames'[n + 1].alias = b
    BY <1>9
  <2>2. \A i \in 1..(n + 1) : i \in 1..n \/ i = n + 1
    BY <1>7
  <2>3. 1..n \subseteq 1..(n + 1) /\ n + 1 \in 1..(n + 1)
    BY <1>7
  <2> QED
    BY <1>7, <1>9, <1>10, <2>1, <2>2, <2>3 DEF Aliases, Calls
<1>12. CallsInv'
  <2>1. joins'[frames'[1].alias] = Link(0, Current, ResolveFk(table, Current))
    <3>1. 1 \in Calls /\ 1 \in 1..n /\ joins[frames[1].alias] = Link(0, Current, ResolveFk(table, Current))
      BY <1>1, <1>7 DEF CallsInv
    <3>2. frames[1].alias \in DOMAIN joins /\ frames'[1].alias = frames[1].alias
      BY <1>1, <1>10, <3>1 DEF CallsInv
    <3> QED
      BY <1>2, <3>1, <3>2 DEF JoinsKept
  <2>2. ASSUME NEW i \in 1..(n + 1)
        PROVE  /\ frames'[i].alias \in DOMAIN joins' /\ frames'[i].alias # 0
               /\ joins'[frames'[i].alias].target = frames'[i].target
               /\ frames'[i].depth = i /\ frames'[i].part >= 1
    <3>1. CASE i = n + 1
      BY <1>2, <1>3, <1>9, <3>1 DEF Link
    <3>2. CASE i \in 1..n
      <4>1. /\ frames[i].alias \in DOMAIN joins /\ frames[i].alias # 0
            /\ joins[frames[i].alias].target = frames[i].target
            /\ frames[i].depth = i /\ frames[i].part >= 1
        BY <1>1, <1>7, <3>2 DEF CallsInv
      <4> QED
        BY <1>1, <1>2, <1>4, <1>6, <1>10, <3>2, <4>1 DEF JoinsKept
    <3> QED
      BY <1>7, <2>2, <3>1, <3>2
  <2>3. ASSUME NEW i \in 1..(n + 1), i + 1 \in 1..(n + 1)
        PROVE  LET part == NATURAL_KEYS[frames'[i].target][frames'[i].part - 1]
               IN  /\ frames'[i].target \in DOMAIN NATURAL_KEYS
                   /\ frames'[i].part - 1 \in DOMAIN NATURAL_KEYS[frames'[i].target]
                   /\ part.to # None
                   /\ joins'[frames'[i + 1].alias] = Link(frames'[i].alias, part.col, part.to)
    <3>1. i \in 1..n
      BY <1>7, <2>3
    <3>2. CASE i = n
      <4>1. frames'[i].part - 1 = Frame.part /\ frames'[i].target = Frame.target
            /\ frames'[i].alias = Frame.alias /\ frames'[i + 1].alias = b
        BY <1>4, <1>9, <3>2
      <4> QED
        BY <1>2, <1>3, <1>4, <4>1 DEF Part
    <3>3. CASE i # n
      <4>1. i \in Calls /\ i + 1 \in Calls /\ i + 1 \in 1..n
        BY <1>7, <3>1, <3>3
      <4>2. LET part == NATURAL_KEYS[frames[i].target][frames[i].part - 1]
            IN  /\ frames[i].target \in DOMAIN NATURAL_KEYS
                /\ frames[i].part - 1 \in DOMAIN NATURAL_KEYS[frames[i].target]
                /\ part.to # None
                /\ joins[frames[i + 1].alias] = Link(frames[i].alias, part.col, part.to)
        BY <1>1, <4>1 DEF CallsInv
      <4>3. frames[i + 1].alias \in DOMAIN joins
        BY <1>1, <4>1 DEF CallsInv
      <4> QED
        BY <1>2, <1>10, <3>1, <3>3, <4>1, <4>2, <4>3 DEF JoinsKept
    <3> QED
      BY <3>2, <3>3
  <2> QED
    BY <1>0, <1>1, <1>5, <1>9, <1>11, <2>1, <2>2, <2>3 DEF CallsInv
<1>13. PICK U \in SUBSET (DOMAIN joins) : UnderWay(U)
  BY <1>0 DEF PlanInv, KeyInv
<1>14. PICK E : E = ToSet(key)
  OBVIOUS
<1>15. ASSUME NEW i \in Calls', frames'[i].target \in DOMAIN NATURAL_KEYS, NEW k \in Passed(i)'
       PROVE  PartDone(frames[i].alias, NATURAL_KEYS[frames[i].target][k], U, ToSet(key))'
  <2>1. /\ k \in DOMAIN NATURAL_KEYS[frames'[i].target] /\ k < frames'[i].part
        /\ (i < n + 1 => k < frames'[i].part - 1)
    BY <1>9, <1>15 DEF Passed
  <2>2. k \in Nat \ {0} /\ i \in 1..(n + 1)
    BY <1>11, <1>15, <2>1, NaturalKeys
  <2>3. i # n + 1
    BY <1>9, <2>1, <2>2
  <2>4. i \in 1..n /\ i < n + 1 /\ (i < n <=> i # n)
    BY <1>7, <2>2, <2>3
  <2>5. k \in Passed(i)
    BY <1>1, <1>4, <1>6, <1>7, <1>10, <2>1, <2>2, <2>4 DEF Passed
  <2>6. PICK a, part : a = frames[i].alias /\ part = NATURAL_KEYS[frames[i].target][k]
    OBVIOUS
  <2>7. frames[i].target \in DOMAIN NATURAL_KEYS /\ frames[i].alias \in DOMAIN joins
        /\ frames'[i].alias = frames[i].alias /\ frames'[i].target = frames[i].target
    BY <1>1, <1>7, <1>10, <1>15, <2>4 DEF CallsInv
  <2>8. PartDone(a, part, U, ToSet(key))
    BY <1>7, <1>13, <2>4, <2>5, <2>6, <2>7 DEF UnderWay, PassedInv
  <2>9. PartDone(a, part, U, E)'
    BY <1>0, <1>2, <1>14, <2>6, <2>7, <2>8, PartDoneKept
  <2> QED
    BY <1>0, <1>14, <2>6, <2>7, <2>9 DEF PartDone
<1>16. ASSUME NEW a \in U
       PROVE  Spliced(a, U, ToSet(key))' /\ joins'[a].parent \in U \cup Aliases'
  <2>1. Spliced(a, U, ToSet(key)) /\ joins[a].parent \in U \cup Aliases /\ a \in DOMAIN joins
    BY <1>13, <1>16 DEF UnderWay
  <2>2. Spliced(a, U, E)'
    BY <1>0, <1>2, <1>14, <2>1, SplicedKept
  <2>3. Spliced(a, U, ToSet(key))'
    BY <1>0, <1>14, <2>2 DEF Spliced, PartDone
  <2> QED
    BY <1>2, <1>11, <2>1, <2>3 DEF JoinsKept
<1>17. \A e \in ToSet(key') : e.alias \in U \cup Aliases' /\ e.cap = FALSE
  BY <1>0, <1>11, <1>13 DEF UnderWay
<1>18. UnderWay(U)'
  BY <1>15, <1>16, <1>17 DEF UnderWay, PassedInv
<1>19. U \in SUBSET DOMAIN joins'
  BY <1>2, <1>13 DEF JoinsKept
<1> QED
  BY <1>12, <1>18, <1>19 DEF KeyInv

LEMMA CallsOfReturn ==
  ASSUME PlanInv, KeyReturn, Len(frames) # 1
  PROVE  KeyInv'
<1>0. UNCHANGED <<table, catalogs, full, giantDepth, todo, key, pc, joins>> /\ pc = "key"
      /\ frames' = Front(frames) /\ Frame.target \in DOMAIN NATURAL_KEYS
      /\ Frame.part > Len(NATURAL_KEYS[Frame.target])
  BY DEF KeyReturn, input, Registered
<1>1. /\ CallsInv /\ frames \in Seq(Frames) /\ frames # <<>> /\ joins \in Seq(Joins)
      /\ Len(frames) \in Nat \ {0} /\ Calls = 1..Len(frames)
      /\ Frame = frames[Len(frames)] /\ Frame \in Frames
      /\ Frame.part >= 1 /\ Frame.alias \in DOMAIN joins /\ Frame.alias \in Aliases
      /\ joins[Frame.alias].target = Frame.target /\ Frame.depth = Len(frames)
  BY <1>0, CallsIn
<1>2. Current' = Current /\ Translated(Current)' = Translated(Current)
      /\ ResolveFk(table, Current)' = ResolveFk(table, Current)
  BY <1>0 DEF Current, Translated, Dropped
<1>3. PICK n : n = Len(frames) - 1
  OBVIOUS
<1>4. n \in Nat \ {0} /\ DOMAIN frames = 1..(n + 1) /\ Calls = 1..(n + 1) /\ Len(frames) = n + 1
  BY <1>1, <1>3
<1>5. /\ Len(frames') = n /\ DOMAIN frames' = 1..n /\ frames' # <<>>
      /\ \A i \in 1..n : frames'[i] = frames[i]
  <2>1. frames' = SubSeq(frames, 1, n)
    BY <1>0, <1>3 DEF Front
  <2>2. /\ SubSeq(frames, 1, n) \in Seq(Frames) /\ Len(SubSeq(frames, 1, n)) = n
        /\ \A i \in 1..n : SubSeq(frames, 1, n)[i] = frames[i]
    BY <1>1, <1>4
  <2> QED
    BY <1>4, <2>1, <2>2
<1>6. /\ \A i \in 1..n : i \in Calls /\ i # n + 1
      /\ Frame = frames[n + 1]
      /\ \A i \in Calls : i \in 1..n \/ i = n + 1
  BY <1>1, <1>4
<1>7. Aliases \subseteq Aliases' \cup {Frame.alias} /\ Calls' = 1..n
  BY <1>4, <1>5, <1>6 DEF Aliases, Calls
<1>8. CallsInv'
  <2>1. /\ frames[1].alias = frames'[1].alias
        /\ joins[frames[1].alias] = Link(0, Current, ResolveFk(table, Current))
    BY <1>1, <1>4, <1>5 DEF CallsInv
  <2>2. ASSUME NEW i \in 1..n
        PROVE  /\ frames'[i].alias \in DOMAIN joins /\ frames'[i].alias # 0
               /\ joins[frames'[i].alias].target = frames'[i].target
               /\ frames'[i].depth = i /\ frames'[i].part >= 1
    BY <1>1, <1>5, <1>6 DEF CallsInv
  <2>3. ASSUME NEW i \in 1..n, i + 1 \in 1..n
        PROVE  LET part == NATURAL_KEYS[frames'[i].target][frames'[i].part - 1]
               IN  /\ frames'[i].target \in DOMAIN NATURAL_KEYS
                   /\ frames'[i].part - 1 \in DOMAIN NATURAL_KEYS[frames'[i].target]
                   /\ part.to # None
                   /\ joins[frames'[i + 1].alias] = Link(frames'[i].alias, part.col, part.to)
    <3>1. i \in Calls /\ i + 1 \in Calls
      BY <1>6, <2>3
    <3> QED
      BY <1>1, <1>5, <2>3, <3>1 DEF CallsInv
  <2> QED
    BY <1>0, <1>1, <1>2, <1>5, <1>7, <2>1, <2>2, <2>3 DEF CallsInv
<1>9. PICK U \in SUBSET (DOMAIN joins) : UnderWay(U)
  BY <1>0 DEF PlanInv, KeyInv
<1>10. PICK V, E : V = U \cup {Frame.alias} /\ E = ToSet(key)
  OBVIOUS
<1>11. JoinsKept /\ U \subseteq V /\ V \in SUBSET (DOMAIN joins)
  BY <1>0, <1>1, <1>10 DEF JoinsKept
(* The call that returns has passed every part of its natural key. *)
<1>12. Spliced(Frame.alias, U, E)
  <2>1. PICK m : m = n + 1
    OBVIOUS
  <2>2. ASSUME NEW k \in DOMAIN NATURAL_KEYS[Frame.target]
        PROVE  k \in Passed(m)
    <3>1. k \in 1..Len(NATURAL_KEYS[Frame.target]) /\ Len(NATURAL_KEYS[Frame.target]) \in Nat
      BY <1>0, <2>2, NaturalKeys
    <3>2. k < Frame.part
      BY <1>0, <1>1, <3>1 DEF Frames
    <3> QED
      BY <1>1, <1>4, <1>6, <2>1, <2>2, <3>2 DEF Passed
  <2>3. m \in Calls /\ frames[m] = Frame
    BY <1>4, <1>6, <2>1
  <2>4. ASSUME NEW k \in DOMAIN NATURAL_KEYS[Frame.target]
        PROVE  PartDone(Frame.alias, NATURAL_KEYS[Frame.target][k], U, E)
    BY <1>0, <1>9, <1>10, <2>2, <2>3, <2>4 DEF UnderWay, PassedInv
  <2> QED
    BY <1>0, <1>1, <2>4 DEF Spliced
(* Its caller has passed one part more. *)
<1>13. /\ frames[n].target \in DOMAIN NATURAL_KEYS
       /\ frames[n].part - 1 \in DOMAIN NATURAL_KEYS[frames[n].target]
       /\ NATURAL_KEYS[frames[n].target][frames[n].part - 1].to # None
       /\ joins[Frame.alias] = Link(frames[n].alias, NATURAL_KEYS[frames[n].target][frames[n].part - 1].col,
                                    NATURAL_KEYS[frames[n].target][frames[n].part - 1].to)
  BY <1>1, <1>4, <1>6 DEF CallsInv
<1>14. ASSUME NEW i \in Calls', frames'[i].target \in DOMAIN NATURAL_KEYS, NEW k \in Passed(i)'
       PROVE  PartDone(frames[i].alias, NATURAL_KEYS[frames[i].target][k], V, ToSet(key))'
  <2>1. i \in 1..n /\ frames'[i] = frames[i] /\ i \in Calls /\ frames[i].alias \in DOMAIN joins
    BY <1>1, <1>5, <1>6, <1>7 DEF CallsInv
  <2>2. /\ k \in DOMAIN NATURAL_KEYS[frames[i].target] /\ k < frames[i].part
        /\ (i < n => k < frames[i].part - 1)
    BY <1>5, <1>14, <2>1 DEF Passed
  <2>3. PICK a, part : a = frames[i].alias /\ part = NATURAL_KEYS[frames[i].target][k]
    OBVIOUS
  <2>4. PartDone(a, part, V, E)
    <3>1. CASE k \in Passed(i)
      <4>1. PartDone(a, part, U, E)
        BY <1>9, <1>10, <1>14, <2>1, <2>3, <3>1 DEF UnderWay, PassedInv
      <4> QED
        BY <1>11, <4>1 DEF PartDone
    <3>2. CASE k \notin Passed(i)
      <4>1. ~(i < n + 1 => k < frames[i].part - 1)
        BY <1>4, <2>2, <3>2 DEF Passed
      <4>2. k \in Nat /\ frames[i].part \in Nat /\ i \in Nat
        <5>1. k \in Nat
          BY <1>14, <2>1, <2>2, NaturalKeys
        <5>2. frames[i] \in Frames
          BY <1>1, <2>1 DEF Calls
        <5> QED
          BY <1>4, <2>1, <5>1, <5>2 DEF Frames
      <4>3. i = n /\ k = frames[n].part - 1
        BY <1>4, <2>1, <2>2, <4>1, <4>2
      <4> QED
        BY <1>10, <1>13, <2>3, <4>3 DEF PartDone
    <3> QED
      BY <3>1, <3>2
  <2>5. PartDone(a, part, V, E)'
    BY <1>0, <1>11, <2>1, <2>3, <2>4, PartDoneKept
  <2> QED
    BY <1>0, <1>10, <2>1, <2>3, <2>5 DEF PartDone
<1>15. ASSUME NEW a \in V
       PROVE  Spliced(a, V, ToSet(key))' /\ joins'[a].parent \in V \cup Aliases'
  <2>1. Spliced(a, U, E)
    BY <1>9, <1>10, <1>12, <1>15 DEF UnderWay
  <2>2. Spliced(a, V, E)'
    BY <1>0, <1>11, <1>15, <2>1, SplicedKept
  <2>3. Spliced(a, V, ToSet(key))'
    BY <1>0, <1>10, <2>2 DEF Spliced, PartDone
  <2>4. joins[a].parent \in V \cup Aliases'
    <3>1. CASE a \in U
      BY <1>7, <1>9, <1>10, <3>1 DEF UnderWay
    <3>2. CASE a = Frame.alias
      <4>1. joins[a].parent = frames[n].alias
        BY <1>13, <3>2 DEF Link
      <4>2. frames[n].alias \in Aliases'
        BY <1>4, <1>5, <1>7 DEF Aliases
      <4> QED
        BY <4>1, <4>2
    <3> QED
      BY <1>10, <1>15, <3>1, <3>2
  <2> QED
    BY <1>0, <2>3, <2>4
<1>16. \A e \in ToSet(key') : e.alias \in V \cup Aliases' /\ e.cap = FALSE
  BY <1>0, <1>7, <1>9, <1>10 DEF UnderWay
<1>17. UnderWay(V)'
  BY <1>14, <1>15, <1>16 DEF UnderWay, PassedInv
<1> QED
  BY <1>0, <1>8, <1>11, <1>17 DEF KeyInv

LEMMA KeyStep == PlanInv /\ [Next]_vars => KeyInv'
<1> SUFFICES ASSUME PlanInv, [Next]_vars
             PROVE  KeyInv'
  OBVIOUS
<1>1. CASE Classify
  BY <1>1 DEF Classify, KeyInv
<1>2. CASE DropColumn \/ FlagUnmapped \/ TakeColumn
  BY <1>2 DEF DropColumn, FlagUnmapped, TakeColumn, InColumns, KeyInv
<1>3. CASE KeyUnregistered \/ KeyTooDeep
  BY <1>3 DEF KeyUnregistered, KeyTooDeep, GiveUp, KeyInv
<1>4. CASE KeyReturn
  <2>1. CASE Len(frames) = 1
    BY <1>4, <2>1 DEF KeyReturn, KeyInv
  <2> QED
    BY <1>4, <2>1, CallsOfReturn
<1>5. CASE Complete
  BY <1>5 DEF Complete, KeyInv
<1>6. CASE UNCHANGED vars
  <2>1. pc' = pc /\ (pc = "key" => CallsInv')
    BY <1>6 DEF vars, input, PlanInv, KeyInv, CallsInv, Calls, Current, Translated, Dropped
  <2>2. ASSUME pc = "key"
        PROVE  \E U \in SUBSET (DOMAIN joins)' : UnderWay(U)'
    <3>1. PICK U \in SUBSET (DOMAIN joins) : UnderWay(U)
      BY <2>2 DEF PlanInv, KeyInv
    <3>2. UnderWay(U)'
      BY <1>6, <3>1 DEF vars, input, UnderWay, PassedInv, Passed, Spliced, PartDone, Calls, Aliases, Common
    <3> QED
      BY <1>6, <3>1, <3>2 DEF vars
  <2> QED
    BY <2>1, <2>2 DEF KeyInv
<1> QED
  BY <1>1, <1>2, <1>3, <1>4, <1>5, <1>6, CallsOfTranslate, CallsOfColumn, CallsOfFollow DEF Next, Planned

-----------------------------------------------------------------------------
(***************************************************************************)
(* The columns looked at.  What is known of them stays true as long as     *)
(* columns are taken off todo, and joins and expressions are added; and a  *)
(* marker is added to skipped only for a column that is still to look at.  *)
(***************************************************************************)
Onwards ==
  /\ UNCHANGED <<table, catalogs, full, giantDepth>>
  /\ JoinsKept
  /\ todo' \subseteq todo
  /\ ToSet(exprs) \subseteq ToSet(exprs')
  /\ skipped \subseteq skipped'
  /\ \A x \in skipped' \ skipped : Len(x) = 2 => x[1] \notin Seen

LEMMA ColumnsKept ==
  ASSUME Onwards, NEW S \in SUBSET (DOMAIN joins), NEW S2, S \subseteq S2
  PROVE  /\ Seen \subseteq Seen'
         /\ \A col : SeenAs(col, S) => SeenAs(col, S2)'
         /\ \A e : ExprOf(e, S) => ExprOf(e, S2)'
         /\ SpliceInv(S) => \A a \in S : /\ Spliced(a, S2, ToSet(exprs))'
                                         /\ (joins[a].parent \in S2 \/ RootOf(a))'
<1>1. /\ \A t : Common(t)' = Common(t)
      /\ \A col : /\ Dropped(col)' = Dropped(col) /\ Translated(col)' = Translated(col)
                  /\ Unmapped(col)' = Unmapped(col) /\ Lifecycle(col)' = Lifecycle(col)
                  /\ Plain(col)' = Plain(col) /\ Taken(col)' = Taken(col)
                  /\ Marker(col)' = Marker(col)
  BY Unchanged DEF Onwards
<1>2. Seen \subseteq Seen'
  BY <1>1 DEF Onwards, Seen, Common
<1>3. ASSUME NEW col, SeenAs(col, S)
      PROVE  SeenAs(col, S2)'
  <2>1. Translated(col) => Marker(col) \in skipped' \/ \E a \in S2 : joins'[a] = Link(0, col, ResolveFk(table, col))
    BY <1>3 DEF SeenAs, Onwards, JoinsKept
  <2>2. Plain(col) => Taken(col) \in ToSet(exprs')
    BY <1>3 DEF SeenAs, Onwards
  <2>3. Unmapped(col) => <<col>> \in skipped'
    BY <1>3 DEF SeenAs, Onwards
  <2> QED
    BY <1>1, <2>1, <2>2, <2>3 DEF SeenAs, Onwards
<1>4. ASSUME NEW e, ExprOf(e, S)
      PROVE  ExprOf(e, S2)'
  BY <1>1, <1>2, <1>4 DEF ExprOf
<1>5. ASSUME SpliceInv(S), NEW a \in S
      PROVE  Spliced(a, S2, ToSet(exprs))' /\ (joins[a].parent \in S2 \/ RootOf(a))'
  <2>1. PICK E : E = ToSet(exprs')
    OBVIOUS
  <2>2. Spliced(a, S2, E)'
    BY <1>5, <2>1, SplicedKept DEF Onwards, SpliceInv
  <2>3. Spliced(a, S2, ToSet(exprs))'
    BY <2>1, <2>2 DEF Spliced, PartDone
  <2>4. joins'[a] = joins[a]
    BY <1>5 DEF Onwards, JoinsKept
  <2>5. CASE joins[a].parent \in S
    BY <2>3, <2>4, <2>5
  <2>6. CASE RootOf(a)
    <3>1. Marker(joins[a].col) \notin skipped'
      <4>1. Marker(joins[a].col) \notin skipped /\ joins[a].col \in Seen
        BY <2>6 DEF RootOf
      <4>2. Len(Marker(joins[a].col)) = 2 /\ Marker(joins[a].col)[1] = joins[a].col
        BY DEF Marker
      <4> QED
        BY <4>1, <4>2 DEF Onwards
    <3>2. RootOf(a)'
      <4>1. PICK col : col = joins[a].col
        OBVIOUS
      <4>2. Translated(col) /\ Translated(col)' /\ Marker(col)' = Marker(col) /\ joins'[a].col = col
        BY <1>1, <2>4, <2>6, <4>1 DEF RootOf
      <4>3. Translated(joins[a].col)' /\ Marker(joins[a].col)' \notin skipped'
        BY <3>1, <4>1, <4>2 DEF Translated, Dropped, Marker
      <4> QED
        BY <1>2, <2>4, <2>6, <4>3 DEF RootOf, Onwards
    <3> QED
      BY <2>3, <3>2
  <2> QED
    BY <1>5, <2>5, <2>6 DEF SpliceInv
<1> QED
  BY <1>2, <1>3, <1>4, <1>5

LEMMA ColumnsGrow ==
  ASSUME Onwards,
         NEW S \in SUBSET (DOMAIN joins), SeenInv(S), ExprsInv(S), SpliceInv(S),
         NEW S2 \in SUBSET (DOMAIN joins'), S \subseteq S2,
         NEW C, Seen' \subseteq Seen \cup C,
         \A col \in C : SeenAs(col, S2)',
         \A e \in ToSet(exprs') : e \in ToSet(exprs) \/ ExprOf(e, S2)',
         \A a \in S2 : a \in S \/ (Spliced(a, S2, ToSet(exprs))' /\ (joins[a].parent \in S2 \/ RootOf(a))')
  PROVE  SeenInv(S2)' /\ ExprsInv(S2)' /\ SpliceInv(S2)'
<1>1. /\ \A col : SeenAs(col, S) => SeenAs(col, S2)'
      /\ \A e : ExprOf(e, S) => ExprOf(e, S2)'
      /\ \A a \in S : /\ Spliced(a, S2, ToSet(exprs))'
                      /\ (joins[a].parent \in S2 \/ RootOf(a))'
  BY ColumnsKept
<1>2. SeenInv(S2)'
  BY <1>1 DEF SeenInv
<1>3. ExprsInv(S2)'
  BY <1>1 DEF ExprsInv
<1>4. SpliceInv(S2)'
  BY <1>1 DEF SpliceInv
<1> QED
  BY <1>2, <1>3, <1>4

LEMMA ColumnMore ==
  ASSUME Onwards,
         NEW S \in SUBSET (DOMAIN joins), SeenInv(S), ExprsInv(S), SpliceInv(S),
         NEW c, Seen' \subseteq Seen \/ (Seen' \subseteq Seen \cup {c} /\ SeenAs(c, S)'),
         \A e \in ToSet(exprs') : e \in ToSet(exprs) \/ ExprOf(e, S)'
  PROVE  S \in SUBSET (DOMAIN joins') /\ SeenInv(S)' /\ ExprsInv(S)' /\ SpliceInv(S)'
<1>1. S \in SUBSET (DOMAIN joins')
  BY DEF Onwards, JoinsKept
<1>2. /\ \A col : SeenAs(col, S) => SeenAs(col, S)'
      /\ \A e : ExprOf(e, S) => ExprOf(e, S)'
      /\ \A a \in S : /\ Spliced(a, S, ToSet(exprs))'
                      /\ (joins[a].parent \in S \/ RootOf(a))'
  BY ColumnsKept
<1>3. SeenInv(S)'
  BY <1>2 DEF SeenInv
<1>4. ExprsInv(S)'
  BY <1>2 DEF ExprsInv
<1>5. SpliceInv(S)'
  BY <1>2 DEF SpliceInv
<1> QED
  BY <1>1, <1>3, <1>4, <1>5

Listed(x) ==
  /\ Len(x) \in 1..3
  /\ Len(x) = 1 => Unmapped(x[1]) /\ x[1] \in Seen
  /\ Len(x) = 2 => Translated(x[1]) /\ x[1] \in Seen /\ x = Marker(x[1])

LEMMA SkippedGrow ==
  ASSUME Onwards, SkippedInv, \A x \in skipped' : x \in skipped \/ Listed(x)'
  PROVE  SkippedInv'
<1>1. /\ \A t : Common(t)' = Common(t)
      /\ \A col : /\ Translated(col)' = Translated(col) /\ Unmapped(col)' = Unmapped(col)
                  /\ Marker(col)' = Marker(col)
  BY Unchanged DEF Onwards
<1>2. Seen \subseteq Seen'
  BY <1>1 DEF Onwards, Seen, Common
<1>3. ASSUME NEW x \in skipped
      PROVE  Listed(x)'
  <2>1. Listed(x)
    BY <1>3 DEF SkippedInv, Listed
  <2> QED
    BY <1>1, <1>2, <2>1 DEF Listed
<1> QED
  BY <1>3 DEF SkippedInv, Listed

LEMMA ColumnsStill ==
  ASSUME ColumnsInv, UNCHANGED <<table, catalogs, full, giantDepth, todo, exprs, skipped>>, JoinsKept
  PROVE  ColumnsInv'
<1>1. Onwards /\ Seen' = Seen
  BY DEF Onwards, Seen, Common
<1>2. SkippedInv'
  BY <1>1, SkippedGrow DEF ColumnsInv
<1>3. PICK S \in SUBSET (DOMAIN joins) : SeenInv(S) /\ ExprsInv(S) /\ SpliceInv(S)
  BY DEF ColumnsInv
<1>4. Seen' \subseteq Seen /\ \A e \in ToSet(exprs') : e \in ToSet(exprs)
  BY <1>1
<1>5. S \in SUBSET (DOMAIN joins') /\ SeenInv(S)' /\ ExprsInv(S)' /\ SpliceInv(S)'
  BY <1>1, <1>3, <1>4, ColumnMore
<1> QED
  BY <1>2, <1>5 DEF ColumnsInv

(* A column is done with, and no join added. *)
LEMMA ColumnDone ==
  ASSUME ColumnsInv, PlanTypes, UNCHANGED <<table, catalogs, full, giantDepth, joins>>,
         todo # {}, todo' = todo \ {Current}
  PROVE  /\ JoinsKept /\ Seen' = Seen \cup {Current} /\ Current \notin Seen /\ todo' \subseteq todo
         /\ \A col : /\ Dropped(col)' = Dropped(col) /\ Translated(col)' = Translated(col)
                     /\ Unmapped(col)' = Unmapped(col) /\ Lifecycle(col)' = Lifecycle(col)
                     /\ Plain(col)' = Plain(col) /\ Taken(col)' = Taken(col)
                     /\ Marker(col)' = Marker(col)
<1>1. Current \in todo /\ Current \in Common(table)
  BY CurrentIn
<1>2. todo \subseteq Common(table)
  BY DEF PlanTypes
<1>3. Common(table)' = Common(table)
  BY DEF Common
<1> QED
  BY <1>1, <1>2, <1>3, Unchanged DEF JoinsKept, Seen

LEMMA ColumnsOfDrop ==
  ASSUME PlanInv, DropColumn
  PROVE  ColumnsInv'
<1>0. PICK c : c = Current
  OBVIOUS
<1>1. /\ UNCHANGED <<table, catalogs, full, giantDepth, joins, exprs, skipped>>
      /\ todo # {} /\ todo' = todo \ {Current} /\ Dropped(c)
  BY <1>0 DEF DropColumn, InColumns, input
<1>2. ColumnsInv /\ PlanTypes
  BY DEF PlanInv
<1>3. /\ JoinsKept /\ Seen' = Seen \cup {c} /\ c \notin Seen /\ todo' \subseteq todo
      /\ Dropped(c)'
  BY <1>0, <1>1, <1>2, ColumnDone
<1>4. Onwards
  BY <1>1, <1>3 DEF Onwards
<1>5. SkippedInv'
  BY <1>1, <1>2, <1>4, SkippedGrow DEF ColumnsInv
<1>6. PICK S \in SUBSET (DOMAIN joins) : SeenInv(S) /\ ExprsInv(S) /\ SpliceInv(S)
  BY <1>2 DEF ColumnsInv
<1>7. SeenAs(c, S)'
  BY <1>3 DEF SeenAs, Plain, Translated, Unmapped
<1>8. S \in SUBSET (DOMAIN joins') /\ SeenInv(S)' /\ ExprsInv(S)' /\ SpliceInv(S)'
  BY <1>1, <1>3, <1>4, <1>6, <1>7, ColumnMore
<1> QED
  BY <1>1, <1>5, <1>6, <1>8 DEF ColumnsInv

LEMMA ColumnsOfFlag ==
  ASSUME PlanInv, FlagUnmapped
  PROVE  ColumnsInv'
<1>0. PICK c : c = Current
  OBVIOUS
<1>1. /\ UNCHANGED <<table, catalogs, full, giantDepth, joins, exprs>>
      /\ todo # {} /\ todo' = todo \ {Current} /\ Unmapped(c)
      /\ skipped' = skipped \cup {<<c>>}
  BY <1>0 DEF FlagUnmapped, InColumns, input
<1>2. ColumnsInv /\ PlanTypes
  BY DEF PlanInv
<1>3. /\ JoinsKept /\ Seen' = Seen \cup {c} /\ c \notin Seen /\ todo' \subseteq todo
      /\ Unmapped(c)'
  BY <1>0, <1>1, <1>2, ColumnDone
<1>4. Len(<<c>>) = 1 /\ <<c>>[1] = c
  OBVIOUS
<1>5. Onwards
  BY <1>1, <1>3, <1>4 DEF Onwards
<1>6. SkippedInv'
  <2>1. Listed(<<c>>)'
    BY <1>3, <1>4 DEF Listed
  <2> QED
    BY <1>1, <1>2, <1>5, <2>1, SkippedGrow DEF ColumnsInv
<1>7. PICK S \in SUBSET (DOMAIN joins) : SeenInv(S) /\ ExprsInv(S) /\ SpliceInv(S)
  BY <1>2 DEF ColumnsInv
<1>8. SeenAs(c, S)'
  <2>1. ~Plain(c)' /\ ~Translated(c)' /\ <<c>> \in skipped'
    BY <1>1, <1>3 DEF Plain, Translated, Unmapped
  <2> QED
    BY <2>1 DEF SeenAs
<1>9. S \in SUBSET (DOMAIN joins') /\ SeenInv(S)' /\ ExprsInv(S)' /\ SpliceInv(S)'
  BY <1>1, <1>3, <1>5, <1>7, <1>8, ColumnMore
<1> QED
  BY <1>1, <1>6, <1>7, <1>9 DEF ColumnsInv

LEMMA ColumnsOfTake ==
  ASSUME PlanInv, TakeColumn
  PROVE  ColumnsInv'
<1>0. PICK c : c = Current
  OBVIOUS
<1>1. /\ UNCHANGED <<table, catalogs, full, giantDepth, joins, skipped>>
      /\ todo # {} /\ todo' = todo \ {Current} /\ Plain(c)
      /\ exprs' = Append(exprs, Taken(c))
  BY <1>0 DEF TakeColumn, InColumns, input, Plain, Taken
<1>2. ColumnsInv /\ PlanTypes
  BY DEF PlanInv
<1>3. /\ JoinsKept /\ Seen' = Seen \cup {c} /\ c \notin Seen /\ todo' \subseteq todo
      /\ Plain(c)' /\ Taken(c)' = Taken(c) /\ Lifecycle(c)' = Lifecycle(c)
  BY <1>0, <1>1, <1>2, ColumnDone
<1>4. /\ ToSet(exprs) \subseteq ToSet(exprs') /\ Taken(c) \in ToSet(exprs')
      /\ \A e \in ToSet(exprs') : e \in ToSet(exprs) \/ e = Taken(c)
  <2>1. exprs \in Seq(Exprs)
    BY <1>2 DEF PlanTypes
  <2> QED
    BY <1>1, <2>1 DEF ToSet
<1>5. Onwards
  BY <1>1, <1>3, <1>4 DEF Onwards
<1>6. SkippedInv'
  BY <1>1, <1>2, <1>5, SkippedGrow DEF ColumnsInv
<1>7. PICK S \in SUBSET (DOMAIN joins) : SeenInv(S) /\ ExprsInv(S) /\ SpliceInv(S)
  BY <1>2 DEF ColumnsInv
<1>8. SeenAs(c, S)'
  <2>1. ~Unmapped(c)' /\ ~Translated(c)' /\ Taken(c)' \in ToSet(exprs')
    BY <1>3, <1>4 DEF Plain
  <2> QED
    BY <2>1 DEF SeenAs
<1>9. PICK e : e = Taken(c)
  OBVIOUS
<1>10. ExprOf(e, S)'
  <2>1. e.alias = 0 /\ e.col = c /\ e.cap = Lifecycle(c)
    BY <1>9 DEF Taken, Expr
  <2>2. c \in Seen' /\ Plain(c)' /\ e.cap = Lifecycle(c)'
    BY <1>3, <2>1
  <2> QED
    BY <2>1, <2>2 DEF ExprOf
<1>11. S \in SUBSET (DOMAIN joins') /\ SeenInv(S)' /\ ExprsInv(S)' /\ SpliceInv(S)'
  BY <1>1, <1>3, <1>4, <1>5, <1>7, <1>8, <1>9, <1>10, ColumnMore
<1> QED
  BY <1>1, <1>6, <1>7, <1>11 DEF ColumnsInv

(* The column is dropped; what its key had come to is not kept. *)
LEMMA ColumnsOfGiveUp ==
  ASSUME PlanInv, pc = "key", NEW markers, \A x \in markers : Len(x) = 3, GiveUp(markers)
  PROVE  ColumnsInv'
<1>0. PICK c : c = Current
  OBVIOUS
<1>1. /\ UNCHANGED <<table, catalogs, full, giantDepth, joins, exprs>>
      /\ todo' = todo \ {Current} /\ skipped' = skipped \cup markers \cup {Marker(c)}
  BY <1>0 DEF GiveUp, input, Marker
<1>2. ColumnsInv /\ PlanTypes /\ todo # {} /\ Translated(c)
  BY <1>0 DEF PlanInv, KeyInv, CallsInv
<1>3. /\ JoinsKept /\ Seen' = Seen \cup {c} /\ c \notin Seen /\ todo' \subseteq todo
      /\ Translated(c)' /\ Marker(c)' = Marker(c)
  BY <1>0, <1>1, <1>2, ColumnDone
<1>4. Len(Marker(c)) = 2 /\ Marker(c)[1] = c
  BY DEF Marker
<1>5. Onwards
  BY <1>1, <1>3, <1>4 DEF Onwards
<1>6. SkippedInv'
  <2>1. ASSUME NEW x \in skipped', x \notin skipped
        PROVE  Listed(x)'
    <3>1. CASE x \in markers
      BY <3>1 DEF Listed
    <3>2. CASE x = Marker(c)
      <4>1. Len(x) = 2 /\ x[1] = c
        BY <1>4, <3>2
      <4>2. Translated(x[1])' /\ x[1] \in Seen' /\ x = Marker(x[1])'
        BY <1>3, <3>2, <4>1
      <4> QED
        BY <4>1, <4>2 DEF Listed
    <3> QED
      BY <1>1, <2>1, <3>1, <3>2
  <2> QED
    BY <1>2, <1>5, <2>1, SkippedGrow DEF ColumnsInv
<1>7. PICK S \in SUBSET (DOMAIN joins) : SeenInv(S) /\ ExprsInv(S) /\ SpliceInv(S)
  BY <1>2 DEF ColumnsInv
<1>8. SeenAs(c, S)'
  <2>1. ~Unmapped(c)' /\ ~Plain(c)' /\ Marker(c)' \in skipped'
    BY <1>1, <1>3 DEF Plain, Translated, Unmapped
  <2> QED
    BY <2>1 DEF SeenAs
<1>9. S \in SUBSET (DOMAIN joins') /\ SeenInv(S)' /\ ExprsInv(S)' /\ SpliceInv(S)'
  BY <1>1, <1>3, <1>5, <1>7, <1>8, ColumnMore
<1> QED
  BY <1>1, <1>6, <1>7, <1>9 DEF ColumnsInv

(* The key of the column is complete: its expressions and aliases count. *)
LEMMA ColumnsOfReturn ==
  ASSUME PlanInv, KeyReturn, Len(frames) = 1
  PROVE  ColumnsInv'
<1>0. PICK c, a1 : c = Current /\ a1 = Frame.alias
  OBVIOUS
<1>1. /\ UNCHANGED <<table, catalogs, full, giantDepth, joins, skipped>> /\ pc = "key"
      /\ todo' = todo \ {Current} /\ exprs' = exprs \o key
      /\ Frame.target \in DOMAIN NATURAL_KEYS /\ Frame.part > Len(NATURAL_KEYS[Frame.target])
  BY <1>0 DEF KeyReturn, input, Registered
<1>2. ColumnsInv /\ PlanTypes /\ todo # {} /\ Translated(c)
  BY <1>0, <1>1 DEF PlanInv, KeyInv, CallsInv
<1>3. /\ JoinsKept /\ Seen' = Seen \cup {c} /\ c \notin Seen /\ todo' \subseteq todo
      /\ Translated(c)' /\ Marker(c)' = Marker(c)
  BY <1>0, <1>1, <1>2, ColumnDone
<1>4. /\ Calls = {1} /\ frames[1] = Frame /\ Frame \in Frames /\ Aliases = {a1}
      /\ a1 \in DOMAIN joins /\ joins[a1] = Link(0, c, ResolveFk(table, c))
      /\ joins[a1].target = Frame.target
  <2>1. /\ CallsInv /\ Calls = 1..Len(frames) /\ Frame = frames[Len(frames)] /\ Frame \in Frames
        /\ Frame.alias \in DOMAIN joins /\ joins[Frame.alias].target = Frame.target
    BY <1>1, CallsIn
  <2>2. Calls = {1} /\ frames[1] = Frame
    BY <2>1
  <2> QED
    BY <1>0, <2>1, <2>2 DEF CallsInv, Aliases
<1>5. /\ ToSet(exprs') = ToSet(exprs) \cup ToSet(key)
  <2>1. exprs \in Seq(Exprs) /\ key \in Seq(Exprs)
    BY <1>2 DEF PlanTypes
  <2>2. ASSUME NEW i \in DOMAIN exprs'
        PROVE  exprs'[i] \in ToSet(exprs) \cup ToSet(key)
    BY <1>1, <2>1, <2>2 DEF ToSet
  <2>3. ASSUME NEW i \in DOMAIN exprs
        PROVE  exprs[i] \in ToSet(exprs')
    BY <1>1, <2>1, <2>3 DEF ToSet
  <2>4. ASSUME NEW i \in DOMAIN key
        PROVE  key[i] \in ToSet(exprs')
    <3>1. i + Len(exprs) \in DOMAIN exprs' /\ exprs'[i + Len(exprs)] = key[i]
      BY <1>1, <2>1, <2>4
    <3> QED
      BY <3>1 DEF ToSet
  <2> QED
    BY <2>2, <2>3, <2>4 DEF ToSet
<1>6. Onwards
  BY <1>1, <1>3, <1>5 DEF Onwards
<1>7. SkippedInv'
  BY <1>1, <1>2, <1>6, SkippedGrow DEF ColumnsInv
<1>8. PICK S \in SUBSET (DOMAIN joins) : SeenInv(S) /\ ExprsInv(S) /\ SpliceInv(S)
  BY <1>2 DEF ColumnsInv
<1>9. PICK U \in SUBSET (DOMAIN joins) : UnderWay(U)
  BY <1>1 DEF PlanInv, KeyInv
<1>10. PICK S2, K, E : S2 = S \cup U \cup {a1} /\ K = ToSet(key) /\ E = ToSet(exprs')
  OBVIOUS
<1>11. S2 \in SUBSET (DOMAIN joins) /\ S \subseteq S2 /\ U \subseteq S2 /\ a1 \in S2
  BY <1>4, <1>10
<1>12. Spliced(a1, U, K)
  <2>1. ASSUME NEW k \in DOMAIN NATURAL_KEYS[Frame.target]
        PROVE  k \in Passed(1)
    <3>1. k \in 1..Len(NATURAL_KEYS[Frame.target]) /\ Len(NATURAL_KEYS[Frame.target]) \in Nat
      BY <1>1, <2>1, NaturalKeys
    <3>2. k < Frame.part
      BY <1>1, <1>4, <3>1 DEF Frames
    <3> QED
      BY <1>4, <2>1, <3>2 DEF Passed
  <2>2. ASSUME NEW k \in DOMAIN NATURAL_KEYS[Frame.target]
        PROVE  PartDone(a1, NATURAL_KEYS[Frame.target][k], U, K)
    BY <1>0, <1>1, <1>4, <1>9, <1>10, <2>1, <2>2 DEF UnderWay, PassedInv
  <2> QED
    BY <1>1, <1>4, <2>2 DEF Spliced
<1>13. ASSUME NEW a \in S2, a \notin S
       PROVE  Spliced(a, S2, ToSet(exprs))' /\ (joins[a].parent \in S2 \/ RootOf(a))'
  <2>1. Spliced(a, U, K)
    BY <1>9, <1>10, <1>12, <1>13 DEF UnderWay
  <2>2. Spliced(a, S2, E)'
    BY <1>1, <1>3, <1>5, <1>10, <1>11, <1>13, <2>1, SplicedKept
  <2>3. Spliced(a, S2, ToSet(exprs))'
    BY <1>10, <2>2 DEF Spliced, PartDone
  <2>4. CASE a = a1
    <3>1. joins'[a].parent = 0 /\ joins'[a].col = c /\ joins'[a].target = ResolveFk(table, c)
      BY <1>1, <1>4, <2>4 DEF Link
    <3>2. Marker(c) \notin skipped
      <4>1. Len(Marker(c)) = 2 /\ Marker(c)[1] = c
        BY DEF Marker
      <4> QED
        BY <1>2, <1>3, <4>1 DEF ColumnsInv, SkippedInv
    <3>3. Translated(c)' /\ Marker(c)' \notin skipped' /\ c \in Seen'
      BY <1>1, <1>3, <3>2
    <3>4. RootOf(a)'
      BY <1>1, <3>1, <3>3 DEF RootOf
    <3> QED
      BY <2>3, <3>4
  <2>5. CASE a \in U
    <3>1. joins[a].parent \in S2
      BY <1>4, <1>9, <1>10, <2>5 DEF UnderWay
    <3> QED
      BY <1>1, <2>3, <3>1
  <2> QED
    BY <1>10, <1>13, <2>4, <2>5
<1>14. /\ \A col : SeenAs(col, S) => SeenAs(col, S2)'
       /\ \A e : ExprOf(e, S) => ExprOf(e, S2)'
       /\ \A a \in S : /\ Spliced(a, S2, ToSet(exprs))'
                       /\ (joins[a].parent \in S2 \/ RootOf(a))'
  BY <1>6, <1>8, <1>11, ColumnsKept
<1>15. SeenAs(c, S2)'
  <2>1. ~Plain(c)' /\ ~Unmapped(c)'
    BY <1>3 DEF Plain, Translated, Unmapped
  <2>2. a1 \in S2 /\ joins'[a1] = Link(0, c, ResolveFk(table', c))
    BY <1>1, <1>4, <1>11
  <2> QED
    BY <2>1, <2>2 DEF SeenAs
<1>16. SeenInv(S2)'
  BY <1>3, <1>8, <1>14, <1>15 DEF SeenInv
<1>17. ASSUME NEW e \in ToSet(exprs')
       PROVE  ExprOf(e, S2)'
  <2>1. CASE e \in ToSet(exprs)
    BY <1>8, <1>14, <2>1 DEF ExprsInv
  <2>2. CASE e \in ToSet(key)
    BY <1>4, <1>9, <1>10, <2>2 DEF UnderWay, ExprOf
  <2> QED
    BY <1>5, <1>17, <2>1, <2>2
<1>18. SpliceInv(S2)'
  BY <1>13, <1>14 DEF SpliceInv
<1>19. ExprsInv(S2)'
  BY <1>17 DEF ExprsInv
<1> QED
  BY <1>1, <1>7, <1>11, <1>16, <1>18, <1>19 DEF ColumnsInv

LEMMA ColumnsStep == PlanInv /\ [Next]_vars => ColumnsInv'
<1> SUFFICES ASSUME PlanInv, [Next]_vars
             PROVE  ColumnsInv'
  OBVIOUS
<1>1. ColumnsInv
  BY DEF PlanInv
<1>2. CASE Classify \/ KeyColumn \/ Complete
  <2>1. UNCHANGED <<table, catalogs, full, giantDepth, todo, exprs, skipped>> /\ JoinsKept
    BY <1>2 DEF Classify, KeyColumn, Complete, input, JoinsKept
  <2> QED
    BY <1>1, <2>1, ColumnsStill
<1>3. CASE TranslateColumn
  <2>1. UNCHANGED <<table, catalogs, full, giantDepth, todo, exprs, skipped>>
    BY <1>3 DEF TranslateColumn, input
  <2> QED
    BY <1>1, <1>3, <2>1, ColumnsStill, TranslateStep
<1>4. CASE KeyFollow
  <2>1. UNCHANGED <<table, catalogs, full, giantDepth, todo, exprs, skipped>>
    BY <1>4 DEF KeyFollow, input
  <2> QED
    BY <1>1, <1>4, <2>1, ColumnsStill, FollowStep
<1>5. CASE KeyUnregistered
  BY <1>5, ColumnsOfGiveUp DEF KeyUnregistered
<1>6. CASE KeyTooDeep
  <2>1. pc = "key" /\ GiveUp({<<Frame.target, Part.col, Part.to>>})
    BY <1>6 DEF KeyTooDeep, AtPart
  <2>2. \A x \in {<<Frame.target, Part.col, Part.to>>} : Len(x) = 3
    OBVIOUS
  <2> QED
    BY <2>1, <2>2, ColumnsOfGiveUp
<1>7. CASE KeyReturn
  <2>1. CASE Len(frames) = 1
    BY <1>7, <2>1, ColumnsOfReturn
  <2>2. CASE Len(frames) # 1
    <3>1. UNCHANGED <<table, catalogs, full, giantDepth, todo, exprs, skipped>> /\ JoinsKept
      BY <1>7, <2>2 DEF KeyReturn, input, JoinsKept
    <3> QED
      BY <1>1, <3>1, ColumnsStill
  <2> QED
    BY <2>1, <2>2
<1>8. CASE UNCHANGED vars
  <2>1. UNCHANGED <<table, catalogs, full, giantDepth, todo, exprs, skipped>> /\ JoinsKept
    BY <1>8 DEF vars, input, JoinsKept
  <2> QED
    BY <1>1, <2>1, ColumnsStill
<1> QED
  BY <1>2, <1>3, <1>4, <1>5, <1>6, <1>7, <1>8, ColumnsOfDrop, ColumnsOfFlag, ColumnsOfTake DEF Next, Planned

-----------------------------------------------------------------------------
(***************************************************************************)
(* Every reachable state of the planner: each column looked at is in the   *)
(* hash as it is, or by the natural key of what it names in full (every    *)
(* part spliced in, through every table on the way), or its name is in     *)
(* skipped_cols; and whatever is in the hash stands for such a column.     *)
(***************************************************************************)
THEOREM PlanInvariance == Spec => []PlanInv
<1>1. Init => PlanInv
  <2> SUFFICES ASSUME Init PROVE PlanInv
    OBVIOUS
  <2>1. PlanTypes
    <3>1. <<>> \in Seq(Joins) /\ <<>> \in Seq(Exprs) /\ <<>> \in Seq(Frames) /\ DOMAIN joins = {}
      BY DEF Init
    <3> QED
      BY <3>1 DEF Init, PlanTypes, Steps, Kinds
  <2>2. CourseInv
    BY DEF Init, CourseInv
  <2>3. ColumnsInv
    <3>1. ToSet(exprs) = {} /\ Seen = {} /\ skipped = {}
      BY DEF Init, ToSet, Seen
    <3>2. SkippedInv /\ SeenInv({}) /\ ExprsInv({}) /\ SpliceInv({})
      BY <3>1 DEF SkippedInv, SeenInv, ExprsInv, SpliceInv
    <3> QED
      BY <3>2 DEF ColumnsInv
  <2>4. KeyInv
    BY DEF Init, KeyInv
  <2>5. JoinsInv
    BY DEF Init, JoinsInv
  <2> QED
    BY <2>1, <2>2, <2>3, <2>4, <2>5 DEF PlanInv
<1>2. PlanInv /\ [Next]_vars => PlanInv'
  BY TypesStep, CourseStep, ColumnsStep, KeyStep, JoinsStep DEF PlanInv
<1> QED
  BY <1>1, <1>2, PTL DEF Spec

(***************************************************************************)
(* Type correctness of a plan, and: every alias that an expression, a call *)
(* under way or a later join uses has its LEFT JOIN, the parent's first,   *)
(* whatever JoinBuilder and natural_key_exprs were asked for.              *)
(***************************************************************************)
THEOREM TypeCorrect == Spec => []TypeOK
<1>1. ASSUME PlanInv
      PROVE  TypeOK
  <2>1. PlanTypes /\ CourseInv /\ joins \in Seq(Joins) /\ exprs \in Seq(Exprs) /\ key \in Seq(Exprs)
        /\ frames \in Seq(Frames)
    BY <1>1 DEF PlanInv, PlanTypes
  <2>2. Len(joins) \in Nat /\ DOMAIN joins = 1..Len(joins)
    BY <2>1
  <2>3. pc # "key" <=> frames = <<>>
    BY <1>1, <2>1 DEF PlanInv, CourseInv, KeyInv, CallsInv
  <2>4. ASSUME NEW f \in ToSet(frames)
        PROVE  f.alias \in DOMAIN joins
    <3>1. pc = "key"
      BY <2>3, <2>4 DEF ToSet
    <3>2. CallsInv
      BY <1>1, <3>1 DEF PlanInv, KeyInv
    <3> QED
      BY <2>4, <3>2 DEF CallsInv, Calls, ToSet
  <2>5. ASSUME NEW e \in ToSet(exprs)
        PROVE  e.alias \in 0..Len(joins)
    <3>1. e.alias = 0 \/ e.alias \in DOMAIN joins
      BY <1>1, <2>5 DEF PlanInv, ColumnsInv, ExprsInv, ExprOf
    <3> QED
      BY <2>2, <3>1
  <2>6. ASSUME NEW e \in ToSet(key)
        PROVE  e.alias \in 0..Len(joins)
    <3>1. pc = "key"
      BY <2>1, <2>6 DEF CourseInv, ToSet
    <3>2. PICK U \in SUBSET (DOMAIN joins) : UnderWay(U)
      BY <1>1, <3>1 DEF PlanInv, KeyInv
    <3>3. e.alias \in U \cup Aliases
      BY <2>6, <3>2 DEF UnderWay
    <3>4. Aliases \subseteq DOMAIN joins
      BY <2>4 DEF Aliases, Calls, ToSet
    <3> QED
      BY <2>2, <3>3, <3>4
  <2>7. ToSet(exprs \o key) \subseteq ToSet(exprs) \cup ToSet(key)
    BY <2>1 DEF ToSet
  <2>8. \A e \in ToSet(exprs \o key) : e.alias \in 0..Len(joins)
    BY <2>5, <2>6, <2>7
  <2>9. \A f \in ToSet(frames) : f.alias \in 1..Len(joins)
    BY <2>2, <2>4
  <2> QED
    BY <2>1, <2>3, <2>8, <2>9 DEF TypeOK, PlanTypes, Steps, Kinds
<1> QED
  BY <1>1, PlanInvariance, PTL

(***************************************************************************)
(* A run across the upgrade of the epoch tables says so, for any two       *)
(* schemas with the one form of the aggregates or the other.               *)
(***************************************************************************)
THEOREM EpochsCovered == Spec => []EpochsNotSilent
<1>1. ASSUME PlanInv, \A d \in DB : "epoch" \in DOMAIN catalogs[d].columns
      PROVE  {"epoch", "epoch_finalized"} \cap CommonTables(catalogs) = {} <=> EpochNote(catalogs)
  <2>1. catalogs \in Catalogs
    BY <1>1 DEF PlanInv, PlanTypes
  <2>2. \A d \in DB : "epoch" \in catalogs[d].base <=> "epoch_finalized" \notin DOMAIN Introspect(catalogs[d])
    BY <1>1, <2>1, CatalogsAssumption
  <2>3. \A d \in DB : "epoch" \in DOMAIN Introspect(catalogs[d]) <=> "epoch" \in catalogs[d].base
    BY <1>1 DEF Introspect
  <2> QED
    BY <2>2, <2>3 DEF CommonTables, EpochNote, OnlyInDb, DB
<1>2. PlanInv => EpochsNotSilent
  BY <1>1 DEF EpochsNotSilent
<1> QED
  BY <1>2, PlanInvariance, PTL

(* Natural keys reach at most two tables below the one referenced.         *)
LEMMA Heights == \A t : Height(t) \in 1..3
BY DEF Height

(***************************************************************************)
(* Of a table that is no giant, a foreign key is skipped only if what it   *)
(* references has no natural key: the depth budget of plan_table never     *)
(* cuts one short.                                                         *)
(***************************************************************************)
THEOREM NeverTooDeep == Spec => []HeightInv
<1>1. Init => HeightInv
  BY DEF Init, HeightInv
<1>2. ASSUME PlanInv, HeightInv, [Next]_vars
      PROVE  HeightInv'
  <2>0. UNCHANGED <<table, catalogs, full, giantDepth>>
    BY <1>2, InputKept
  <2>1. PlanTypes /\ CourseInv
    BY <1>2 DEF PlanInv
  (* The calls go down. *)
  <2>2. pc' = "key" /\ ResolveFk(table', Current') \in DOMAIN NATURAL_KEYS =>
          \A i \in Calls' : frames'[i].target \in DOMAIN NATURAL_KEYS /\ i + Height(frames'[i].target) <= 4
    <3> SUFFICES ASSUME pc' = "key", ResolveFk(table', Current') \in DOMAIN NATURAL_KEYS, NEW i \in Calls'
                 PROVE  frames'[i].target \in DOMAIN NATURAL_KEYS /\ i + Height(frames'[i].target) <= 4
      OBVIOUS
    <3>1. CASE TranslateColumn
      <4>1. Current' = Current
        BY <3>1 DEF TranslateColumn, Current
      <4>2. DOMAIN frames' = {1} /\ frames'[1].target = ResolveFk(table, Current)
        <5>1. PICK a : frames' = <<[target |-> ResolveFk(table, Current), alias |-> a, part |-> 1, depth |-> 1]>>
          BY <1>2, <3>1, TranslateStep
        <5> QED
          BY <5>1
      <4>3. i = 1 /\ frames'[i].target \in DOMAIN NATURAL_KEYS
        BY <2>0, <4>1, <4>2 DEF Calls
      <4> QED
        BY <4>3, Heights
    <3>2. ASSUME pc = "key", todo' = todo
          PROVE  \A j \in Calls : frames[j].target \in DOMAIN NATURAL_KEYS /\ j + Height(frames[j].target) <= 4
      BY <1>2, <2>0, <3>2 DEF HeightInv, Current
    <3>3. CASE KeyColumn
      <4>1. pc = "key" /\ todo' = todo /\ frames' = NextPart
        BY <3>3 DEF KeyColumn, AtPart
      <4>2. /\ DOMAIN frames' = DOMAIN frames
            /\ \A j \in DOMAIN frames : frames'[j].target = frames[j].target
        BY <1>2, <4>1, CallsIn, NextPartIs DEF Calls
      <4> QED
        BY <3>2, <4>1, <4>2 DEF Calls
    <3>4. CASE KeyFollow
      <4>1. pc = "key" /\ todo' = todo /\ AtPart /\ Part.to # None /\ Frame.part >= 1
        BY <1>2, <3>4, FollowStep DEF KeyFollow, AtPart
      <4>2. PICK a : frames' = Append(NextPart, [target |-> Part.to, alias |-> a,
                                                part |-> 1, depth |-> Frame.depth + 1])
        BY <1>2, <3>4, FollowStep
      <4>3. PICK n : n = Len(frames)
        OBVIOUS
      <4>4. /\ n \in Nat \ {0} /\ Calls = 1..n /\ Frame = frames[n] /\ frames \in Seq(Frames) /\ frames # <<>>
        BY <1>2, <4>1, <4>3, CallsIn
      <4>5. /\ NextPart \in Seq(Frames) /\ Len(NextPart) = n
            /\ \A j \in 1..n : NextPart[j].target = frames[j].target
        BY <4>3, <4>4, NextPartIs DEF Calls
      <4>6. /\ DOMAIN frames' = 1..(n + 1) /\ frames'[n + 1].target = Part.to
            /\ \A j \in 1..n : frames'[j].target = frames[j].target
        BY <4>2, <4>4, <4>5
      <4>7. Part.to \in DOMAIN NATURAL_KEYS /\ Height(Part.to) < Height(Frame.target)
        BY <4>1, <4>4, PartIs
      <4>8. n \in Calls /\ n + Height(Frame.target) <= 4
        BY <3>2, <4>1, <4>4
      <4>9. (n + 1) + Height(Part.to) <= 4
        BY <4>4, <4>7, <4>8, Heights
      <4>10. CASE i = n + 1
        BY <4>6, <4>7, <4>9, <4>10
      <4>11. CASE i \in 1..n
        BY <3>2, <4>1, <4>4, <4>6, <4>11
      <4> QED
        BY <4>4, <4>6, <4>10, <4>11 DEF Calls
    <3>5. CASE KeyReturn
      <4>1. pc = "key" /\ Len(frames) # 1 /\ frames' = Front(frames) /\ todo' = todo
        BY <3>5 DEF KeyReturn
      <4>2. /\ Calls = 1..Len(frames) /\ frames \in Seq(Frames) /\ Len(frames) \in Nat \ {0}
        BY <1>2, <4>1, CallsIn
      <4>3. frames' = SubSeq(frames, 1, Len(frames) - 1)
        BY <4>1 DEF Front
      <4>4. \A j \in DOMAIN frames' : j \in Calls /\ frames'[j] = frames[j]
        BY <4>2, <4>3
      <4> QED
        BY <3>2, <4>1, <4>4 DEF Calls
    <3>6. CASE UNCHANGED vars
      BY <3>2, <3>6 DEF vars, Calls
    <3> QED
      BY <1>2, <3>1, <3>3, <3>4, <3>5, <3>6
      DEF Next, Classify, DropColumn, FlagUnmapped, TakeColumn, KeyUnregistered, KeyTooDeep, GiveUp,
          Complete, Planned, InColumns
  (* What is skipped has no natural key. *)
  <2>3. kind' # "giant" => \A x \in skipped' : Len(x) = 2 => ResolveFk(table, x[1]) \notin DOMAIN NATURAL_KEYS
    <3> SUFFICES ASSUME kind' # "giant", NEW x \in skipped', Len(x) = 2
                 PROVE  ResolveFk(table, x[1]) \notin DOMAIN NATURAL_KEYS
      OBVIOUS
    <3>1. CASE kind = "giant"
      <4>1. CASE pc = "classify"
        <5>1. skipped = {}
          BY <2>1, <4>1 DEF CourseInv
        <5>2. skipped' = skipped
          BY <1>2, <4>1
          DEF Next, Classify, DropColumn, TranslateColumn, FlagUnmapped, TakeColumn, InColumns, KeyUnregistered,
              KeyTooDeep, KeyColumn, KeyFollow, KeyReturn, AtPart, Complete, Planned, vars
        <5> QED
          BY <5>1, <5>2
      <4>2. CASE pc # "classify"
        <5>1. kind' = kind
          BY <1>2, <4>2
          DEF Next, Classify, DropColumn, TranslateColumn, FlagUnmapped, TakeColumn, KeyUnregistered,
              KeyTooDeep, GiveUp, KeyColumn, KeyFollow, KeyReturn, Complete, Planned, vars
        <5> QED
          BY <3>1, <5>1
      <4> QED
        BY <4>1, <4>2
    <3>2. CASE kind # "giant" /\ x \in skipped
      BY <1>2, <3>2 DEF HeightInv
    <3>3. CASE kind # "giant" /\ x \notin skipped
      <4>1. FlagUnmapped => FALSE
        <5>1. ASSUME FlagUnmapped
              PROVE  x = <<Current>>
          BY <3>3, <5>1 DEF FlagUnmapped
        <5> QED
          BY <5>1
      <4>2. CASE KeyUnregistered
        <5>1. pc = "key" /\ Frame.target \notin DOMAIN NATURAL_KEYS /\ x = <<Current, ResolveFk(table, Current)>>
          BY <3>3, <4>2 DEF KeyUnregistered, Registered, GiveUp
        <5>2. Len(frames) \in Calls /\ Frame = frames[Len(frames)]
          BY <1>2, <5>1, CallsIn
        <5>3. ResolveFk(table, Current) \notin DOMAIN NATURAL_KEYS
          BY <1>2, <5>1, <5>2 DEF HeightInv
        <5> QED
          BY <5>1, <5>3
      <4>3. CASE KeyTooDeep
        <5>1. /\ pc = "key" /\ AtPart /\ Part.to # None /\ Frame.depth >= MaxDepth
              /\ x \in {<<Frame.target, Part.col, Part.to>>, <<Current, ResolveFk(table, Current)>>}
          BY <3>3, <4>3 DEF KeyTooDeep, AtPart, GiveUp
        <5>2. /\ Len(frames) \in Calls /\ Frame = frames[Len(frames)] /\ Frame.depth = Len(frames)
              /\ Len(frames) \in Nat
          BY <1>2, <5>1, CallsIn
        <5>3. x # <<Frame.target, Part.col, Part.to>>
          BY <3>2
        <5>4. CASE ResolveFk(table, Current) \in DOMAIN NATURAL_KEYS
          <6>1. Len(frames) + Height(Frame.target) <= 4
            BY <1>2, <5>1, <5>2, <5>4 DEF HeightInv
          <6>2. MaxDepth = 8
            BY <2>1, <3>3, <5>1 DEF CourseInv, MaxDepth, NormalMaxDepth
          <6> QED
            BY <5>1, <5>2, <6>1, <6>2, Heights
        <5> QED
          BY <5>1, <5>3, <5>4
      <4> QED
        BY <1>2, <3>3, <4>1, <4>2, <4>3
        DEF Next, Classify, DropColumn, TranslateColumn, TakeColumn, KeyColumn, KeyFollow, KeyReturn,
            Complete, Planned, vars
    <3> QED
      BY <3>1, <3>2, <3>3
  <2> QED
    BY <2>0, <2>2, <2>3 DEF HeightInv
<1> QED
  BY <1>1, <1>2, PlanInvariance, PTL DEF Spec

-----------------------------------------------------------------------------
(***************************************************************************)
(* What an alias joins to a row.  The objects are given by a recursive     *)
(* function; it exists because each alias comes after its parent.          *)
(***************************************************************************)
ObjectOf(object, j, d, row) ==
  LET join   == joins[j]
      parent == object[join.parent]
  IN  CASE join.parent = 0                     -> Match(d, row[join.col], join.target)
        [] join.parent # 0 /\ parent = None    -> None
        [] join.parent # 0 /\ parent # None    ->
             Match(d, Objects[ParentTable(j)][parent][join.col], join.target)

LEMMA ObjectOfIs ==
  ASSUME NEW object, NEW j, NEW d, NEW row
  PROVE  ObjectOf(object, j, d, row) =
           IF joins[j].parent = 0 THEN Match(d, row[joins[j].col], joins[j].target)
           ELSE IF object[joins[j].parent] = None THEN None
           ELSE Match(d, Objects[ParentTable(j)][object[joins[j].parent]][joins[j].col], joins[j].target)
<1>1. CASE joins[j].parent = 0
  BY <1>1, Zenon DEF ObjectOf
<1>2. CASE joins[j].parent # 0 /\ object[joins[j].parent] = None
  BY <1>2, Zenon DEF ObjectOf
<1>3. CASE joins[j].parent # 0 /\ object[joins[j].parent] # None
  BY <1>3, Zenon DEF ObjectOf
<1> QED
  BY <1>1, <1>2, <1>3

LEMMA JoinedIs ==
  ASSUME joins \in Seq(Joins), \A j \in DOMAIN joins : joins[j].parent \in 0..(j - 1), NEW d, NEW row
  PROVE  \A j \in DOMAIN joins :
           JoinedObjects(d, row)[j] = ObjectOf(JoinedObjects(d, row), j, d, row)
<1> DEFINE F(f, n) == f = [j \in 1..n |-> ObjectOf(f, j, d, row)]
           N == {n \in Nat : n <= Len(joins) => \E f : F(f, n)}
<1>1. Len(joins) \in Nat /\ DOMAIN joins = 1..Len(joins)
  OBVIOUS
<1>2. 0 \in N
  <2>1. F([j \in 1..0 |-> None], 0)
    OBVIOUS
  <2> QED
    BY <2>1
<1>3. ASSUME NEW n \in Nat, n \in N
      PROVE  n + 1 \in N
  <2> SUFFICES ASSUME n + 1 <= Len(joins)
               PROVE  \E f : F(f, n + 1)
    OBVIOUS
  <2>1. PICK f : F(f, n)
    BY <1>1, <1>3
  <2> DEFINE g == [j \in 1..(n + 1) |-> ObjectOf(f, j, d, row)]
  <2>2. ASSUME NEW j \in 1..(n + 1)
        PROVE  ObjectOf(g, j, d, row) = ObjectOf(f, j, d, row)
    <3>1. j \in DOMAIN joins /\ joins[j].parent \in 0..n
      BY <1>1, <2>2
    <3>2. CASE joins[j].parent = 0
      BY <3>2, ObjectOfIs
    <3>3. CASE joins[j].parent # 0
      <4>1. joins[j].parent \in 1..n /\ joins[j].parent \in 1..(n + 1)
        BY <3>1, <3>3
      <4>2. g[joins[j].parent] = f[joins[j].parent]
        BY <2>1, <4>1
      <4> HIDE DEF g
      <4> QED
        BY <4>2, ObjectOfIs
    <3> QED
      BY <3>2, <3>3
  <2>3. F(g, n + 1)
    BY <2>2
  <2> QED
    BY <2>3
<1>4. \E f : F(f, Len(joins))
  <2> HIDE DEF N
  <2>1. Nat \subseteq N
    BY <1>2, <1>3, NatSetInduction
  <2> QED
    BY <1>1, <2>1 DEF N
<1>5. \E f : f = [j \in DOMAIN joins |-> ObjectOf(f, j, d, row)]
  BY <1>1, <1>4
<1>6. JoinedObjects(d, row) = CHOOSE f : f = [j \in DOMAIN joins |-> ObjectOf(f, j, d, row)]
  BY Zenon DEF JoinedObjects, ObjectOf
<1>7. JoinedObjects(d, row) = [j \in DOMAIN joins |-> ObjectOf(JoinedObjects(d, row), j, d, row)]
  BY <1>5, <1>6
<1> QED
  BY <1>7

(***************************************************************************)
(* A plan that is finished: S holds the aliases its keys are spliced from. *)
(***************************************************************************)
Finished(S) ==
  /\ PlanInv /\ pc = "done" /\ kind # "excluded"
  /\ S \in SUBSET (DOMAIN joins) /\ SeenInv(S) /\ ExprsInv(S) /\ SpliceInv(S)

LEMMA FinishedIs ==
  ASSUME NEW S, Finished(S)
  PROVE  /\ Seen = Common(table) /\ table \in DOMAIN Rows /\ extra = ExtraColumns(catalogs, table)
         /\ \A row \in Rows[table] : Common(table) \subseteq DOMAIN row
         /\ DOMAIN joins = 1..Len(joins) /\ Len(joins) \in Nat
         /\ \A a \in S : joins[a].parent \in 0..(a - 1)
<1>1. PlanTypes /\ CourseInv
  BY DEF Finished, PlanInv
<1>2. Seen = Common(table) /\ extra = ExtraColumns(catalogs, table)
  BY <1>1 DEF Finished, CourseInv, Seen
<1>3. table \in DOMAIN Rows /\ catalogs \in Catalogs /\ table \in CommonTables(catalogs)
  BY <1>1, PlanningAssumption DEF PlanTypes
<1>4. Common(table) \subseteq catalogs[1].columns[table] /\ table \in DOMAIN catalogs[1].columns
  BY <1>3, CommonOfTable DEF DB
<1>5. \A row \in Rows[table] : Common(table) \subseteq DOMAIN row
  BY <1>3, <1>4, RowsAssumption DEF DB
<1> QED
  BY <1>1, <1>2, <1>3, <1>5 DEF PlanTypes, Finished

LEMMA MatchIs ==
  ASSUME NEW t \in DOMAIN NATURAL_KEYS, NEW d \in DB, NEW named \in Int \cup {None}
  PROVE  Match(d, named, t) = IF named \in DOMAIN Objects[t] THEN named ELSE None
<1>1. None \notin Int /\ DOMAIN Objects[t] \subseteq Int
  BY PlanningAssumption, ObjectsAssumption
<1>2. {o \in DOMAIN Objects[t] : named # None /\ Id(d, o) = Id(d, named)} =
        {o \in DOMAIN Objects[t] : o = named}
  BY <1>1 DEF Id
<1> QED
  BY <1>2 DEF Match

(* What alias a joins, given what its parent joins. *)
Found(object, a, row) ==
  IF joins[a].parent = 0
  THEN IF row[joins[a].col] \in DOMAIN Objects[joins[a].target] THEN row[joins[a].col] ELSE None
  ELSE IF object[joins[a].parent] = None THEN None
       ELSE Objects[joins[joins[a].parent].target][object[joins[a].parent]][joins[a].col]

LEMMA ObjectsIs ==
  ASSUME NEW S, Finished(S), NEW d \in DB, NEW row \in Rows[table]
  PROVE  \A a \in S :
           /\ JoinedObjects(d, row)[a] = Found(JoinedObjects(d, row), a, row)
           /\ JoinedObjects(d, row)[a] \in DOMAIN Objects[joins[a].target] \cup {None}
<1>1. PICK J : J = JoinedObjects(d, row)
  OBVIOUS
<1>2. /\ Seen = Common(table) /\ table \in DOMAIN Rows /\ Common(table) \subseteq DOMAIN row
      /\ S \subseteq Nat /\ \A a \in S : a \in DOMAIN joins /\ joins[a].parent \in 0..(a - 1)
  BY FinishedIs DEF Finished
<1>3. \A j \in DOMAIN joins : J[j] = ObjectOf(J, j, d, row)
  BY <1>1, JoinedIs DEF Finished, PlanInv, PlanTypes
<1> DEFINE Good(a) == J[a] = Found(J, a, row) /\ J[a] \in DOMAIN Objects[joins[a].target] \cup {None}
           N == {n \in Nat : \A a \in S : a < n => Good(a)}
<1>4. 0 \in N
  <2>1. \A a \in S : ~(a < 0)
    <3>1. \A a \in Nat : ~(a < 0)
      OBVIOUS
    <3> QED
      BY <1>2, <3>1
  <2> QED
    BY <2>1
<1>5. ASSUME NEW n \in Nat, n \in N
      PROVE  n + 1 \in N
  <2> SUFFICES ASSUME NEW a \in S, a = n
               PROVE  Good(a)
    BY <1>2, <1>5
  <2>1. joins[a].target \in DOMAIN NATURAL_KEYS /\ (joins[a].parent \in S \/ RootOf(a))
    BY DEF Finished, SpliceInv, Spliced
  <2>2. J[a] = IF joins[a].parent = 0 THEN Match(d, row[joins[a].col], joins[a].target)
               ELSE IF J[joins[a].parent] = None THEN None
               ELSE Match(d, Objects[ParentTable(a)][J[joins[a].parent]][joins[a].col], joins[a].target)
    BY <1>2, <1>3, ObjectOfIs
  <2>3. CASE joins[a].parent = 0
    <3>1. PICK col : col = joins[a].col
      OBVIOUS
    <3>2. RootOf(a)
      BY <1>2, <2>1, <2>3
    <3>3. col \in DOMAIN row /\ joins[a].target = ResolveFk(table, col)
      BY <1>2, <3>1, <3>2 DEF RootOf
    <3>4. row[col] \in Int \cup {None}
      BY <1>2, <2>1, <3>3, RowsAssumption
    <3> QED
      BY <2>1, <2>2, <2>3, <3>1, <3>4, MatchIs DEF Found
  <2>4. CASE joins[a].parent # 0
    <3>1. PICK p : p = joins[a].parent
      OBVIOUS
    <3>2. p \in S /\ p < n
      BY <1>2, <2>1, <2>4, <3>1 DEF RootOf
    <3>3. J[p] \in DOMAIN Objects[joins[p].target] \cup {None}
      BY <1>2, <1>5, <3>2
    <3>4. CASE J[p] = None
      BY <2>2, <2>4, <3>1, <3>4 DEF Found
    <3>5. CASE J[p] # None
      <4>1. PICK t, i : /\ t \in DOMAIN NATURAL_KEYS /\ i \in DOMAIN NATURAL_KEYS[t] /\ joins[p].target = t
                        /\ NATURAL_KEYS[t][i].to # None
                        /\ joins[a].col = NATURAL_KEYS[t][i].col /\ joins[a].target = NATURAL_KEYS[t][i].to
        <5>1. Followed(joins[a], joins)
          BY <1>2 DEF Finished, PlanInv, JoinsInv
        <5> QED
          BY <2>4, <3>1, <5>1 DEF Followed
      <4>2. NATURAL_KEYS[t][i] \in ToSet(NATURAL_KEYS[t])
        BY <4>1 DEF ToSet
      <4>3. PICK value : value = Objects[t][J[p]][joins[a].col]
        OBVIOUS
      <4>4. value \in DOMAIN Objects[joins[a].target] \cup {None}
        BY <3>3, <3>5, <4>1, <4>2, <4>3, ObjectsAssumption
      <4>5. value \in Int \cup {None}
        BY <2>1, <4>4, ObjectsAssumption
      <4>6. Match(d, value, joins[a].target) = value
        BY <2>1, <4>4, <4>5, MatchIs
      <4>7. ParentTable(a) = t
        BY <2>4, <3>1, <4>1 DEF ParentTable
      <4> QED
        BY <2>2, <2>4, <3>1, <3>5, <4>1, <4>3, <4>4, <4>6, <4>7 DEF Found
    <3> QED
      BY <3>4, <3>5
  <2> QED
    BY <2>3, <2>4
<1>6. \A a \in S : Good(a)
  <2> HIDE DEF N
  <2>1. Nat \subseteq N
    BY <1>4, <1>5, NatSetInduction
  <2> QED
    BY <1>2, <2>1 DEF N
<1> QED
  BY <1>1, <1>6

-----------------------------------------------------------------------------
(***************************************************************************)
(* The columns compared, and the values under the md5 of a row.            *)
(***************************************************************************)
LEMMA ComparedIs ==
  ASSUME NEW S, Finished(S)
  PROVE  /\ ComparedColumns \subseteq Common(table)
         /\ \A c \in ComparedColumns : Plain(c) \/ (Translated(c) /\ Marker(c) \notin skipped)
         /\ \A c \in Common(table) : Plain(c) \/ (Translated(c) /\ Marker(c) \notin skipped) => c \in ComparedColumns
<1>1. /\ Seen = Common(table) /\ extra = ExtraColumns(catalogs, table)
      /\ catalogs \in Catalogs /\ table \in CommonTables(catalogs)
  BY FinishedIs DEF Finished, PlanInv, PlanTypes
<1>2. Common(table) = Introspect(catalogs[1])[table] \cap Introspect(catalogs[2])[table]
  BY <1>1, CommonOfTable
<1>3. extra = UNION {Introspect(catalogs[d])[table] \ Common(table) : d \in DB}
  BY <1>1 DEF ExtraColumns, Common
<1>4. Common(table) \cap extra = {}
  BY <1>3
<1>5. \A c \in UNION {Introspect(catalogs[d])[table] : d \in DB} : c \in Common(table) \/ c \in extra
  BY <1>3
<1>6. Common(table) \subseteq UNION {Introspect(catalogs[d])[table] : d \in DB}
  BY <1>2 DEF DB
<1>7. SkippedInv
  BY DEF Finished, PlanInv, ColumnsInv
<1>8. ASSUME NEW c \in ComparedColumns
      PROVE  c \in Common(table) /\ (Plain(c) \/ (Translated(c) /\ Marker(c) \notin skipped))
  <2>1. /\ c \in Common(table) /\ ~Dropped(c) /\ <<c>> \notin skipped /\ Marker(c) \notin skipped
    BY <1>5, <1>8 DEF ComparedColumns, Marker
  <2>2. ~Unmapped(c)
    BY <1>1, <2>1 DEF Finished, SeenInv, SeenAs
  <2> QED
    BY <2>1, <2>2 DEF Plain
<1>9. ASSUME NEW c \in Common(table), Plain(c) \/ (Translated(c) /\ Marker(c) \notin skipped)
      PROVE  c \in ComparedColumns
  <2>1. ~Dropped(c) /\ ~Unmapped(c)
    BY <1>9 DEF Plain, Translated, Unmapped
  <2>2. <<c>> \notin skipped
    <3>1. Len(<<c>>) = 1 /\ <<c>>[1] = c
      OBVIOUS
    <3> QED
      BY <1>7, <2>1, <3>1 DEF SkippedInv
  <2>3. Marker(c) \notin skipped
    <3>1. Len(Marker(c)) = 2 /\ Marker(c)[1] = c
      BY DEF Marker
    <3>2. CASE Plain(c)
      BY <1>7, <3>1, <3>2 DEF SkippedInv, Plain
    <3> QED
      BY <1>9, <3>2
  <2> QED
    BY <1>4, <1>6, <2>1, <2>2, <2>3 DEF ComparedColumns, Marker
<1> QED
  BY <1>8, <1>9

LEMMA NoEpochKeys ==
  ASSUME NEW c, Translated(c)
  PROVE  ~Lifecycle(c)
<1>1. ResolveFk("gov_action_proposal", "ratified_epoch") = None
  BY DEF ResolveFk, Overridden, OfName, FK_MAP, GLOBAL_FK
<1>2. Lifecycle(c) => table = "gov_action_proposal" /\ c = "ratified_epoch"
  BY DEF Lifecycle, LIFECYCLE_EPOCH_COLUMNS
<1> QED
  BY <1>1, <1>2 DEF Translated

LEMMA MeantIs ==
  ASSUME NEW S, Finished(S), NEW row \in Rows[table], NEW c \in ComparedColumns
  PROVE  /\ Translated(c) => Meant(row)[c] = row[c]
         /\ Plain(c) => Meant(row)[c] = IF Lifecycle(c) THEN UpToCutoff(row[c]) ELSE row[c]
<1>1. Meant(row)[c] = IF Lifecycle(c) /\ row[c] \notin 0..CutoffEpoch THEN None ELSE row[c]
  BY DEF Meant
<1>2. c \in DOMAIN row /\ table \in DOMAIN Rows
  BY FinishedIs, ComparedIs
<1>3. Lifecycle(c) => row[c] \in Nat \cup {None}
  BY <1>2, RowsAssumption DEF Lifecycle
<1>4. ASSUME Lifecycle(c)
      PROVE  Meant(row)[c] = UpToCutoff(row[c])
  <2>1. CASE row[c] = None
    BY <1>1, <1>4, <2>1 DEF UpToCutoff
  <2>2. CASE row[c] # None
    <3>1. row[c] \in Nat /\ CutoffEpoch \in Nat
      BY <1>3, <1>4, <2>2, PlanningAssumption
    <3>2. row[c] \in 0..CutoffEpoch <=> ~(row[c] > CutoffEpoch)
      BY <3>1
    <3> QED
      BY <1>1, <1>4, <2>2, <3>2 DEF UpToCutoff
  <2> QED
    BY <2>1, <2>2
<1> QED
  BY <1>1, <1>4, NoEpochKeys

LEMMA ContentIs ==
  ASSUME NEW S, Finished(S), NEW d \in DB, NEW row \in Rows[table]
  PROVE  /\ DOMAIN Content(d, row) = DOMAIN exprs
         /\ Content(d, row) = [i \in DOMAIN exprs |-> Content(d, row)[i]]
         /\ \A i \in DOMAIN exprs :
              \/ /\ exprs[i].alias = 0 /\ exprs[i].col \in ComparedColumns /\ Plain(exprs[i].col)
                 /\ exprs[i].cap = Lifecycle(exprs[i].col)
                 /\ Content(d, row)[i] = Meant(row)[exprs[i].col]
              \/ /\ exprs[i].alias \in S
                 /\ Content(d, row)[i] =
                      IF JoinedObjects(d, row)[exprs[i].alias] = None THEN None
                      ELSE Objects[joins[exprs[i].alias].target][JoinedObjects(d, row)[exprs[i].alias]][exprs[i].col]
<1> DEFINE Value(e) ==
      CASE e.alias = 0                               -> Stored(d, row, e.col)
        [] e.alias # 0 /\ JoinedObjects(d, row)[e.alias] = None     -> None
        [] e.alias # 0 /\ JoinedObjects(d, row)[e.alias] # None     ->
             Objects[joins[e.alias].target][JoinedObjects(d, row)[e.alias]][e.col]
<1>1. Content(d, row) =
        [i \in DOMAIN exprs |-> IF exprs[i].cap THEN UpToCutoff(Value(exprs[i])) ELSE Value(exprs[i])]
  BY Zenon DEF Content
<1>2. ASSUME NEW e
      PROVE  Value(e) = IF e.alias = 0 THEN Stored(d, row, e.col)
                        ELSE IF JoinedObjects(d, row)[e.alias] = None THEN None
                        ELSE Objects[joins[e.alias].target][JoinedObjects(d, row)[e.alias]][e.col]
  <2>1. CASE e.alias = 0
    BY <2>1, Zenon
  <2>2. CASE e.alias # 0 /\ JoinedObjects(d, row)[e.alias] = None
    BY <2>2, Zenon
  <2>3. CASE e.alias # 0 /\ JoinedObjects(d, row)[e.alias] # None
    BY <2>3, Zenon
  <2> QED
    BY <2>1, <2>2, <2>3
<1> HIDE DEF Value
<1>3. ASSUME NEW i \in DOMAIN exprs
      PROVE  \/ /\ exprs[i].alias = 0 /\ exprs[i].col \in ComparedColumns /\ Plain(exprs[i].col)
                /\ exprs[i].cap = Lifecycle(exprs[i].col)
                /\ Content(d, row)[i] = Meant(row)[exprs[i].col]
             \/ /\ exprs[i].alias \in S
                /\ Content(d, row)[i] =
                     IF JoinedObjects(d, row)[exprs[i].alias] = None THEN None
                     ELSE Objects[joins[exprs[i].alias].target][JoinedObjects(d, row)[exprs[i].alias]][exprs[i].col]
  <2>1. PICK e : e = exprs[i]
    OBVIOUS
  <2>2. e \in ToSet(exprs) /\ Content(d, row)[i] = IF e.cap THEN UpToCutoff(Value(e)) ELSE Value(e)
    BY <1>1, <1>3, <2>1 DEF ToSet
  <2>3. ExprOf(e, S)
    BY <2>2 DEF Finished, ExprsInv
  <2>4. CASE e.alias \in S /\ e.cap = FALSE
    <3>1. e.alias # 0
      BY <2>4, FinishedIs DEF Finished
    <3>2. Content(d, row)[i] = Value(e)
      BY <2>2, <2>4
    <3> QED
      BY <1>2, <2>1, <2>4, <3>1, <3>2
  <2>5. CASE e.alias = 0 /\ e.col \in Seen /\ Plain(e.col) /\ e.cap = Lifecycle(e.col)
    <3>1. e.col \in ComparedColumns
      BY <2>5, FinishedIs, ComparedIs
    <3>2. Value(e) = row[e.col]
      <4>1. Stored(d, row, e.col) = row[e.col]
        BY <2>5 DEF Stored, Plain, Translated, Unmapped
      <4> QED
        BY <1>2, <2>5, <4>1
    <3>3. Content(d, row)[i] = IF Lifecycle(e.col) THEN UpToCutoff(row[e.col]) ELSE row[e.col]
      BY <2>2, <2>5, <3>2
    <3>4. Content(d, row)[i] = Meant(row)[e.col]
      BY <2>5, <3>1, <3>3, MeantIs
    <3> QED
      BY <2>1, <2>5, <3>1, <3>4
  <2> QED
    BY <2>3, <2>4, <2>5 DEF ExprOf
<1> QED
  BY <1>1, <1>3

-----------------------------------------------------------------------------
(***************************************************************************)
(* Rows that agree on every column compared: every alias joins the same    *)
(* object to them, by induction from the table down the joins, whichever   *)
(* of the databases they are in.                                           *)
(***************************************************************************)
LEMMA MeantTells ==
  ASSUME NEW S, Finished(S), NEW d \in DB, NEW e \in DB, NEW r \in Rows[table], NEW q \in Rows[table],
         Meant(r) = Meant(q)
  PROVE  Content(d, r) = Content(e, q)
<1>1. PICK J, K : J = JoinedObjects(d, r) /\ K = JoinedObjects(e, q)
  OBVIOUS
<1>2. \A a \in S : J[a] = Found(J, a, r) /\ K[a] = Found(K, a, q)
  BY <1>1, ObjectsIs
<1>3. Seen = Common(table) /\ S \subseteq Nat /\ \A a \in S : joins[a].parent \in 0..(a - 1)
  BY FinishedIs DEF Finished
<1> DEFINE N == {n \in Nat : \A a \in S : a < n => J[a] = K[a]}
<1>4. 0 \in N
  BY <1>3
<1>5. ASSUME NEW n \in Nat, n \in N
      PROVE  n + 1 \in N
  <2> SUFFICES ASSUME NEW a \in S, a = n
               PROVE  J[a] = K[a]
    <3>1. ASSUME NEW a \in S, a < n + 1, a # n
          PROVE  J[a] = K[a]
      <4>1. a \in Nat /\ a < n
        BY <1>3, <3>1
      <4> QED
        BY <1>5, <3>1, <4>1
    <3> QED
      BY <3>1
  <2>1. joins[a].parent \in S \/ RootOf(a)
    BY DEF Finished, SpliceInv
  <2>2. CASE joins[a].parent = 0
    <3>1. RootOf(a)
      BY <1>3, <2>1, <2>2 DEF Finished
    <3>2. /\ joins[a].col \in ComparedColumns /\ Translated(joins[a].col)
      BY <1>3, <3>1, ComparedIs DEF RootOf
    <3>3. r[joins[a].col] = q[joins[a].col]
      BY <3>2, MeantIs
    <3> QED
      BY <1>2, <2>2, <3>3 DEF Found
  <2>3. CASE joins[a].parent # 0
    <3>1. joins[a].parent \in S /\ joins[a].parent < n
      BY <1>3, <2>1, <2>3 DEF RootOf
    <3>2. J[joins[a].parent] = K[joins[a].parent]
      BY <1>5, <3>1
    <3> QED
      BY <1>2, <2>3, <3>2 DEF Found
  <2> QED
    BY <2>2, <2>3
<1>6. \A a \in S : J[a] = K[a]
  <2> HIDE DEF N
  <2>1. Nat \subseteq N
    BY <1>4, <1>5, NatSetInduction
  <2> QED
    BY <1>3, <2>1 DEF N
<1>7. ASSUME NEW i \in DOMAIN exprs
      PROVE  Content(d, r)[i] = Content(e, q)[i]
  <2>1. CASE exprs[i].alias \in S
    <3>1. exprs[i].alias # 0
      BY <2>1, <1>3, FinishedIs DEF Finished
    <3>2. /\ Content(d, r)[i] = IF J[exprs[i].alias] = None THEN None
                 ELSE Objects[joins[exprs[i].alias].target][J[exprs[i].alias]][exprs[i].col]
          /\ Content(e, q)[i] = IF K[exprs[i].alias] = None THEN None
                 ELSE Objects[joins[exprs[i].alias].target][K[exprs[i].alias]][exprs[i].col]
      BY <1>1, <3>1, ContentIs
    <3> QED
      BY <1>6, <2>1, <3>2
  <2>2. CASE exprs[i].alias \notin S
    <3>1. Content(d, r)[i] = Meant(r)[exprs[i].col] /\ Content(e, q)[i] = Meant(q)[exprs[i].col]
      BY <2>2, ContentIs
    <3> QED
      BY <3>1
  <2> QED
    BY <2>1, <2>2
<1> QED
  BY <1>7, ContentIs

(***************************************************************************)
(* Rows with the same content: every alias joins the same object to them,  *)
(* by induction up the joins.  All the parts of its natural key are equal, *)
(* the plain ones because they are in the content, the foreign keys by the *)
(* induction; and a part that is not NULL tells an object from none.       *)
(***************************************************************************)
LEMMA SameObject ==
  ASSUME NEW t \in DOMAIN NATURAL_KEYS,
         NEW o \in DOMAIN Objects[t] \cup {None}, NEW p \in DOMAIN Objects[t] \cup {None},
         \A i \in DOMAIN NATURAL_KEYS[t] :
           (IF o = None THEN None ELSE Objects[t][o][NATURAL_KEYS[t][i].col]) =
           (IF p = None THEN None ELSE Objects[t][p][NATURAL_KEYS[t][i].col])
  PROVE  o = p
<1>1. PICK k \in DOMAIN NATURAL_KEYS[t] : NATURAL_KEYS[t][k].to = None
  BY NaturalKeys
<1>2. NATURAL_KEYS[t][k] \in ToSet(NATURAL_KEYS[t])
  BY <1>1 DEF ToSet
<1>3. \A x \in DOMAIN Objects[t] : Objects[t][x][NATURAL_KEYS[t][k].col] # None
  BY <1>1, <1>2, ObjectsAssumption
<1>4. CASE o = None \/ p = None
  BY <1>1, <1>3, <1>4
<1>5. CASE o # None /\ p # None
  <2>1. \A col \in KeyColumns(t) : Objects[t][o][col] = Objects[t][p][col]
    BY <1>5 DEF KeyColumns, ToSet
  <2> QED
    BY <1>5, <2>1, ObjectsAssumption
<1> QED
  BY <1>4, <1>5

LEMMA ContentTells ==
  ASSUME NEW S, Finished(S), KeysShared,
         NEW d \in DB, NEW e \in DB, NEW r \in Rows[table], NEW q \in Rows[table],
         Content(d, r) = Content(e, q)
  PROVE  Meant(r) = Meant(q)
<1>1. PICK J, K : J = JoinedObjects(d, r) /\ K = JoinedObjects(e, q)
  OBVIOUS
<1>2. \A a \in S : /\ J[a] = Found(J, a, r) /\ J[a] \in DOMAIN Objects[joins[a].target] \cup {None}
                   /\ K[a] = Found(K, a, q) /\ K[a] \in DOMAIN Objects[joins[a].target] \cup {None}
  BY <1>1, ObjectsIs
<1>3. /\ Seen = Common(table) /\ Len(joins) \in Nat /\ DOMAIN joins = 1..Len(joins)
      /\ S \subseteq 1..Len(joins) /\ \A a \in S : joins[a].parent \in 0..(a - 1)
  BY FinishedIs DEF Finished
<1> DEFINE N == {n \in Nat : \A a \in S : a + n > Len(joins) => J[a] = K[a]}
<1>4. 0 \in N
  <2>1. ASSUME NEW a \in S
        PROVE  ~(a + 0 > Len(joins))
    <3>1. a \in 1..Len(joins)
      BY <1>3, <2>1
    <3> QED
      BY <1>3, <3>1
  <2> QED
    BY <2>1
<1>5. ASSUME NEW n \in Nat, n \in N
      PROVE  n + 1 \in N
  <2> SUFFICES ASSUME NEW a \in S, a + n = Len(joins)
               PROVE  J[a] = K[a]
    <3>1. ASSUME NEW a \in S, a + (n + 1) > Len(joins), a + n # Len(joins)
          PROVE  J[a] = K[a]
      <4>1. a \in 1..Len(joins)
        BY <1>3, <3>1
      <4>2. a \in Nat /\ Len(joins) \in Nat
        <5>1. Len(joins) \in Nat
          BY <1>3
        <5> QED
          BY <4>1, <5>1
      <4>3. a + n > Len(joins)
        BY <3>1, <4>2
      <4> QED
        BY <1>5, <3>1, <4>3
    <3> QED
      BY <3>1
  <2>0. a \in 1..Len(joins)
    BY <1>3
  <2>1. PICK t : t = joins[a].target
    OBVIOUS
  <2>2. /\ t \in DOMAIN NATURAL_KEYS
        /\ \A i \in DOMAIN NATURAL_KEYS[t] : PartDone(a, NATURAL_KEYS[t][i], S, ToSet(exprs))
    BY <2>1 DEF Finished, SpliceInv, Spliced
  <2>3. ASSUME NEW i \in DOMAIN NATURAL_KEYS[t]
        PROVE  (IF J[a] = None THEN None ELSE Objects[t][J[a]][NATURAL_KEYS[t][i].col]) =
               (IF K[a] = None THEN None ELSE Objects[t][K[a]][NATURAL_KEYS[t][i].col])
    <3>1. PICK part : part = NATURAL_KEYS[t][i]
      OBVIOUS
    <3>2. PartDone(a, part, S, ToSet(exprs)) /\ part \in ToSet(NATURAL_KEYS[t])
      BY <2>2, <2>3, <3>1 DEF ToSet
    <3>3. CASE part.to = None
      <4>1. part.col \in Common(joins[a].target)
        BY <2>1, <2>2, <3>2 DEF KeysShared, KeyColumns
      <4>2. PICK k \in DOMAIN exprs : exprs[k] = Expr(a, part.col)
        BY <3>2, <3>3, <4>1 DEF PartDone, ToSet
      <4>3. exprs[k].alias = a /\ exprs[k].col = part.col /\ a # 0
        BY <2>0, <4>2 DEF Expr
      <4>4. /\ Content(d, r)[k] = IF J[a] = None THEN None ELSE Objects[t][J[a]][part.col]
            /\ Content(e, q)[k] = IF K[a] = None THEN None ELSE Objects[t][K[a]][part.col]
        BY <1>1, <2>1, <4>3, ContentIs
      <4> QED
        BY <3>1, <4>4
    <3>4. CASE part.to # None
      <4>1. PICK b \in S : joins[b] = Link(a, part.col, part.to)
        BY <3>2, <3>4 DEF PartDone
      <4>2. joins[b].parent = a /\ joins[b].col = part.col /\ b \in 1..Len(joins)
        BY <1>3, <4>1 DEF Link
      <4>3. b + n > Len(joins)
        BY <1>3, <2>0, <4>2
      <4>4. J[b] = K[b]
        BY <1>5, <4>3
      <4>5. /\ J[b] = IF J[a] = None THEN None ELSE Objects[t][J[a]][part.col]
            /\ K[b] = IF K[a] = None THEN None ELSE Objects[t][K[a]][part.col]
        BY <1>2, <2>0, <2>1, <4>2 DEF Found
      <4> QED
        BY <3>1, <4>4, <4>5
    <3> QED
      BY <3>3, <3>4
  <2> QED
    BY <1>2, <2>1, <2>2, <2>3, SameObject
<1>6. \A a \in S : J[a] = K[a]
  <2> HIDE DEF N
  <2>1. Nat \subseteq N
    BY <1>4, <1>5, NatSetInduction
  <2>2. Len(joins) \in N
    BY <1>3, <2>1
  <2> QED
    BY <1>3, <2>2 DEF N
<1>7. ASSUME NEW c \in ComparedColumns
      PROVE  Meant(r)[c] = Meant(q)[c]
  <2>1. c \in Seen /\ (Plain(c) \/ (Translated(c) /\ Marker(c) \notin skipped)) /\ SeenAs(c, S)
    BY <1>3, ComparedIs DEF Finished, SeenInv
  <2>2. CASE Plain(c)
    <3>1. PICK k \in DOMAIN exprs : exprs[k] = Taken(c)
      BY <2>1, <2>2 DEF SeenAs, ToSet
    <3>2. exprs[k].alias = 0 /\ exprs[k].col = c
      BY <3>1 DEF Taken, Expr
    <3>3. 0 \notin S
      BY <1>3
    <3>4. Content(d, r)[k] = Meant(r)[c] /\ Content(e, q)[k] = Meant(q)[c]
      BY <3>2, <3>3, ContentIs
    <3> QED
      BY <3>4
  <2>3. CASE Translated(c) /\ Marker(c) \notin skipped
    <3>1. PICK a \in S : joins[a] = Link(0, c, ResolveFk(table, c))
      BY <2>1, <2>3 DEF SeenAs
    <3>2. /\ joins[a].parent = 0 /\ joins[a].col = c /\ joins[a].target = ResolveFk(table, c)
      BY <3>1 DEF Link
    <3>3. ResolveFk(table, c) \in DOMAIN NATURAL_KEYS
      BY <3>1, <3>2 DEF Finished, SpliceInv, Spliced
    <3>4. /\ J[a] = IF r[c] \in DOMAIN Objects[ResolveFk(table, c)] THEN r[c] ELSE None
          /\ K[a] = IF q[c] \in DOMAIN Objects[ResolveFk(table, c)] THEN q[c] ELSE None
      BY <1>2, <3>2 DEF Found
    <3>5. None \notin DOMAIN Objects[ResolveFk(table, c)]
      BY <3>3, PlanningAssumption, ObjectsAssumption
    <3>6. c \in DOMAIN r /\ c \in DOMAIN q /\ table \in DOMAIN Rows
      BY <1>3, <2>1, FinishedIs
    <3>7. r[c] = q[c]
      BY <1>6, <3>1, <3>3, <3>4, <3>5, <3>6, RowsAssumption DEF Dangling
    <3> QED
      BY <2>3, <3>7, MeantIs
  <2> QED
    BY <2>1, <2>2, <2>3
<1> QED
  BY <1>7 DEF Meant

(***************************************************************************)
(* The hash of a table means what it is meant to: whatever the schemas,    *)
(* the rows and the ids, rows of the two databases with the same content   *)
(* agree on every column compared, and rows that agree have the same.      *)
(***************************************************************************)
THEOREM PlanCorrect == Spec => []PlanTells
<1>1. ASSUME PlanInv, pc = "done", kind # "excluded"
      PROVE  LET P == {<<Content(d, r), Meant(r)>> : d \in DB, r \in Rows[table]}
             IN  \A x, y \in P : /\ x[2] = y[2] => x[1] = y[1]
                                 /\ KeysShared /\ x[1] = y[1] => x[2] = y[2]
  <2>1. PICK S : Finished(S)
    BY <1>1 DEF Finished, PlanInv, ColumnsInv
  <2>2. ASSUME NEW d \in DB, NEW e \in DB, NEW r \in Rows[table], NEW q \in Rows[table]
        PROVE  /\ Meant(r) = Meant(q) => Content(d, r) = Content(e, q)
               /\ KeysShared /\ Content(d, r) = Content(e, q) => Meant(r) = Meant(q)
    BY <2>1, MeantTells, ContentTells
  <2> QED
    BY <2>2
<1>2. PlanInv => PlanTells
  BY <1>1 DEF PlanTells
<1> QED
  BY <1>2, PlanInvariance, PTL

-----------------------------------------------------------------------------
(***************************************************************************)
(* The keys of the deep check.  Their columns are compared ...             *)
(***************************************************************************)
LEMMA PlainKeys ==
  ASSUME NEW t \in DOMAIN NATURAL_KEYS, \A part \in ToSet(NATURAL_KEYS[t]) : part.to = None,
         NEW col \in KeyColumns(t)
  PROVE  /\ t \in {"tx", "stake_address", "pool_hash", "multi_asset", "committee_hash"}
         /\ col # "id" /\ ResolveFk(t, col) = None /\ ~LooksLikeFk(col)
<1>1. \A i \in DOMAIN NATURAL_KEYS[t] : NATURAL_KEYS[t][i].to = None
  BY DEF ToSet
<1>2. "tx" # None /\ "gov_action_proposal" # None
  <2>1. "tx" \in DOMAIN NATURAL_KEYS /\ "gov_action_proposal" \in DOMAIN NATURAL_KEYS
    BY DEF NATURAL_KEYS
  <2> QED
    BY <2>1, PlanningAssumption
<1>3. t \notin {"redeemer", "tx_out", "gov_action_proposal", "committee"}
  <2>1. /\ NATURAL_KEYS["redeemer"] = <<Fk("tx_id", "tx"), Col("purpose"), Col("index")>>
        /\ NATURAL_KEYS["tx_out"] = <<Fk("tx_id", "tx"), Col("index")>>
        /\ NATURAL_KEYS["gov_action_proposal"] = <<Fk("tx_id", "tx"), Col("index")>>
        /\ NATURAL_KEYS["committee"] = <<Fk("gov_action_proposal_id", "gov_action_proposal"),
                                         Col("quorum_numerator"), Col("quorum_denominator")>>
    BY DEF NATURAL_KEYS
  <2>2. Fk("tx_id", "tx").to # None /\ Fk("gov_action_proposal_id", "gov_action_proposal").to # None
    BY <1>2 DEF Fk
  <2>3. t \in {"redeemer", "tx_out", "gov_action_proposal", "committee"} =>
          1 \in DOMAIN NATURAL_KEYS[t] /\ NATURAL_KEYS[t][1].to # None
    BY <2>1, <2>2
  <2> QED
    BY <1>1, <2>3
<1>4. t \in {"tx", "stake_address", "pool_hash", "multi_asset", "committee_hash"}
  BY <1>3, KeyTables
<1>5. col \in {"hash", "hash_raw", "policy", "name", "raw", "has_script"}
  <2>1. /\ NATURAL_KEYS["tx"] = <<Col("hash")>>
        /\ NATURAL_KEYS["stake_address"] = <<Col("hash_raw")>>
        /\ NATURAL_KEYS["pool_hash"] = <<Col("hash_raw")>>
        /\ NATURAL_KEYS["multi_asset"] = <<Col("policy"), Col("name")>>
        /\ NATURAL_KEYS["committee_hash"] = <<Col("raw"), Col("has_script")>>
    BY DEF NATURAL_KEYS
  <2>2. PICK i \in DOMAIN NATURAL_KEYS[t] : col = NATURAL_KEYS[t][i].col
    BY DEF KeyColumns, ToSet
  <2> QED
    BY <1>4, <2>1, <2>2 DEF Col
<1>6. ResolveFk(t, col) = None
  <2>1. t \notin DOMAIN FK_MAP /\ col \notin DOMAIN GLOBAL_FK
    BY <1>4, <1>5 DEF FK_MAP, GLOBAL_FK
  <2> QED
    BY <2>1 DEF ResolveFk, Overridden, OfName
<1> QED
  BY <1>4, <1>5, <1>6 DEF LooksLikeFk

(* A table whose keys the deep check takes from its rows as they are. *)
PlainKeyed == table \notin VERIFY_KEY_QUERIES /\ HasKey

LEMMA KeyCompared ==
  ASSUME NEW S, Finished(S), KeysRead, HeightInv
  PROVE  /\ RowKey(table) \subseteq ComparedColumns
         /\ \A c \in RowKey(table) : ~Lifecycle(c)
         /\ PlainKeyed => RowKey(table) = KeyColumns(table)
<1>1. /\ RowKey(table) \subseteq Common(table) /\ \A c \in RowKey(table) : ~Dropped(c)
      /\ HasKey /\ kind = "accumulator"
  BY DEF KeysRead
<1>3. CASE table \in VERIFY_KEY_QUERIES
  <2>1. table = "committee_member"
        /\ RowKey(table) = {"committee_id", "committee_hash_id", "expiration_epoch"}
    BY <1>3 DEF VERIFY_KEY_QUERIES, RowKey
  <2>4. /\ ResolveFk(table, "committee_id") = "committee"
        /\ ResolveFk(table, "committee_hash_id") = "committee_hash"
        /\ ResolveFk(table, "expiration_epoch") = None
    BY <2>1 DEF ResolveFk, Overridden, OfName, FK_MAP, GLOBAL_FK
  <2>5. {"committee", "committee_hash"} \subseteq DOMAIN NATURAL_KEYS
    BY DEF NATURAL_KEYS
  <2>7. Plain("expiration_epoch")
    BY <1>1, <2>1, <2>4 DEF Plain, Translated, Unmapped, LooksLikeFk
  <2>8. ASSUME NEW c \in {"committee_id", "committee_hash_id"}
        PROVE  Translated(c) /\ Marker(c) \notin skipped
    <3>1. ResolveFk(table, c) \in DOMAIN NATURAL_KEYS
      BY <2>4, <2>5
    <3>2. Translated(c)
      BY <1>1, <2>1, <3>1, PlanningAssumption DEF Translated
    <3>3. Len(Marker(c)) = 2 /\ Marker(c)[1] = c
      BY DEF Marker
    <3>4. kind # "giant"
      BY <1>1
    <3> QED
      BY <3>1, <3>2, <3>3, <3>4 DEF HeightInv
  <2>9. RowKey(table) \subseteq ComparedColumns
    BY <1>1, <2>1, <2>7, <2>8, ComparedIs
  <2> QED
    BY <1>3, <2>1, <2>9 DEF PlainKeyed, Lifecycle, LIFECYCLE_EPOCH_COLUMNS
<1>4. CASE table \notin VERIFY_KEY_QUERIES
  <2>1. /\ table \in DOMAIN NATURAL_KEYS /\ \A part \in ToSet(NATURAL_KEYS[table]) : part.to = None
        /\ RowKey(table) = KeyColumns(table)
    BY <1>1, <1>4 DEF HasKey, Keyed, RowKey
  <2>3. ASSUME NEW c \in RowKey(table)
        PROVE  Plain(c) /\ ~Lifecycle(c)
    <3>1. /\ table \in {"tx", "stake_address", "pool_hash", "multi_asset", "committee_hash"}
          /\ c # "id" /\ ResolveFk(table, c) = None /\ ~LooksLikeFk(c)
      BY <2>1, <2>3, PlainKeys
    <3> QED
      BY <1>1, <2>3, <3>1 DEF Plain, Translated, Unmapped, Lifecycle, LIFECYCLE_EPOCH_COLUMNS
  <2> QED
    BY <1>1, <2>1, <2>3, ComparedIs
<1> QED
  BY <1>3, <1>4

(***************************************************************************)
(* ... and the key of a committee member names its row.  What is found     *)
(* under a name is nothing, or tells the name; a committee is told by its  *)
(* proposal and its quorum, the proposal by the transaction it came in and *)
(* its index.                                                              *)
(***************************************************************************)
LEMMA FindTells ==
  ASSUME NEW t \in DOMAIN NATURAL_KEYS, NEW m, NEW n, Find(t, m) = Find(t, n)
  PROVE  /\ m \in DOMAIN Objects[t] <=> n \in DOMAIN Objects[t]
         /\ m \in DOMAIN Objects[t] => m = n
         /\ Find(t, m) = None <=> m \notin DOMAIN Objects[t]
         /\ m \in DOMAIN Objects[t] => Find(t, m) = Objects[t][m]
<1>1. \A o \in DOMAIN Objects[t] : Objects[t][o] # None
  BY ObjectsAssumption
<1>2. ASSUME m \in DOMAIN Objects[t], n \in DOMAIN Objects[t]
      PROVE  m = n
  <2>1. Objects[t][m] = Objects[t][n]
    BY <1>2 DEF Find
  <2>2. \A col \in KeyColumns(t) : Objects[t][m][col] = Objects[t][n][col]
    BY <2>1
  <2> QED
    BY <1>2, <2>2, ObjectsAssumption
<1> QED
  BY <1>1, <1>2 DEF Find

LEMMA MemberTables ==
  /\ {"committee", "committee_hash", "gov_action_proposal", "tx"} \subseteq DOMAIN NATURAL_KEYS
  /\ KeyColumns("committee") = {"gov_action_proposal_id", "quorum_numerator", "quorum_denominator"}
  /\ KeyColumns("gov_action_proposal") = {"tx_id", "index"}
  /\ \A o \in DOMAIN Objects["committee"] :
       Objects["committee"][o].gov_action_proposal_id \in DOMAIN Objects["gov_action_proposal"] \cup {None}
  /\ \A o \in DOMAIN Objects["gov_action_proposal"] :
       Objects["gov_action_proposal"][o].tx_id \in DOMAIN Objects["tx"] \cup {None}
<1>1. {"committee", "committee_hash", "gov_action_proposal", "tx"} \subseteq DOMAIN NATURAL_KEYS
  BY DEF NATURAL_KEYS
<1>2. /\ NATURAL_KEYS["committee"] = <<Fk("gov_action_proposal_id", "gov_action_proposal"),
                                       Col("quorum_numerator"), Col("quorum_denominator")>>
      /\ NATURAL_KEYS["gov_action_proposal"] = <<Fk("tx_id", "tx"), Col("index")>>
  BY DEF NATURAL_KEYS
<1>3. /\ ToSet(NATURAL_KEYS["committee"]) = {Fk("gov_action_proposal_id", "gov_action_proposal"),
                                             Col("quorum_numerator"), Col("quorum_denominator")}
      /\ ToSet(NATURAL_KEYS["gov_action_proposal"]) = {Fk("tx_id", "tx"), Col("index")}
  BY <1>2 DEF ToSet
<1>4. /\ KeyColumns("committee") = {"gov_action_proposal_id", "quorum_numerator", "quorum_denominator"}
      /\ KeyColumns("gov_action_proposal") = {"tx_id", "index"}
  BY <1>3 DEF KeyColumns, Fk, Col
<1>5. "gov_action_proposal" # None /\ "tx" # None
  BY <1>1, PlanningAssumption
<1>6. \A o \in DOMAIN Objects["committee"] :
        Objects["committee"][o].gov_action_proposal_id \in DOMAIN Objects["gov_action_proposal"] \cup {None}
  <2>1. PICK part : part = Fk("gov_action_proposal_id", "gov_action_proposal")
    OBVIOUS
  <2>2. part \in ToSet(NATURAL_KEYS["committee"])
    BY <1>3, <2>1
  <2>3. part.col = "gov_action_proposal_id" /\ part.to = "gov_action_proposal" /\ part.to # None
    BY <1>5, <2>1 DEF Fk
  <2>4. \A o \in DOMAIN Objects["committee"] :
          Objects["committee"][o][part.col] \in DOMAIN Objects[part.to] \cup {None}
    BY <1>1, <2>2, <2>3, ObjectsAssumption
  <2> QED
    BY <2>3, <2>4
<1>7. \A o \in DOMAIN Objects["gov_action_proposal"] :
        Objects["gov_action_proposal"][o].tx_id \in DOMAIN Objects["tx"] \cup {None}
  <2>1. PICK part : part = Fk("tx_id", "tx")
    OBVIOUS
  <2>2. part \in ToSet(NATURAL_KEYS["gov_action_proposal"])
    BY <1>3, <2>1
  <2>3. part.col = "tx_id" /\ part.to = "tx" /\ part.to # None
    BY <1>5, <2>1 DEF Fk
  <2>4. \A o \in DOMAIN Objects["gov_action_proposal"] :
          Objects["gov_action_proposal"][o][part.col] \in DOMAIN Objects[part.to] \cup {None}
    BY <1>1, <2>2, <2>3, ObjectsAssumption
  <2> QED
    BY <2>3, <2>4
<1> QED
  BY <1>1, <1>4, <1>6, <1>7

(* Proposal and quorum of the committee of a member. *)
ProposalOf(committee) ==
  IF committee = None THEN None ELSE Find("gov_action_proposal", committee.gov_action_proposal_id)

MakerOf(committee) ==
  IF committee = None THEN <<"missing-committee">>
  ELSE IF ProposalOf(committee) # None
       THEN <<Find("tx", ProposalOf(committee).tx_id), ProposalOf(committee).index>>
       ELSE IF committee.gov_action_proposal_id = None THEN <<"genesis">> ELSE <<None, None>>

QuorumOf(committee) ==
  IF committee = None THEN <<>> ELSE <<committee.quorum_numerator, committee.quorum_denominator>>

LEMMA MemberKeyIs ==
  ASSUME NEW d, NEW row
  PROVE  MemberKey(d, row) =
           <<MakerOf(Find("committee", row.committee_id)), QuorumOf(Find("committee", row.committee_id)),
             Find("committee_hash", row.committee_hash_id), row.expiration_epoch>>
<1>1. PICK c : c = Find("committee", row.committee_id)
  OBVIOUS
<1>2. CASE c = None
  BY <1>1, <1>2, Zenon DEF MemberKey, MakerOf, QuorumOf, ProposalOf
<1>3. CASE c # None /\ ProposalOf(c) = None
  BY <1>1, <1>3, Zenon DEF MemberKey, MakerOf, QuorumOf, ProposalOf
<1>4. CASE c # None /\ ProposalOf(c) # None
  BY <1>1, <1>4, Zenon DEF MemberKey, MakerOf, QuorumOf, ProposalOf
<1> QED
  BY <1>2, <1>3, <1>4

LEMMA CommitteeTells ==
  ASSUME NEW m, NEW n,
         MakerOf(Find("committee", m)) = MakerOf(Find("committee", n)),
         QuorumOf(Find("committee", m)) = QuorumOf(Find("committee", n))
  PROVE  /\ m \in DOMAIN Objects["committee"] <=> n \in DOMAIN Objects["committee"]
         /\ m \in DOMAIN Objects["committee"] => m = n
<1> DEFINE C == DOMAIN Objects["committee"]
           G == DOMAIN Objects["gov_action_proposal"]
<1>1. \A k : (k \notin C => Find("committee", k) = None)
             /\ (k \in C => Find("committee", k) = Objects["committee"][k] /\ Find("committee", k) # None)
  BY MemberTables, ObjectsAssumption DEF Find
<1>2. \A k : (k \notin G => Find("gov_action_proposal", k) = None)
             /\ (k \in G => Find("gov_action_proposal", k) = Objects["gov_action_proposal"][k]
                            /\ Find("gov_action_proposal", k) # None)
  BY MemberTables, ObjectsAssumption DEF Find
<1>3. None \notin G
  BY MemberTables, PlanningAssumption, ObjectsAssumption
<1>4. ASSUME NEW k \in C
      PROVE  LET p == Objects["committee"][k].gov_action_proposal_id
             IN  /\ p \in G \cup {None}
                 /\ p = None => MakerOf(Find("committee", k)) = <<"genesis">>
                 /\ p # None => MakerOf(Find("committee", k)) =
                                  <<Find("tx", Objects["gov_action_proposal"][p].tx_id),
                                    Objects["gov_action_proposal"][p].index>>
                 /\ QuorumOf(Find("committee", k)) =
                      <<Objects["committee"][k].quorum_numerator, Objects["committee"][k].quorum_denominator>>
  <2>1. PICK c, p : c = Objects["committee"][k] /\ p = c.gov_action_proposal_id
    OBVIOUS
  <2>2. Find("committee", k) = c /\ c # None /\ p \in G \cup {None}
    BY <1>1, <1>4, <2>1, MemberTables
  <2>3. p = None => ProposalOf(c) = None
    BY <1>2, <1>3, <2>1, <2>2 DEF ProposalOf
  <2>4. p # None => ProposalOf(c) = Objects["gov_action_proposal"][p] /\ ProposalOf(c) # None
    BY <1>2, <2>1, <2>2 DEF ProposalOf
  <2>5. p = None => MakerOf(c) = <<"genesis">>
    BY <2>1, <2>2, <2>3 DEF MakerOf
  <2>6. p # None => MakerOf(c) = <<Find("tx", Objects["gov_action_proposal"][p].tx_id),
                                   Objects["gov_action_proposal"][p].index>>
    BY <2>2, <2>4 DEF MakerOf
  <2>7. QuorumOf(c) = <<c.quorum_numerator, c.quorum_denominator>>
    BY <2>2 DEF QuorumOf
  <2> QED
    BY <2>1, <2>2, <2>5, <2>6, <2>7
<1>5. \A k : k \notin C => MakerOf(Find("committee", k)) = <<"missing-committee">>
  BY <1>1 DEF MakerOf
<1>6. ASSUME NEW k \in C
      PROVE  MakerOf(Find("committee", k)) # <<"missing-committee">>
  <2>1. "genesis" # "missing-committee"
    OBVIOUS
  <2>2. \A x, y : <<x, y>> # <<"missing-committee">>
    <3>1. \A x, y : Len(<<x, y>>) = 2
      OBVIOUS
    <3>2. Len(<<"missing-committee">>) = 1
      OBVIOUS
    <3> QED
      BY <3>1, <3>2
  <2>3. <<"genesis">> # <<"missing-committee">>
    BY <2>1
  <2> QED
    BY <1>4, <2>2, <2>3
<1>7. m \in C <=> n \in C
  BY <1>5, <1>6
<1>8. ASSUME m \in C
      PROVE  m = n
  <2>1. n \in C
    BY <1>7, <1>8
  <2>2. PICK p, o : /\ p = Objects["committee"][m].gov_action_proposal_id
                    /\ o = Objects["committee"][n].gov_action_proposal_id
    OBVIOUS
  <2>3. p \in G \cup {None} /\ o \in G \cup {None}
    BY <1>4, <1>8, <2>1, <2>2
  <2>4. p = None <=> o = None
    <3>1. \A x, y : <<x, y>> # <<"genesis">>
      <4>1. \A x, y : Len(<<x, y>>) = 2
        OBVIOUS
      <4>2. Len(<<"genesis">>) = 1
        OBVIOUS
      <4> QED
        BY <4>1, <4>2
    <3> QED
      BY <1>4, <1>8, <2>1, <2>2, <3>1
  <2>5. p = o
    <3>1. CASE p # None /\ o # None
      <4>1. PICK P, O : P = Objects["gov_action_proposal"][p] /\ O = Objects["gov_action_proposal"][o]
        OBVIOUS
      <4>2. Find("tx", P.tx_id) = Find("tx", O.tx_id) /\ P.index = O.index
        <5>1. <<Find("tx", P.tx_id), P.index>> = <<Find("tx", O.tx_id), O.index>>
          BY <1>4, <1>8, <2>1, <2>2, <3>1, <4>1
        <5> QED
          BY <5>1
      <4>3. P.tx_id \in DOMAIN Objects["tx"] \cup {None} /\ O.tx_id \in DOMAIN Objects["tx"] \cup {None}
        BY <2>3, <3>1, <4>1, MemberTables
      <4>4. P.tx_id = O.tx_id
        <5>1. /\ P.tx_id \in DOMAIN Objects["tx"] <=> O.tx_id \in DOMAIN Objects["tx"]
              /\ P.tx_id \in DOMAIN Objects["tx"] => P.tx_id = O.tx_id
          BY <4>2, MemberTables, FindTells
        <5> QED
          BY <4>3, <5>1
      <4>5. \A col \in KeyColumns("gov_action_proposal") : P[col] = O[col]
        BY <4>2, <4>4, MemberTables
      <4> QED
        BY <2>3, <3>1, <4>1, <4>5, MemberTables, ObjectsAssumption
    <3> QED
      BY <2>4, <3>1
  <2>6. <<Objects["committee"][m].quorum_numerator, Objects["committee"][m].quorum_denominator>> =
          <<Objects["committee"][n].quorum_numerator, Objects["committee"][n].quorum_denominator>>
    BY <1>4, <1>8, <2>1
  <2>7. \A col \in KeyColumns("committee") : Objects["committee"][m][col] = Objects["committee"][n][col]
    BY <2>2, <2>5, <2>6, MemberTables
  <2> QED
    BY <1>8, <2>1, <2>7, MemberTables, ObjectsAssumption
<1> QED
  BY <1>7, <1>8

(***************************************************************************)
(* Rows that agree on the columns of their key have the same key, whatever *)
(* their ids; a committee member has its key of no other row.              *)
(***************************************************************************)
LEMMA SameKey ==
  ASSUME NEW S, Finished(S), KeysRead,
         NEW d \in DB, NEW e \in DB, NEW r, NEW q, \A c \in RowKey(table) : r[c] = q[c]
  PROVE  KeyOf(d, r) = KeyOf(e, q)
<1>1. CASE table \in VERIFY_KEY_QUERIES
  <2>1. RowKey(table) = {"committee_id", "committee_hash_id", "expiration_epoch"}
    BY <1>1 DEF RowKey
  <2>2. r.committee_id = q.committee_id /\ r.committee_hash_id = q.committee_hash_id
        /\ r.expiration_epoch = q.expiration_epoch
    BY <2>1
  <2> QED
    BY <1>1, <2>2, MemberKeyIs DEF KeyOf
<1>2. CASE table \notin VERIFY_KEY_QUERIES
  <2>1. /\ table \in DOMAIN NATURAL_KEYS /\ \A part \in ToSet(NATURAL_KEYS[table]) : part.to = None
        /\ RowKey(table) = KeyColumns(table)
    BY <1>2 DEF KeysRead, HasKey, Keyed, RowKey
  <2>2. ASSUME NEW c \in KeyColumns(table), NEW x \in DB, NEW row
        PROVE  Stored(x, row, c) = row[c]
    BY <2>1, <2>2, PlainKeys DEF Stored
  <2>3. \A i \in DOMAIN NATURAL_KEYS[table] : NATURAL_KEYS[table][i].col \in KeyColumns(table)
    BY DEF KeyColumns, ToSet
  <2>4. ASSUME NEW i \in DOMAIN NATURAL_KEYS[table]
        PROVE  Stored(d, r, NATURAL_KEYS[table][i].col) = Stored(e, q, NATURAL_KEYS[table][i].col)
    BY <2>1, <2>2, <2>3
  <2> QED
    BY <1>2, <2>4 DEF KeyOf
<1> QED
  BY <1>1, <1>2

LEMMA MemberTold ==
  ASSUME NEW S, Finished(S), KeysRead, HeightInv, table \in VERIFY_KEY_QUERIES,
         NEW d \in DB, NEW e \in DB, NEW r \in Rows[table], NEW q \in Rows[table], KeyOf(d, r) = KeyOf(e, q)
  PROVE  \A c \in RowKey(table) : r[c] = q[c]
<1>1. RowKey(table) \subseteq DOMAIN r /\ RowKey(table) \subseteq DOMAIN q /\ table \in DOMAIN Rows
  BY KeyCompared, ComparedIs, FinishedIs
<1>2. /\ table = "committee_member"
      /\ RowKey(table) = {"committee_id", "committee_hash_id", "expiration_epoch"}
  BY DEF VERIFY_KEY_QUERIES, RowKey
<1>3. /\ ResolveFk(table, "committee_id") = "committee"
      /\ ResolveFk(table, "committee_hash_id") = "committee_hash"
  BY <1>2 DEF ResolveFk, Overridden, OfName, FK_MAP, GLOBAL_FK
<1>4. PICK m, n, u, v : /\ m = MakerOf(Find("committee", r.committee_id))
                        /\ n = MakerOf(Find("committee", q.committee_id))
                        /\ u = QuorumOf(Find("committee", r.committee_id))
                        /\ v = QuorumOf(Find("committee", q.committee_id))
  OBVIOUS
<1>5. /\ MakerOf(Find("committee", r.committee_id)) = MakerOf(Find("committee", q.committee_id))
      /\ QuorumOf(Find("committee", r.committee_id)) = QuorumOf(Find("committee", q.committee_id))
      /\ Find("committee_hash", r.committee_hash_id) = Find("committee_hash", q.committee_hash_id)
      /\ r.expiration_epoch = q.expiration_epoch
  <2>1. KeyOf(d, r) = <<m, u, Find("committee_hash", r.committee_hash_id), r.expiration_epoch>>
    BY <1>4, MemberKeyIs DEF KeyOf
  <2>2. KeyOf(e, q) = <<n, v, Find("committee_hash", q.committee_hash_id), q.expiration_epoch>>
    BY <1>4, MemberKeyIs DEF KeyOf
  <2>3. \A a, b, c, x, f, g, h, y : <<a, b, c, x>> = <<f, g, h, y>> => a = f /\ b = g /\ c = h /\ x = y
    OBVIOUS
  <2>4. <<m, u, Find("committee_hash", r.committee_hash_id), r.expiration_epoch>> =
          <<n, v, Find("committee_hash", q.committee_hash_id), q.expiration_epoch>>
    BY <2>1, <2>2
  <2>5. m = n /\ u = v /\ Find("committee_hash", r.committee_hash_id) = Find("committee_hash", q.committee_hash_id)
        /\ r.expiration_epoch = q.expiration_epoch
    BY <2>3, <2>4, Zenon
  <2> QED
    BY <1>4, <2>5
<1>6. r.committee_id = q.committee_id
  <2>1. /\ r.committee_id \in DOMAIN Objects["committee"] <=> q.committee_id \in DOMAIN Objects["committee"]
        /\ r.committee_id \in DOMAIN Objects["committee"] => r.committee_id = q.committee_id
    BY <1>5, CommitteeTells
  <2>2. "committee_id" \in DOMAIN r /\ ResolveFk(table, "committee_id") \in DOMAIN NATURAL_KEYS
    BY <1>1, <1>2, <1>3, MemberTables
  <2> QED
    BY <1>1, <1>3, <2>1, <2>2, RowsAssumption DEF Dangling
<1>7. r.committee_hash_id = q.committee_hash_id
  <2>1. /\ r.committee_hash_id \in DOMAIN Objects["committee_hash"] <=>
             q.committee_hash_id \in DOMAIN Objects["committee_hash"]
        /\ r.committee_hash_id \in DOMAIN Objects["committee_hash"] =>
             r.committee_hash_id = q.committee_hash_id
    BY <1>5, MemberTables, FindTells
  <2>2. "committee_hash_id" \in DOMAIN r /\ ResolveFk(table, "committee_hash_id") \in DOMAIN NATURAL_KEYS
    BY <1>1, <1>2, <1>3, MemberTables
  <2> QED
    BY <1>1, <1>3, <2>1, <2>2, RowsAssumption DEF Dangling
<1> QED
  BY <1>2, <1>5, <1>6, <1>7

(***************************************************************************)
(* The deep check and the hash speak of the same rows.  Rows with the same *)
(* content agree on the columns compared, which include the key, and so    *)
(* have the same key; committee members with the same key agree on every   *)
(* column there is, and so have the same content.                          *)
(***************************************************************************)
THEOREM KeysCorrect == Spec => []KeyTells
<1>1. ASSUME PlanInv, HeightInv, KeysRead, NEW d \in DB, NEW e \in DB,
             NEW r \in Rows[table], NEW q \in Rows[table]
      PROVE  /\ Content(d, r) = Content(e, q) => KeyOf(d, r) = KeyOf(e, q)
             /\ table \in VERIFY_KEY_QUERIES /\ Common(table) \ {"id"} = RowKey(table) =>
                  (KeyOf(d, r) = KeyOf(e, q) => Content(d, r) = Content(e, q))
  <2>1. PICK S : Finished(S)
    BY <1>1 DEF KeysRead, Finished, PlanInv, ColumnsInv
  <2>2. KeysShared
    BY <1>1 DEF KeysRead
  <2>3. ASSUME Content(d, r) = Content(e, q)
        PROVE  KeyOf(d, r) = KeyOf(e, q)
    <3>1. Meant(r) = Meant(q)
      BY <1>1, <2>1, <2>2, <2>3, ContentTells
    <3>2. ASSUME NEW c \in RowKey(table)
          PROVE  r[c] = q[c]
      <4>1. c \in ComparedColumns /\ ~Lifecycle(c)
        BY <1>1, <2>1, KeyCompared
      <4>2. Plain(c) \/ Translated(c)
        BY <2>1, <4>1, ComparedIs
      <4>3. Meant(r)[c] = r[c] /\ Meant(q)[c] = q[c]
        BY <2>1, <4>1, <4>2, MeantIs
      <4> QED
        BY <3>1, <4>3
    <3> QED
      BY <1>1, <2>1, <3>2, SameKey
  <2>4. ASSUME table \in VERIFY_KEY_QUERIES, Common(table) \ {"id"} = RowKey(table),
               KeyOf(d, r) = KeyOf(e, q)
        PROVE  Content(d, r) = Content(e, q)
    <3>1. \A c \in RowKey(table) : r[c] = q[c]
      BY <1>1, <2>1, <2>4, MemberTold
    <3>2. ComparedColumns \subseteq RowKey(table)
      BY <2>1, <2>4, ComparedIs DEF ComparedColumns, Dropped
    <3>3. Meant(r) = Meant(q)
      BY <3>1, <3>2 DEF Meant
    <3> QED
      BY <2>1, <3>3, MeantTells
  <2> QED
    BY <2>3, <2>4
<1>2. PlanInv /\ HeightInv => KeyTells
  BY <1>1 DEF KeyTells
<1> QED
  BY <1>2, PlanInvariance, NeverTooDeep, PTL
=============================================================================
