--------------------------- MODULE LateRowsProofs ---------------------------
(***************************************************************************)
(* Proofs about LateRows, for chains and epochs of any length, any         *)
(* security parameter, margins, windows and defects: what the verdicts on  *)
(* rows that are written late, and on accumulators, are worth.             *)
(***************************************************************************)
EXTENDS LateRows, SumTheorems, TLAPS

-----------------------------------------------------------------------------
(***************************************************************************)
(* Epochs along the chain.                                                 *)
(***************************************************************************)
LEMMA PosFacts ==
  /\ Pos = 1 .. Len(EpochOf) /\ Len(EpochOf) \in Nat
  /\ \A p \in Pos : p \in Nat /\ p >= 1 /\ EpochOf[p] \in Nat /\ EpochOf[p] \in Epochs
  /\ \A p \in Pos : \A q \in 1 .. p : q \in Pos
  /\ Epochs \subseteq Nat
BY EpochAssumption DEF Pos, Epochs

LEMMA LaterEpoch ==
  ASSUME NEW p \in Pos, NEW q \in Pos, p <= q
  PROVE  EpochOf[p] <= EpochOf[q] /\ EpochOf[q] - EpochOf[p] <= q - p
<1>1. EpochOf[p] \in Nat /\ EpochOf[q] \in Nat /\ p \in Nat /\ q \in Nat
  BY PosFacts
<1>2. CASE p < q
  BY <1>2, EpochAssumption
<1>3. CASE p = q
  BY <1>1, <1>3
<1> QED
  BY <1>1, <1>2, <1>3

LEMMA BeginsFirst ==
  ASSUME NEW e \in Epochs
  PROVE  /\ Begins(e) \in Pos
         /\ EpochOf[Begins(e)] = e
         /\ \A q \in Pos : EpochOf[q] = e => Begins(e) <= q
<1> DEFINE S == {p \in Pos : EpochOf[p] = e}
<1>1. S # {} /\ S \in SUBSET Nat
  BY PosFacts DEF Epochs
<1>2. \E m \in S : \A n \in S : m <= n
  <2> HIDE DEF S
  <2> QED
    BY <1>1, NatLeast
<1>3. \E p \in Pos : EpochOf[p] = e /\ \A q \in Pos : EpochOf[q] = e => p <= q
  BY <1>2
<1> QED
  BY <1>3 DEF Begins

(* A later block is of the epoch or of a later one, an earlier block not. *)
LEMMA BeginsSplits ==
  ASSUME NEW e \in Epochs, NEW p \in Pos
  PROVE  Begins(e) <= p <=> e <= EpochOf[p]
<1>1. Begins(e) \in Pos /\ EpochOf[Begins(e)] = e /\ (EpochOf[p] = e => Begins(e) <= p)
  BY BeginsFirst
<1>2. Begins(e) \in Nat /\ p \in Nat /\ EpochOf[p] \in Nat /\ e \in Nat
  BY <1>1, PosFacts
<1>3. CASE Begins(e) <= p
  BY <1>1, <1>3, LaterEpoch
<1>4. CASE ~(Begins(e) <= p)
  <2>1. EpochOf[p] <= e
    BY <1>1, <1>2, <1>4, LaterEpoch
  <2>2. EpochOf[p] # e
    BY <1>1, <1>4
  <2> QED
    BY <1>2, <1>4, <2>1, <2>2
<1> QED
  BY <1>3, <1>4

(* No epoch is skipped. *)
LEMMA NoEpochSkipped ==
  ASSUME NEW e \in Epochs, NEW f \in Epochs, NEW k \in e .. f
  PROVE  k \in Epochs
<1> DEFINE S == {p \in Pos : EpochOf[p] >= k}
<1>1. e \in Nat /\ f \in Nat /\ k \in Nat /\ e <= k /\ k <= f
  BY PosFacts
<1>2. PICK a \in Pos, b \in Pos : EpochOf[a] = e /\ EpochOf[b] = f
  BY DEF Epochs
<1>3. S # {} /\ S \in SUBSET Nat
  BY <1>1, <1>2, PosFacts
<1>4. PICK m \in S : \A n \in S : m <= n
  <2> HIDE DEF S
  <2> QED
    BY <1>3, NatLeast
<1>5. m \in Pos /\ EpochOf[m] >= k /\ m \in Nat /\ m >= 1 /\ EpochOf[m] \in Nat /\ EpochOf[m] \in Epochs
  BY <1>4, PosFacts
<1>6. CASE m = 1
  <2>1. m <= a /\ EpochOf[m] <= e
    BY <1>2, <1>5, <1>6, PosFacts, LaterEpoch
  <2> QED
    BY <1>1, <1>5, <2>1
<1>7. CASE m # 1
  <2>1. m - 1 \in Pos /\ m - 1 \in Nat /\ EpochOf[m - 1] \in Nat
    BY <1>5, <1>7, PosFacts
  <2>2. EpochOf[m - 1] < k
    BY <1>1, <1>4, <1>5, <2>1
  <2>3. EpochOf[m] - EpochOf[m - 1] <= m - (m - 1)
    BY <1>5, <2>1, LaterEpoch
  <2>4. EpochOf[m] = k
    BY <1>1, <1>5, <2>1, <2>2, <2>3
  <2> QED
    BY <1>5, <2>4
<1> QED
  BY <1>6, <1>7

-----------------------------------------------------------------------------
(***************************************************************************)
(* Where the databases are: at most K blocks below where they ever were,   *)
(* and on a fork that is no longer than that.                              *)
(***************************************************************************)
PlaceInv ==
  /\ tip \in [DB -> Pos] /\ high \in [DB -> Pos] /\ forkAt \in [DB -> Nat]
  /\ \A d \in DB :
       /\ high[d] - K <= tip[d] /\ tip[d] <= high[d]
       /\ forkAt[d] # 0 => high[d] - K < forkAt[d] /\ forkAt[d] <= tip[d]

(***************************************************************************)
(* Every block on the way to the tip was applied, and the blocks of the    *)
(* main branch were applied in their order.                                *)
(***************************************************************************)
AppliedInv ==
  /\ applied \in [DB -> SUBSET (Branch \X Pos)]
  /\ \A d \in DB :
       /\ \A p \in 1 .. tip[d] : <<BranchAt(d, p), p>> \in applied[d]
       /\ \A p, q \in Pos : <<"main", p>> \in applied[d] /\ q <= p => <<"main", q>> \in applied[d]

LEMMA PlaceStarts == DbInit => PlaceInv /\ AppliedInv
<1> SUFFICES ASSUME DbInit
             PROVE  PlaceInv /\ AppliedInv
  OBVIOUS
<1>1. tip \in [DB -> Pos] /\ high = tip /\ forkAt = [d \in DB |-> 0]
  BY DEF DbInit
<1>2. \A d \in DB : tip[d] \in Nat /\ K \in Nat
  BY <1>1, PosFacts, EpochAssumption
<1>3. PlaceInv
  BY <1>1, <1>2 DEF PlaceInv
<1>4. \A d \in DB : applied[d] = {<<"main", p>> : p \in 1 .. tip[d]}
  BY DEF DbInit
<1>5. \A d \in DB : \A p \in 1 .. tip[d] : p \in Pos
  BY <1>1, PosFacts
<1>6. applied \in [DB -> SUBSET (Branch \X Pos)]
  BY <1>4, <1>5 DEF DbInit, Branch
<1>7. \A d \in DB : \A p \in 1 .. tip[d] : <<BranchAt(d, p), p>> \in applied[d]
  BY <1>1, <1>4 DEF BranchAt
<1>8. \A d \in DB : \A p, q \in Pos : <<"main", p>> \in applied[d] /\ q <= p => <<"main", q>> \in applied[d]
  <2> SUFFICES ASSUME NEW d \in DB, NEW p \in Pos, NEW q \in Pos, <<"main", p>> \in applied[d], q <= p
               PROVE  <<"main", q>> \in applied[d]
    OBVIOUS
  <2>1. p \in 1 .. tip[d]
    BY <1>4
  <2>2. q \in 1 .. tip[d]
    BY <1>2, <2>1, PosFacts
  <2> QED
    BY <1>4, <2>2
<1> QED
  BY <1>3, <1>6, <1>7, <1>8 DEF AppliedInv

LEMMA PlaceStays == PlaceInv /\ DbStep => PlaceInv'
<1> SUFFICES ASSUME PlaceInv, DbStep
             PROVE  PlaceInv'
  OBVIOUS
<1>1. K \in Nat /\ \A d \in DB : tip[d] \in Nat /\ high[d] \in Nat /\ forkAt[d] \in Nat
  BY PosFacts, EpochAssumption DEF PlaceInv
<1>2. PICK d \in DB : Extend(d) \/ Rollback(d)
  BY DEF DbStep
<1>3. CASE Extend(d)
  <2> DEFINE p == tip[d] + 1
  <2>1. PICK f \in IF forkAt[d] = 0 THEN {0, p} ELSE {forkAt[d]} :
          /\ forkAt' = [forkAt EXCEPT ![d] = f]
          /\ tip' = [tip EXCEPT ![d] = p]
          /\ high' = [high EXCEPT ![d] = IF p > @ THEN p ELSE @]
          /\ f # 0 => f > high'[d] - K
    BY <1>3 DEF Extend
  <2>2. p \in Pos /\ p \in Nat /\ f \in Nat /\ f <= p
    BY <1>1, <1>3, <2>1, PosFacts DEF Extend, PlaceInv
  <2>3. high'[d] = (IF p > high[d] THEN p ELSE high[d]) /\ tip'[d] = p /\ forkAt'[d] = f
    BY <2>1 DEF PlaceInv
  <2>4. \A c \in DB \ {d} : high'[c] = high[c] /\ tip'[c] = tip[c] /\ forkAt'[c] = forkAt[c]
    BY <2>1 DEF PlaceInv
  <2>5. tip' \in [DB -> Pos] /\ high' \in [DB -> Pos] /\ forkAt' \in [DB -> Nat]
    BY <2>1, <2>2 DEF PlaceInv
  <2>6. high'[d] - K <= tip'[d] /\ tip'[d] <= high'[d]
    BY <1>1, <2>2, <2>3 DEF PlaceInv
  <2>7. forkAt'[d] # 0 => high'[d] - K < forkAt'[d] /\ forkAt'[d] <= tip'[d]
    BY <1>1, <2>1, <2>2, <2>3
  <2> HIDE DEF p
  <2> QED
    BY <2>4, <2>5, <2>6, <2>7 DEF PlaceInv
<1>4. CASE Rollback(d)
  <2>1. PICK p \in 1 .. tip[d] - 1 :
          /\ p >= high[d] - K
          /\ tip' = [tip EXCEPT ![d] = p]
          /\ forkAt' = [forkAt EXCEPT ![d] = IF p < @ THEN 0 ELSE @]
          /\ UNCHANGED <<high, applied>>
    BY <1>4 DEF Rollback
  <2>2. p \in Pos /\ p \in Nat
    BY <1>1, <2>1, PosFacts DEF PlaceInv
  <2>3. \A c \in DB \ {d} : high'[c] = high[c] /\ tip'[c] = tip[c] /\ forkAt'[c] = forkAt[c]
    BY <2>1 DEF PlaceInv
  <2>4. tip'[d] = p /\ forkAt'[d] = (IF p < forkAt[d] THEN 0 ELSE forkAt[d]) /\ high'[d] = high[d]
    BY <2>1 DEF PlaceInv
  <2>5. tip' \in [DB -> Pos] /\ high' \in [DB -> Pos] /\ forkAt' \in [DB -> Nat]
    BY <1>1, <2>1, <2>2 DEF PlaceInv
  <2>6. high'[d] - K <= tip'[d] /\ tip'[d] <= high'[d]
    BY <1>1, <2>1, <2>2, <2>4 DEF PlaceInv
  <2>7. forkAt'[d] # 0 => high'[d] - K < forkAt'[d] /\ forkAt'[d] <= tip'[d]
    BY <1>1, <2>1, <2>2, <2>4 DEF PlaceInv
  <2> QED
    BY <2>3, <2>5, <2>6, <2>7 DEF PlaceInv
<1> QED
  BY <1>2, <1>3, <1>4

LEMMA AppliedStays == PlaceInv /\ AppliedInv /\ DbStep => AppliedInv' /\ \A d \in DB : applied[d] \subseteq applied'[d]
<1> SUFFICES ASSUME PlaceInv, AppliedInv, DbStep
             PROVE  AppliedInv' /\ \A d \in DB : applied[d] \subseteq applied'[d]
  OBVIOUS
<1>1. K \in Nat /\ \A d \in DB : tip[d] \in Nat /\ high[d] \in Nat /\ forkAt[d] \in Nat /\ tip[d] \in Pos
  BY PosFacts, EpochAssumption DEF PlaceInv
<1>2. PICK d \in DB : Extend(d) \/ Rollback(d)
  BY DEF DbStep
<1>3. CASE Extend(d)
  <2> DEFINE p == tip[d] + 1
  <2>1. PICK f \in IF forkAt[d] = 0 THEN {0, p} ELSE {forkAt[d]} :
          /\ forkAt' = [forkAt EXCEPT ![d] = f]
          /\ tip' = [tip EXCEPT ![d] = p]
          /\ applied' = [applied EXCEPT ![d] = @ \cup {<<IF f = 0 THEN "main" ELSE "fork", p>>}]
    BY <1>3 DEF Extend
  <2> DEFINE b == IF f = 0 THEN "main" ELSE "fork"
  <2>2. p \in Pos /\ p \in Nat /\ p >= 1
    BY <1>1, <1>3 DEF Extend
  <2>3. tip'[d] = p /\ forkAt'[d] = f /\ applied'[d] = applied[d] \cup {<<b, p>>}
    BY <2>1 DEF PlaceInv, AppliedInv
  <2>4. \A c \in DB \ {d} : tip'[c] = tip[c] /\ forkAt'[c] = forkAt[c] /\ applied'[c] = applied[c]
    BY <2>1 DEF PlaceInv, AppliedInv
  <2>5. b \in Branch /\ applied' \in [DB -> SUBSET (Branch \X Pos)]
    BY <2>1, <2>2 DEF AppliedInv, Branch
  <2>6. \A q \in 1 .. tip[d] : BranchAt(d, q)' = BranchAt(d, q)
    BY <1>1, <2>1, <2>3 DEF BranchAt, PlaceInv
  <2>8. \A q \in 1 .. p : <<IF f # 0 /\ q >= f THEN "fork" ELSE "main", q>> \in applied'[d]
    <3> SUFFICES ASSUME NEW q \in 1 .. p
                 PROVE  <<IF f # 0 /\ q >= f THEN "fork" ELSE "main", q>> \in applied'[d]
      OBVIOUS
    <3>1. CASE q = p
      <4>1. p >= f /\ f \in Nat
        BY <1>1, <2>1 DEF PlaceInv
      <4> QED
        BY <2>3, <3>1, <4>1
    <3>2. CASE q # p
      <4>1. q \in 1 .. tip[d]
        BY <1>1, <3>2
      <4>2. BranchAt(d, q) = IF f # 0 /\ q >= f THEN "fork" ELSE "main"
        BY <1>1, <2>1, <4>1 DEF BranchAt, PlaceInv
      <4>3. <<BranchAt(d, q), q>> \in applied[d]
        BY <4>1 DEF AppliedInv
      <4> QED
        BY <2>3, <4>2, <4>3
    <3> QED
      BY <3>1, <3>2
  <2>9. ASSUME NEW q \in Pos, NEW o \in Pos, <<"main", q>> \in applied'[d], o <= q
        PROVE  <<"main", o>> \in applied'[d]
    <3>1. CASE <<"main", q>> \in applied[d]
      BY <2>3, <2>9, <3>1 DEF AppliedInv
    <3>2. CASE <<"main", q>> \notin applied[d]
      <4>1. f = 0 /\ q = p
        BY <2>3, <2>9, <3>2
      <4>2. o \in 1 .. p
        BY <2>2, <2>9, <4>1, PosFacts
      <4> QED
        BY <2>8, <4>1, <4>2
    <3> QED
      BY <3>1, <3>2
  <2>10. ASSUME NEW c \in DB
         PROVE  /\ \A q \in 1 .. tip'[c] : <<BranchAt(c, q)', q>> \in applied'[c]
                /\ \A q, o \in Pos : <<"main", q>> \in applied'[c] /\ o <= q => <<"main", o>> \in applied'[c]
                /\ applied[c] \subseteq applied'[c]
    <3>1. CASE c = d
      BY <2>3, <2>8, <2>9, <3>1 DEF BranchAt
    <3>2. CASE c # d
      BY <2>4, <3>2 DEF BranchAt, AppliedInv
    <3> QED
      BY <3>1, <3>2
  <2> HIDE DEF p, b
  <2> QED
    BY <2>5, <2>10 DEF AppliedInv, BranchAt
<1>4. CASE Rollback(d)
  <2>1. PICK p \in 1 .. tip[d] - 1 :
          /\ tip' = [tip EXCEPT ![d] = p]
          /\ forkAt' = [forkAt EXCEPT ![d] = IF p < @ THEN 0 ELSE @]
          /\ applied' = applied
    BY <1>4 DEF Rollback
  <2>2. tip'[d] = p /\ forkAt'[d] = IF p < forkAt[d] THEN 0 ELSE forkAt[d]
    BY <2>1 DEF PlaceInv
  <2>3. \A c \in DB \ {d} : tip'[c] = tip[c] /\ forkAt'[c] = forkAt[c]
    BY <2>1 DEF PlaceInv
  <2>4. \A q \in 1 .. p : q \in 1 .. tip[d] /\ BranchAt(d, q)' = BranchAt(d, q)
    BY <1>1, <2>1, <2>2 DEF BranchAt
  <2>5. \A c \in DB : \A q \in 1 .. tip'[c] : <<BranchAt(c, q)', q>> \in applied[c]
    BY <2>2, <2>3, <2>4 DEF AppliedInv, BranchAt
  <2> QED
    BY <2>1, <2>5 DEF AppliedInv, BranchAt
<1> QED
  BY <1>2, <1>3, <1>4

-----------------------------------------------------------------------------
(***************************************************************************)
(* The course of a run: what has been read when.                           *)
(***************************************************************************)
TipKnown(d) ==
  \/ pc = <<"tip", 2>> /\ d = 1
  \/ pc[1] \in {"hash", "classify", "stream", "verdict", "done"}

HashKnown(d) ==
  \/ pc = <<"hash", 2>> /\ d = 1
  \/ pc[1] \in {"classify", "stream", "verdict", "done"}

KeysKnown(d) ==
  \/ pc = <<"stream", 2>> /\ d = 1
  \/ pc[1] = "verdict"
  \/ deep # "none"

Judged == pc[1] \in {"stream", "verdict", "done"}

OptionsInv ==
  /\ table \in Tables /\ margin \in Margins /\ window \in Windows /\ moving \in BOOLEAN
  /\ defect # None => defect \in Defects /\ defect.table = table

CourseInv ==
  /\ pc \in {"start", "tip", "hash", "classify", "stream", "verdict", "done"} \X DB
  /\ DOMAIN hash = DB /\ DOMAIN keys = DB
  /\ status = IF Judged THEN Verdict(hash[1], hash[2]) ELSE "PENDING"
  /\ deep # "none" => pc[1] = "done" /\ deep = SubsetVerdict(keys[1], keys[2])
  /\ pc[1] \in {"stream", "verdict"} \/ deep # "none" => Accumulator

(***************************************************************************)
(* A tip that was read is one the database reached; if db-sync is stopped, *)
(* it is the tip still.                                                    *)
(***************************************************************************)
TipInv ==
  \A d \in DB :
    /\ tips \in [DB -> {None} \cup [block : Pos, epoch : Epochs]]
    /\ TipKnown(d) =>
         /\ tips[d] \in [block : Pos, epoch : Epochs]
         /\ tips[d].epoch = EpochOf[tips[d].block]
         /\ tips[d].block <= high[d]
         /\ ~moving => tips[d].block = tip[d]

RunInv == OptionsInv /\ CourseInv /\ TipInv /\ PlaceInv

LEMMA OptionTypes ==
  ASSUME OptionsInv
  PROVE  /\ table \in {"gov_action_proposal", "tx_out", "reward", "committee", "multi_asset"}
         /\ margin.block \in Nat /\ margin.epoch \in Nat
         /\ window # None => window[1] \in Nat /\ window[2] \in Nat
BY OptionsAssumption DEF OptionsInv

LEMMA VerdictCases ==
  ASSUME NEW S, NEW T
  PROVE  /\ Verdict(S, T) \in {"MATCH", "COUNT_DIFF", "HASH_DIFF"}
         /\ Verdict(S, T) = "MATCH" <=> S = T
         /\ Verdict(S, T) = "HASH_DIFF" <=> S # T /\ Cardinality(S) = Cardinality(T)
<1>1. CASE S = T
  BY <1>1 DEF Verdict
<1>2. CASE S # T /\ Cardinality(S) = Cardinality(T)
  BY <1>2 DEF Verdict
<1>3. CASE S # T /\ Cardinality(S) # Cardinality(T)
  BY <1>3 DEF Verdict
<1> QED
  BY <1>1, <1>2, <1>3

LEMMA SubsetCases ==
  ASSUME NEW S, NEW T
  PROVE  /\ SubsetVerdict(S, T) \in {"identical", "db2 in db1", "db1 in db2", "neither"}
         /\ SubsetVerdict(S, T) = "neither" => ~(S \subseteq T) /\ ~(T \subseteq S)
<1>1. CASE S = T
  BY <1>1 DEF SubsetVerdict
<1>2. CASE S # T /\ T \subseteq S
  <2>1. ~(S \subseteq T)
    BY <1>2
  <2> QED
    BY <1>2, <2>1 DEF SubsetVerdict
<1>3. CASE S # T /\ S \subseteq T
  <2>1. ~(T \subseteq S)
    BY <1>3
  <2> QED
    BY <1>3, <2>1 DEF SubsetVerdict
<1>4. CASE ~(S \subseteq T) /\ ~(T \subseteq S)
  <2>1. S # T
    BY <1>4
  <2> QED
    BY <1>4, <2>1 DEF SubsetVerdict
<1> QED
  BY <1>1, <1>2, <1>3, <1>4

(* What a step of the run, not of the databases, leaves alone. *)
LEMMA QuietStep ==
  ASSUME Start \/ (\E d \in DB : ReadTip(d) \/ Hash(d) \/ Stream(d)) \/ Classify \/ Conclude \/ Finished
  PROVE  UNCHANGED <<dbVars, options>>
BY DEF Start, ReadTip, Hash, Stream, Classify, Conclude, Finished, vars

LEMMA PlaceAgain == PlaceInv /\ UNCHANGED dbVars => PlaceInv'
BY DEF PlaceInv, dbVars

LEMMA OptionsAgain == OptionsInv /\ UNCHANGED <<options, defect>> => OptionsInv'
BY DEF OptionsInv, options

LEMMA RunStarts == Init => RunInv
<1> SUFFICES ASSUME Init
             PROVE  RunInv
  OBVIOUS
<1>1. pc = <<"start", 1>> /\ status = "PENDING" /\ deep = "none" /\ tips = [d \in DB |-> None]
  BY DEF Init
<1>2. PlaceInv
  BY PlaceStarts DEF Init
<1>3. OptionsInv
  BY DEF Init, OptionsInv
<1>4. CourseInv
  <2>1. DOMAIN hash = DB /\ DOMAIN keys = DB
    BY DEF Init
  <2> QED
    BY <1>1, <2>1 DEF CourseInv, Judged, DB
<1>5. TipInv
  BY <1>1 DEF TipInv, TipKnown
<1> QED
  BY <1>2, <1>3, <1>4, <1>5 DEF RunInv

LEMMA CourseStays == CourseInv /\ [Next]_vars => CourseInv'
<1> SUFFICES ASSUME CourseInv, [Next]_vars
             PROVE  CourseInv'
  OBVIOUS
<1>1. CASE Start
  BY <1>1 DEF Start, CourseInv, Judged, DB, Accumulator, options
<1>2. ASSUME NEW d \in DB, ReadTip(d)
      PROVE  CourseInv'
  BY <1>2 DEF ReadTip, Then, CourseInv, Judged, DB, Accumulator, options
<1>3. ASSUME NEW d \in DB, Hash(d)
      PROVE  CourseInv'
  BY <1>3 DEF Hash, Then, CourseInv, Judged, DB, Accumulator, options
<1>4. CASE Classify
  <2>1. /\ pc = <<"classify", 1>> /\ status' = Verdict(hash[1], hash[2])
        /\ UNCHANGED <<options, hash, keys, deep>>
        /\ (pc' = <<"stream", 1>> /\ Accumulator) \/ pc' = <<"done", 1>>
    BY <1>4 DEF Classify
  <2>2. Judged' /\ deep = "none" /\ Accumulator' = Accumulator
    BY <2>1 DEF Judged, CourseInv, Accumulator, options
  <2> QED
    BY <2>1, <2>2 DEF CourseInv, DB
<1>5. ASSUME NEW d \in DB, Stream(d)
      PROVE  CourseInv'
  BY <1>5 DEF Stream, Then, CourseInv, Judged, DB, Accumulator, options
<1>6. CASE Conclude
  BY <1>6 DEF Conclude, CourseInv, Judged, DB, Accumulator, options
<1>7. CASE DbMoves
  BY <1>7 DEF DbMoves, CourseInv, Judged, Accumulator, options
<1>8. CASE Finished \/ UNCHANGED vars
  BY <1>8 DEF Finished, vars, CourseInv, Judged, Accumulator, options
<1> QED
  BY <1>1, <1>2, <1>3, <1>4, <1>5, <1>6, <1>7, <1>8 DEF Next

LEMMA TipsStay == RunInv /\ [Next]_vars => TipInv'
<1> SUFFICES ASSUME RunInv, [Next]_vars
             PROVE  TipInv'
  OBVIOUS
<1>1. TipInv /\ PlaceInv /\ CourseInv
  BY DEF RunInv
<1>2. ASSUME UNCHANGED <<dbVars, options, tips>>, \A d \in DB : TipKnown(d)' => TipKnown(d)
      PROVE  TipInv'
  BY <1>1, <1>2 DEF TipInv, dbVars, options
<1>3. CASE Start \/ (\E d \in DB : Hash(d) \/ Stream(d)) \/ Classify \/ Conclude \/ Finished \/ UNCHANGED vars
  <2>1. UNCHANGED <<dbVars, options, tips>>
    BY <1>3 DEF Start, Hash, Stream, Classify, Conclude, Finished, vars
  <2>2. \A d \in DB : TipKnown(d)' => TipKnown(d)
    BY <1>3 DEF Start, Hash, Stream, Then, Classify, Conclude, Finished, vars, TipKnown, DB
  <2> QED
    BY <1>2, <2>1, <2>2
<1>4. ASSUME NEW d \in DB, ReadTip(d)
      PROVE  TipInv'
  <2> DEFINE t == [block |-> tip[d], epoch |-> EpochOf[tip[d]]]
  <2>1. UNCHANGED <<dbVars, options>> /\ tips' = [tips EXCEPT ![d] = t] /\ pc = <<"tip", d>>
    BY <1>4 DEF ReadTip
  <2>2. tip[d] \in Pos /\ tip[d] <= high[d]
    BY <1>1 DEF PlaceInv
  <2>3. t \in [block : Pos, epoch : Epochs]
    BY <2>2, PosFacts
  <2>4. \A c \in DB \ {d} : TipKnown(c)' => TipKnown(c)
    BY <1>4 DEF ReadTip, Then, TipKnown, DB
  <2>5. /\ tips' \in [DB -> {None} \cup [block : Pos, epoch : Epochs]]
        /\ tips'[d] = t /\ \A c \in DB \ {d} : tips'[c] = tips[c]
    BY <1>1, <2>1, <2>3 DEF TipInv
  <2>6. t.block = tip[d] /\ t.epoch = EpochOf[tip[d]]
    OBVIOUS
  <2> HIDE DEF t
  <2>7. ASSUME NEW c \in DB
        PROVE  TipKnown(c)' =>
                 /\ tips'[c] \in [block : Pos, epoch : Epochs]
                 /\ tips'[c].epoch = EpochOf[tips'[c].block]
                 /\ tips'[c].block <= high'[c]
                 /\ ~moving' => tips'[c].block = tip'[c]
    <3>1. CASE c = d
      BY <2>1, <2>2, <2>3, <2>5, <2>6, <3>1 DEF dbVars
    <3>2. CASE c # d
      BY <1>1, <2>1, <2>4, <2>5, <3>2 DEF TipInv, dbVars, options
    <3> QED
      BY <3>1, <3>2
  <2> QED
    BY <2>5, <2>7 DEF TipInv
<1>5. CASE DbMoves
  <2>1. UNCHANGED <<options, pc, tips>> /\ DbStep /\ (moving \/ pc = <<"start", 1>>)
    BY <1>5 DEF DbMoves
  <2>2. ASSUME NEW d \in DB
        PROVE  high[d] <= high'[d]
    <3>1. PICK c \in DB : Extend(c) \/ Rollback(c)
      BY <2>1 DEF DbStep
    <3>2. high[d] \in Nat
      BY <1>1, PosFacts DEF PlaceInv
    <3>3. \/ high' = high
          \/ \E p : high' = [high EXCEPT ![c] = IF p > @ THEN p ELSE @] /\ p \in Pos
      BY <3>1 DEF Extend, Rollback
    <3>4. ASSUME NEW p \in Pos, high' = [high EXCEPT ![c] = IF p > @ THEN p ELSE @]
          PROVE  high[d] <= high'[d]
      <4>1. p \in Nat /\ high[c] \in Nat /\ high \in [DB -> Pos]
        BY <1>1, PosFacts DEF PlaceInv
      <4>2. high'[c] = (IF p > high[c] THEN p ELSE high[c]) /\ (d # c => high'[d] = high[d])
        BY <3>4, <4>1
      <4> QED
        BY <3>2, <4>1, <4>2
    <3> QED
      BY <3>2, <3>3, <3>4
  <2>3. \A d \in DB : TipKnown(d)' <=> TipKnown(d)
    BY <2>1 DEF TipKnown
  <2>4. \A d \in DB : TipKnown(d) => moving
    BY <2>1 DEF TipKnown
  <2>5. PlaceInv'
    BY <1>1, <2>1, PlaceStays
  <2>6. \A d \in DB : TipKnown(d) => tips[d].block \in Nat /\ high[d] \in Nat /\ high'[d] \in Nat
    BY <1>1, <2>5, PosFacts DEF TipInv, PlaceInv
  <2>7. \A d \in DB : TipKnown(d) => tips[d].block <= high'[d]
    BY <1>1, <2>2, <2>6 DEF TipInv
  <2> QED
    BY <1>1, <2>1, <2>3, <2>4, <2>7 DEF TipInv, options
<1> QED
  BY <1>3, <1>4, <1>5 DEF Next

(***************************************************************************)
(* Where run and databases are.                                            *)
(***************************************************************************)
THEOREM RunInvariance == Spec => []RunInv
<1>1. Init => RunInv
  BY RunStarts
<1>2. RunInv /\ [Next]_vars => RunInv'
  <2> SUFFICES ASSUME RunInv, [Next]_vars
               PROVE  RunInv'
    OBVIOUS
  <2>1. CourseInv' /\ TipInv'
    BY CourseStays, TipsStay DEF RunInv
  <2>2. CASE DbMoves
    <3>1. PlaceInv'
      BY <2>2, PlaceStays DEF RunInv, DbMoves
    <3>2. UNCHANGED <<options, defect>>
      BY <2>2 DEF DbMoves, DbStep
    <3> QED
      BY <2>1, <3>1, <3>2, OptionsAgain DEF RunInv
  <2>3. CASE ~DbMoves
    <3>1. UNCHANGED <<dbVars, options>>
      BY <2>3, QuietStep DEF Next, vars
    <3> QED
      BY <2>1, <3>1, OptionsAgain, PlaceAgain DEF RunInv, dbVars
  <2> QED
    BY <2>2, <2>3
<1> QED
  BY <1>1, <1>2, PTL DEF Spec

LEMMA CutoffTypes ==
  ASSUME OptionsInv, \A d \in DB : tips[d] \in [block : Pos, epoch : Epochs]
  PROVE  /\ CutoffBlock \in Nat /\ CutoffEpoch \in Nat
         /\ LowBlock \in Nat /\ LowEpoch \in Nat
         /\ \A d \in DB : LowBlock <= tips[d].block /\ LowEpoch <= tips[d].epoch
<1>1. \A d \in DB : tips[d].block \in Nat /\ tips[d].epoch \in Nat
  BY PosFacts
<1>2. /\ LowBlock \in Nat /\ LowEpoch \in Nat
      /\ \A d \in DB : LowBlock <= tips[d].block /\ LowEpoch <= tips[d].epoch
  BY <1>1 DEF LowBlock, LowEpoch, DB
<1>3. margin.block \in Nat /\ margin.epoch \in Nat
  BY OptionTypes
<1> QED
  BY <1>2, <1>3 DEF CutoffBlock, CutoffEpoch, AtLeastZero

(***************************************************************************)
(* Type correctness; a database is never further back than K blocks.       *)
(***************************************************************************)
THEOREM LateTypesHold == Spec => []TypeOK
<1>1. RunInv => TypeOK
  <2> SUFFICES ASSUME RunInv
               PROVE  TypeOK
    OBVIOUS
  <2>1. CourseInv /\ TipInv /\ PlaceInv /\ OptionsInv
    BY DEF RunInv
  <2>2. \A d \in DB : tips[d] # None => tips[d] \in [block : Pos, epoch : Epochs]
    BY <2>1 DEF TipInv
  <2>3. None \notin {tips[1], tips[2]} => CutoffBlock \in Nat /\ CutoffEpoch \in Nat
    BY <2>1, <2>2, CutoffTypes DEF DB
  <2>4. status \in {"PENDING", "MATCH", "COUNT_DIFF", "HASH_DIFF"}
    BY <2>1, VerdictCases DEF CourseInv
  <2>5. deep \in {"none", "identical", "db2 in db1", "db1 in db2", "neither"}
    BY <2>1, SubsetCases DEF CourseInv
  <2> QED
    BY <2>1, <2>2, <2>3, <2>4, <2>5 DEF TypeOK, CourseInv, PlaceInv
<1> QED
  BY <1>1, RunInvariance, PTL

-----------------------------------------------------------------------------
(***************************************************************************)
(* The cases by table, one at a time.                                      *)
(***************************************************************************)
LEMMA HeldBack ==
  /\ table = "reward" => EpochsHeldBack = IF moving THEN Lag + 1 ELSE Lag
  /\ table = "gov_action_proposal" \/ table = "committee" => EpochsHeldBack = IF moving THEN 1 ELSE 0
<1>1. table = "reward" => EpochsHeldBack = IF moving THEN Lag + 1 ELSE Lag
  BY Zenon DEF EpochsHeldBack
<1>2. table = "gov_action_proposal" => EpochsHeldBack = IF moving THEN 1 ELSE 0
  BY Zenon DEF EpochsHeldBack
<1>3. table = "committee" => EpochsHeldBack = IF moving THEN 1 ELSE 0
  BY Zenon DEF EpochsHeldBack
<1> QED
  BY <1>1, <1>2, <1>3

LEMMA TrueRowsOf ==
  ASSUME NEW d
  PROVE  /\ TrueRows("gov_action_proposal", d) =
              {Row(p, BranchAt(d, p), Decided(d, p)) : p \in {q \in Processed(d) : BlockAt(d, q).proposes}}
         /\ TrueRows("tx_out", d) =
              {Row(p, BranchAt(d, p), Spent(d, p)) : p \in {q \in Processed(d) : BlockAt(d, q).creates}}
         /\ TrueRows("reward", d) = {Row(e, "main", Stage(d, e)) : e \in {f \in Epochs : f < EpochOf[tip[d]]}}
         /\ TrueRows("committee", d) =
              {Row(Shown, "main", None) : q \in {p \in Processed(d) : p = Begins(Shown)}}
         /\ TrueRows("multi_asset", d) = {Row(a, "main", None) : a \in Seen(d)}
<1>1. TrueRows("gov_action_proposal", d) =
              {Row(p, BranchAt(d, p), Decided(d, p)) : p \in {q \in Processed(d) : BlockAt(d, q).proposes}}
  BY Zenon DEF TrueRows
<1>2. TrueRows("tx_out", d) =
              {Row(p, BranchAt(d, p), Spent(d, p)) : p \in {q \in Processed(d) : BlockAt(d, q).creates}}
  BY Zenon DEF TrueRows
<1>3. TrueRows("reward", d) = {Row(e, "main", Stage(d, e)) : e \in {f \in Epochs : f < EpochOf[tip[d]]}}
  BY Zenon DEF TrueRows
<1>4. TrueRows("committee", d) =
              {Row(Shown, "main", None) : q \in {p \in Processed(d) : p = Begins(Shown)}}
  BY Zenon DEF TrueRows
<1>5. TrueRows("multi_asset", d) = {Row(a, "main", None) : a \in Seen(d)}
  BY Zenon DEF TrueRows
<1> QED
  BY <1>1, <1>2, <1>3, <1>4, <1>5

LEMMA SelectedOf ==
  ASSUME NEW d
  PROVE  /\ table = "gov_action_proposal" =>
              Selected(d) = {Capped(r) : r \in {q \in Rows(table, d) : InScope(q.at)}}
         /\ table = "tx_out" => Selected(d) = {r \in Rows(table, d) : InScope(r.at)}
         /\ table = "reward" \/ table = "committee" =>
              Selected(d) = {r \in Rows(table, d) : window = None /\ r.at <= CutoffEpoch}
         /\ table = "multi_asset" => Selected(d) = {r \in Rows(table, d) : window = None}
<1>1. table = "gov_action_proposal" =>
              Selected(d) = {Capped(r) : r \in {q \in Rows(table, d) : InScope(q.at)}}
  BY Zenon DEF Selected
<1>2. table = "tx_out" => Selected(d) = {r \in Rows(table, d) : InScope(r.at)}
  BY Zenon DEF Selected
<1>3. table = "reward" => Selected(d) = {r \in Rows(table, d) : window = None /\ r.at <= CutoffEpoch}
  BY Zenon DEF Selected
<1>4. table = "committee" => Selected(d) = {r \in Rows(table, d) : window = None /\ r.at <= CutoffEpoch}
  BY Zenon DEF Selected
<1>5. table = "multi_asset" => Selected(d) = {r \in Rows(table, d) : window = None}
  BY Zenon DEF Selected
<1> QED
  BY <1>1, <1>2, <1>3, <1>4, <1>5

LEMMA WrongOf ==
  ASSUME NEW r
  PROVE  /\ defect.how = "bad" => Wrong(r) = {[r EXCEPT !.bad = TRUE]}
         /\ defect.how = "lost" => Wrong(r) = {}
         /\ defect.how = "unset" => Wrong(r) = {[r EXCEPT !.late = None]}
<1>1. defect.how = "bad" => Wrong(r) = {[r EXCEPT !.bad = TRUE]}
  BY Zenon DEF Wrong
<1>2. defect.how = "lost" => Wrong(r) = {}
  BY Zenon DEF Wrong
<1>3. defect.how = "unset" => Wrong(r) = {[r EXCEPT !.late = None]}
  BY Zenon DEF Wrong
<1> QED
  BY <1>1, <1>2, <1>3

LEMMA InScopeOf ==
  /\ table = "reward" \/ table = "committee" =>
       (DefectInScope <=> defect # None /\ window = None /\ defect.at <= CutoffEpoch)
  /\ table = "tx_out" => (DefectInScope <=> defect # None /\ InScope(defect.at))
  /\ table = "gov_action_proposal" =>
       (DefectInScope <=>
          /\ defect # None /\ InScope(defect.at)
          /\ defect.how = "unset" => \E e \in DecidedOnMain(defect.at) : e <= CutoffEpoch)
<1>1. table = "reward" => (DefectInScope <=> defect # None /\ window = None /\ defect.at <= CutoffEpoch)
  BY Zenon DEF DefectInScope
<1>2. table = "committee" => (DefectInScope <=> defect # None /\ window = None /\ defect.at <= CutoffEpoch)
  BY Zenon DEF DefectInScope
<1>3. table = "tx_out" => (DefectInScope <=> defect # None /\ InScope(defect.at))
  BY Zenon DEF DefectInScope
<1>4. table = "gov_action_proposal" =>
       (DefectInScope <=>
          /\ defect # None /\ InScope(defect.at)
          /\ defect.how = "unset" => \E e \in DecidedOnMain(defect.at) : e <= CutoffEpoch)
  BY Zenon DEF DefectInScope
<1> QED
  BY <1>1, <1>2, <1>3, <1>4

-----------------------------------------------------------------------------
(***************************************************************************)
(* What is settled in a trusted run, from the moment both tips are known.  *)
(***************************************************************************)
TipsRead == RunInv /\ Trusted /\ \A d \in DB : TipKnown(d)

LEMMA TipsReadFacts ==
  ASSUME TipsRead
  PROVE  /\ CutoffBlock \in Nat /\ CutoffEpoch \in Nat /\ LowBlock \in Nat /\ LowEpoch \in Nat
         /\ margin.block \in Nat /\ margin.epoch \in Nat /\ K \in Nat /\ Lag \in Nat /\ Lag >= 1
         /\ CutoffBlock = AtLeastZero(LowBlock - margin.block)
         /\ EpochsHeldBack <= margin.epoch
         /\ CutoffEpoch = LowEpoch - margin.epoch
         /\ moving => margin.block >= K
         /\ ~moving => \A d \in DB : forkAt[d] = 0
         /\ window # None => window[1] \in Nat /\ window[2] \in Nat /\ window[2] <= CutoffBlock
<1>1. RunInv /\ OptionsInv /\ TipInv
  BY DEF TipsRead, RunInv
<1>2. \A d \in DB : tips[d] \in [block : Pos, epoch : Epochs]
  BY <1>1 DEF TipsRead, TipInv
<1>3. CutoffBlock \in Nat /\ CutoffEpoch \in Nat /\ LowBlock \in Nat /\ LowEpoch \in Nat
  BY <1>1, <1>2, CutoffTypes
<1>4. /\ margin.block \in Nat /\ margin.epoch \in Nat
      /\ window # None => window[1] \in Nat /\ window[2] \in Nat
  BY <1>1, OptionTypes
<1>5. /\ EpochsHeldBack <= margin.epoch /\ margin.epoch <= LowEpoch
      /\ moving => margin.block >= K
      /\ ~moving => forkAt = [d \in DB |-> 0]
      /\ window # None => window[2] <= CutoffBlock
  BY DEF TipsRead, Trusted
<1>6. CutoffEpoch = LowEpoch - margin.epoch
  BY <1>3, <1>4, <1>5 DEF CutoffEpoch, AtLeastZero
<1> QED
  BY <1>3, <1>4, <1>5, <1>6, EpochAssumption DEF CutoffBlock

LEMMA TipsReadPlace ==
  ASSUME TipsRead, NEW d \in DB
  PROVE  /\ tips[d].block \in Pos /\ tips[d].epoch = EpochOf[tips[d].block]
         /\ tips[d].block \in Nat /\ tip[d] \in Nat /\ tip[d] \in Pos /\ high[d] \in Nat
         /\ LowBlock <= tips[d].block /\ LowEpoch <= tips[d].epoch
         /\ tips[d].block <= high[d] /\ high[d] - K <= tip[d]
         /\ ~moving => tips[d].block = tip[d]
         /\ forkAt[d] \in Nat
         /\ forkAt[d] # 0 => high[d] - K < forkAt[d]
<1>1. OptionsInv /\ TipInv /\ PlaceInv /\ \A c \in DB : TipKnown(c)
  BY DEF TipsRead, RunInv
<1>2. \A c \in DB : tips[c] \in [block : Pos, epoch : Epochs]
  BY <1>1 DEF TipInv
<1>3. LowBlock <= tips[d].block /\ LowEpoch <= tips[d].epoch
  BY <1>1, <1>2, CutoffTypes
<1>4. tips[d].block \in Pos /\ tip[d] \in Pos /\ high[d] \in Pos
  BY <1>1, <1>2 DEF PlaceInv
<1> QED
  BY <1>1, <1>3, <1>4, PosFacts DEF TipInv, PlaceInv

(* No step down of K blocks reaches a block that is within K of the tip read. *)
LEMMA DeepEnough ==
  ASSUME TipsRead, NEW d \in DB, NEW p \in Pos,
         IF moving THEN p <= tips[d].block - K ELSE p <= tips[d].block
  PROVE  p <= tip[d] /\ BranchAt(d, p) = "main"
<1>1. p \in Nat /\ p >= 1
  BY PosFacts
<1>2. CASE moving
  BY <1>1, <1>2, TipsReadFacts, TipsReadPlace DEF BranchAt
<1>3. CASE ~moving
  BY <1>1, <1>3, TipsReadFacts, TipsReadPlace DEF BranchAt
<1> QED
  BY <1>2, <1>3

LEMMA BlocksSettled ==
  ASSUME TipsRead, NEW d \in DB, NEW p \in Pos, p <= CutoffBlock
  PROVE  p <= tip[d] /\ BranchAt(d, p) = "main"
<1>1. p \in Nat /\ p >= 1
  BY PosFacts
<1>2. p <= LowBlock - margin.block
  BY <1>1, TipsReadFacts DEF AtLeastZero
<1>3. IF moving THEN p <= tips[d].block - K ELSE p <= tips[d].block
  BY <1>1, <1>2, TipsReadFacts, TipsReadPlace
<1> QED
  BY <1>3, DeepEnough

LEMMA ScopeSettled ==
  ASSUME TipsRead, NEW p \in Pos, InScope(p)
  PROVE  p <= CutoffBlock
<1>1. p \in Nat
  BY PosFacts
<1> QED
  BY <1>1, TipsReadFacts DEF InScope

(***************************************************************************)
(* The first blocks of the epochs compared are settled too, as the next    *)
(* epoch's first block is K blocks above.                                  *)
(***************************************************************************)
LEMMA EpochsSettled ==
  ASSUME TipsRead, NEW d \in DB, NEW e \in Epochs, e <= CutoffEpoch,
         table \in {"gov_action_proposal", "committee", "reward"}
  PROVE  Begins(e) \in Pos /\ Begins(e) <= tip[d] /\ BranchAt(d, Begins(e)) = "main"
<1> DEFINE E == tips[d].epoch
           t == tips[d].block
<1>1. Begins(e) \in Pos /\ Begins(e) \in Nat /\ e \in Nat
  BY BeginsFirst, PosFacts
<1>2. t \in Pos /\ t \in Nat /\ E = EpochOf[t] /\ E \in Nat /\ E \in Epochs /\ LowEpoch <= E
  BY TipsReadPlace, PosFacts
<1>3. CASE moving
  <2>1. EpochsHeldBack >= 1 /\ EpochsHeldBack \in Nat
    BY <1>3, HeldBack, TipsReadFacts
  <2>2. e + 1 <= E
    BY <1>1, <1>2, <2>1, TipsReadFacts
  <2>3. e + 1 \in Epochs
    BY <1>1, <1>2, <2>2, NoEpochSkipped
  <2>4. Begins(e + 1) <= t /\ Begins(e + 1) \in Nat
    BY <1>2, <2>2, <2>3, BeginsSplits, BeginsFirst, PosFacts
  <2>5. Begins(e + 1) - Begins(e) >= K
    BY <2>3, LongEpochs
  <2>6. Begins(e) <= t - K
    BY <1>1, <1>2, <2>4, <2>5, TipsReadFacts
  <2> HIDE DEF t
  <2> QED
    BY <1>1, <1>3, <2>6, DeepEnough DEF t
<1>4. CASE ~moving
  <2>1. EpochsHeldBack >= 0 /\ EpochsHeldBack \in Nat
    BY <1>4, HeldBack, TipsReadFacts
  <2>2. e <= E
    BY <1>1, <1>2, <2>1, TipsReadFacts
  <2>3. Begins(e) <= t
    BY <1>2, <2>2, BeginsSplits
  <2> QED
    BY <1>1, <1>4, <2>3, DeepEnough
<1> QED
  BY <1>3, <1>4

(* The rewards of the epochs compared are complete. *)
LEMMA RewardsComplete ==
  ASSUME TipsRead, NEW d \in DB, NEW e \in Epochs, e <= CutoffEpoch, table = "reward"
  PROVE  e < EpochOf[tip[d]] /\ Stage(d, e) = Lag
<1> DEFINE E == tips[d].epoch
           t == tips[d].block
<1>1. e \in Nat /\ EpochOf[tip[d]] \in Nat
  BY TipsReadPlace, PosFacts
<1>2. t \in Pos /\ t \in Nat /\ E = EpochOf[t] /\ E \in Nat /\ E \in Epochs /\ LowEpoch <= E
  BY TipsReadPlace, PosFacts
<1>3. EpochOf[tip[d]] - e >= Lag
  <2>1. CASE moving
    <3>1. EpochsHeldBack = Lag + 1
      BY <2>1, HeldBack
    <3>2. e + (Lag + 1) <= E
      BY <1>1, <1>2, <3>1, TipsReadFacts
    <3>3. E - 1 \in Epochs
      BY <1>1, <1>2, <3>2, TipsReadFacts, NoEpochSkipped
    <3>4. Begins(E) - Begins(E - 1) >= K
      <4>1. (E - 1) + 1 = E
        BY <1>2
      <4> QED
        BY <1>2, <3>3, <4>1, LongEpochs
    <3>5. Begins(E) <= t /\ Begins(E) \in Nat /\ Begins(E - 1) \in Nat
      BY <1>2, <3>3, BeginsSplits, BeginsFirst, PosFacts
    <3>6. Begins(E - 1) <= tip[d]
      <4> HIDE DEF E
      <4> QED
        BY <1>2, <3>4, <3>5, TipsReadFacts, TipsReadPlace
    <3>7. E - 1 <= EpochOf[tip[d]]
      BY <3>3, <3>6, TipsReadPlace, BeginsSplits
    <3> QED
      BY <1>1, <1>2, <3>2, <3>7, TipsReadFacts
  <2>2. CASE ~moving
    <3>1. EpochsHeldBack = Lag
      BY <2>2, HeldBack
    <3>2. E = EpochOf[tip[d]]
      BY <1>2, <2>2, TipsReadPlace
    <3> QED
      BY <1>1, <1>2, <3>1, <3>2, TipsReadFacts
  <2> QED
    BY <2>1, <2>2
<1> QED
  BY <1>1, <1>3, TipsReadFacts DEF Stage

-----------------------------------------------------------------------------
(***************************************************************************)
(* What is known of a decision or a spending within the boundary.          *)
(***************************************************************************)
First(S) == CHOOSE q \in S : \A o \in S : q <= o

LEMMA FirstIs ==
  ASSUME NEW S \in SUBSET Pos, S # {}
  PROVE  First(S) \in S /\ \A o \in S : First(S) <= o
<1>1. S \in SUBSET Nat
  BY PosFacts
<1>2. \E q \in S : \A o \in S : q <= o
  BY <1>1, NatLeast
<1> QED
  BY <1>2 DEF First

LEMMA SameFirst ==
  ASSUME NEW S \in SUBSET Pos, NEW m \in S, \A o \in S : m <= o
  PROVE  First(S) = m
<1>1. First(S) \in S /\ First(S) <= m /\ m <= First(S)
  BY FirstIs
<1>2. First(S) \in Nat /\ m \in Nat
  BY <1>1, PosFacts
<1> QED
  BY <1>1, <1>2

DecidedBy(p) == {q \in Pos : p \in Block["main"][q].decides /\ EpochOf[q] <= CutoffEpoch}

KnownDecision(p) == IF DecidedBy(p) = {} THEN None ELSE EpochOf[First(DecidedBy(p))]

SpentBy(p) == {q \in Pos : Block["main"][q].spends = p /\ q <= CutoffBlock}

SpendingKnown(p, x) ==
  IF SpentBy(p) = {} THEN x = None \/ (x \in Pos /\ x > CutoffBlock) ELSE x = First(SpentBy(p))

(* A decision of an epoch up to the cutoff epoch is known, a later one is capped. *)
LEMMA DecisionKnown ==
  ASSUME TipsRead, table = "gov_action_proposal", NEW d \in DB, NEW p
  PROVE  LET x == Decided(d, p)
         IN  /\ x \in Nat \cup {None}
             /\ KnownDecision(p) = IF x # None /\ x > CutoffEpoch THEN None ELSE x
<1> DEFINE by == {q \in Processed(d) : p \in BlockAt(d, q).decides}
           known == DecidedBy(p)
<1>1. Decided(d, p) = IF by = {} THEN None ELSE EpochOf[First(by)]
  BY DEF Decided, First
<1>2. by \in SUBSET Pos /\ known \in SUBSET Pos
  BY TipsReadPlace, PosFacts DEF Processed, DecidedBy
<1>3. \A q \in Pos : EpochOf[q] \in Nat /\ EpochOf[q] # None
  BY PosFacts, EpochAssumption
<1>4. ASSUME NEW q \in by, EpochOf[q] <= CutoffEpoch
      PROVE  q \in known
  <2>1. q \in Pos /\ BranchAt(d, q) \in Branch /\ Block[BranchAt(d, q)][q].decides # {}
    BY <1>2 DEF BlockAt, BranchAt, Branch
  <2>2. q = Begins(EpochOf[q]) /\ EpochOf[q] \in Epochs
    BY <2>1, EpochAssumption, PosFacts
  <2>3. BranchAt(d, q) = "main"
    BY <1>4, <2>2, EpochsSettled
  <2> QED
    BY <1>4, <2>1, <2>3 DEF BlockAt, DecidedBy
<1>5. ASSUME NEW q \in known
      PROVE  q \in by /\ EpochOf[q] <= CutoffEpoch
  <2>1. q \in Pos /\ Block["main"][q].decides # {} /\ EpochOf[q] <= CutoffEpoch
    BY DEF DecidedBy
  <2>2. q = Begins(EpochOf[q]) /\ EpochOf[q] \in Epochs
    BY <2>1, EpochAssumption, PosFacts DEF Branch
  <2>3. BranchAt(d, q) = "main" /\ q <= tip[d]
    BY <2>1, <2>2, EpochsSettled
  <2>4. q \in Processed(d)
    BY <2>1, <2>3, PosFacts, TipsReadPlace DEF Processed
  <2> QED
    BY <2>1, <2>3, <2>4 DEF BlockAt, DecidedBy
<1>6. CutoffEpoch \in Nat
  BY TipsReadFacts
<1> HIDE DEF by, known
<1>7. CASE known = {}
  <2>1. by # {} => First(by) \in by
    BY <1>2, FirstIs
  <2>2. by # {} => EpochOf[First(by)] \in Nat /\ EpochOf[First(by)] > CutoffEpoch
    BY <1>2, <1>3, <1>4, <1>6, <1>7, <2>1
  <2> QED
    BY <1>1, <1>7, <2>2 DEF KnownDecision, known
<1>8. CASE known # {}
  <2>1. First(known) \in known /\ \A o \in known : First(known) <= o
    BY <1>2, <1>8, FirstIs
  <2>2. First(known) \in by /\ EpochOf[First(known)] <= CutoffEpoch
    BY <1>5, <2>1
  <2>3. \A o \in by : First(known) <= o
    <3> SUFFICES ASSUME NEW o \in by, ~(First(known) <= o)
                 PROVE  FALSE
      OBVIOUS
    <3>1. o \in Pos /\ First(known) \in Pos /\ o \in Nat /\ First(known) \in Nat
      BY <1>2, <2>2, PosFacts
    <3>2. EpochOf[o] <= EpochOf[First(known)]
      BY <3>1, LaterEpoch
    <3>3. EpochOf[o] <= CutoffEpoch
      BY <1>3, <1>6, <2>2, <3>1, <3>2
    <3> QED
      BY <1>4, <2>1, <3>3
  <2>4. First(by) = First(known)
    BY <1>2, <2>2, <2>3, SameFirst
  <2>5. EpochOf[First(known)] \in Nat
    BY <1>2, <1>3, <2>1
  <2> QED
    BY <1>1, <1>6, <1>8, <2>2, <2>4, <2>5 DEF KnownDecision, known
<1> QED
  BY <1>7, <1>8

(* A spending up to the cutoff is known; any other is later. *)
LEMMA SpendingIs ==
  ASSUME TipsRead, NEW d \in DB, NEW p
  PROVE  SpendingKnown(p, Spent(d, p))
<1> DEFINE by == {q \in Processed(d) : BlockAt(d, q).spends = p}
           known == SpentBy(p)
<1>1. Spent(d, p) = IF by = {} THEN None ELSE First(by)
  BY DEF Spent, First
<1>2. by \in SUBSET Pos /\ known \in SUBSET Pos
  BY TipsReadPlace, PosFacts DEF Processed, SpentBy
<1>3. \A q \in by : q <= CutoffBlock => q \in known
  BY <1>2, BlocksSettled DEF BlockAt, SpentBy
<1>4. \A q \in known : q \in by
  BY BlocksSettled, TipsReadPlace, PosFacts DEF BlockAt, SpentBy, Processed
<1>5. \A q \in known : q <= CutoffBlock
  BY DEF SpentBy
<1>6. CutoffBlock \in Nat
  BY TipsReadFacts
<1> HIDE DEF by, known
<1>7. CASE known = {}
  <2>1. by # {} => First(by) \in by
    BY <1>2, FirstIs
  <2>2. by # {} => First(by) \in Pos /\ First(by) \in Nat /\ ~(First(by) <= CutoffBlock)
    BY <1>2, <1>3, <1>7, <2>1, PosFacts
  <2>3. by # {} => First(by) \in Pos /\ First(by) > CutoffBlock
    BY <1>6, <2>2
  <2> QED
    BY <1>1, <1>7, <2>3 DEF SpendingKnown, known
<1>8. CASE known # {}
  <2>1. First(known) \in known /\ \A o \in known : First(known) <= o
    BY <1>2, <1>8, FirstIs
  <2>2. First(known) \in by /\ First(known) <= CutoffBlock /\ First(known) \in Nat
    BY <1>2, <1>4, <1>5, <2>1, PosFacts
  <2>3. \A o \in by : First(known) <= o
    <3> SUFFICES ASSUME NEW o \in by, ~(First(known) <= o)
                 PROVE  FALSE
      OBVIOUS
    <3>1. o \in Nat
      BY <1>2, PosFacts
    <3>2. o <= CutoffBlock
      BY <1>6, <2>2, <3>1
    <3> QED
      BY <1>3, <2>1, <3>2
  <2>4. First(by) = First(known)
    BY <1>2, <2>2, <2>3, SameFirst
  <2> QED
    BY <1>1, <1>8, <2>2, <2>4 DEF SpendingKnown, known
<1> QED
  BY <1>7, <1>8

-----------------------------------------------------------------------------
(***************************************************************************)
(* The rows of a table with epochs that a trusted run selects: those of    *)
(* the chain, damaged in database 2.                                       *)
(***************************************************************************)
EpochTables == {"gov_action_proposal", "reward", "committee"}

Proposals == {p \in Pos : InScope(p) /\ Block["main"][p].proposes}

RewardEpochs == {e \in Epochs : window = None /\ e <= CutoffEpoch}

Clean ==
  IF table = "gov_action_proposal" THEN {Row(p, "main", KnownDecision(p)) : p \in Proposals}
  ELSE IF table = "reward" THEN {Row(e, "main", Lag) : e \in RewardEpochs}
  ELSE IF window = None /\ Shown <= CutoffEpoch THEN {Row(Shown, "main", None)} ELSE {}

Hit(d, r) == d = 2 /\ defect # None /\ defect.table = table /\ defect.at = r.at

Damage(d, r) == IF Hit(d, r) THEN Wrong(r) ELSE {r}

Damaged(d, S) == UNION {Damage(d, r) : r \in S}

LEMMA RowsAreDamaged ==
  ASSUME NEW d
  PROVE  Rows(table, d) = Damaged(d, TrueRows(table, d))
BY DEF Rows, Damaged, Damage, Hit

LEMMA RecordIs ==
  ASSUME NEW s, NEW at, NEW branch, NEW late, NEW bad,
         s = [x \in {"at", "branch", "late", "bad"} |-> s[x]],
         s.at = at, s.branch = branch, s.late = late, s.bad = bad
  PROVE  s = [at |-> at, branch |-> branch, late |-> late, bad |-> bad]
<1> DEFINE t == [at |-> at, branch |-> branch, late |-> late, bad |-> bad]
<1>1. /\ t = [x \in {"at", "branch", "late", "bad"} |-> t[x]]
      /\ t.at = at /\ t.branch = branch /\ t.late = late /\ t.bad = bad
  OBVIOUS
<1> HIDE DEF t
<1>2. s = t
  BY <1>1
<1> QED
  BY <1>2 DEF t

Spoilt(at, branch, late) == [at |-> at, branch |-> branch, late |-> late, bad |-> TRUE]

LEMMA RowFields ==
  ASSUME NEW at, NEW branch, NEW late
  PROVE  /\ Row(at, branch, late).at = at
         /\ Row(at, branch, late).branch = branch
         /\ Row(at, branch, late).late = late
BY DEF Row

LEMMA SpoiltFields ==
  ASSUME NEW at, NEW branch, NEW late
  PROVE  /\ Spoilt(at, branch, late).at = at
         /\ Spoilt(at, branch, late).late = late
BY DEF Spoilt

LEMMA SpoiltDiffers ==
  ASSUME NEW at, NEW branch, NEW late, NEW a, NEW b, NEW l
  PROVE  Spoilt(at, branch, late) # Row(a, b, l)
<1>1. Spoilt(at, branch, late).bad # Row(a, b, l).bad
  BY DEF Spoilt, Row
<1> QED
  BY <1>1

(* What becomes of rows in which a field is written. *)
LEMMA RowUpdates ==
  ASSUME NEW at, NEW branch, NEW late
  PROVE  /\ [Row(at, branch, late) EXCEPT !.bad = TRUE] = Spoilt(at, branch, late)
         /\ [Row(at, branch, late) EXCEPT !.late = None] = Row(at, branch, None)
         /\ [Spoilt(at, branch, late) EXCEPT !.late = None] = Spoilt(at, branch, None)
<1>1. ASSUME NEW bad, NEW r, r = [at |-> at, branch |-> branch, late |-> late, bad |-> bad]
      PROVE  [r EXCEPT !.late = None] = [at |-> at, branch |-> branch, late |-> None, bad |-> bad]
  <2> DEFINE s == [r EXCEPT !.late = None]
  <2>1. /\ s = [x \in {"at", "branch", "late", "bad"} |-> s[x]]
        /\ s.at = at /\ s.branch = branch /\ s.late = None /\ s.bad = bad
    BY <1>1
  <2> HIDE DEF s
  <2>2. s = [at |-> at, branch |-> branch, late |-> None, bad |-> bad]
    BY <2>1, RecordIs
  <2> QED
    BY <2>2 DEF s
<1>2. [Row(at, branch, late) EXCEPT !.bad = TRUE] = Spoilt(at, branch, late)
  <2> DEFINE r == Row(at, branch, late)
             s == [r EXCEPT !.bad = TRUE]
  <2>1. r = [at |-> at, branch |-> branch, late |-> late, bad |-> FALSE]
    BY DEF Row
  <2> HIDE DEF r
  <2>2. /\ s = [x \in {"at", "branch", "late", "bad"} |-> s[x]]
        /\ s.at = at /\ s.branch = branch /\ s.late = late /\ s.bad = TRUE
    BY <2>1
  <2> HIDE DEF s
  <2>3. s = [at |-> at, branch |-> branch, late |-> late, bad |-> TRUE]
    BY <2>2, RecordIs
  <2> QED
    BY <2>3 DEF s, r, Spoilt
<1> QED
  BY <1>1, <1>2 DEF Row, Spoilt

(* What a damaged row looks like. *)
HitAt(d, at) == d = 2 /\ defect # None /\ defect.at = at

LEMMA DamageIs ==
  ASSUME RunInv, NEW d, NEW at, NEW branch, NEW late
  PROVE  /\ ~HitAt(d, at) => Damage(d, Row(at, branch, late)) = {Row(at, branch, late)}
         /\ HitAt(d, at) =>
              /\ defect.how \in {"bad", "lost", "unset"}
              /\ defect.how = "bad" => Damage(d, Row(at, branch, late)) = {Spoilt(at, branch, late)}
              /\ defect.how = "lost" => Damage(d, Row(at, branch, late)) = {}
              /\ defect.how = "unset" => Damage(d, Row(at, branch, late)) = {Row(at, branch, None)}
<1> DEFINE r == Row(at, branch, late)
<1>1. Hit(d, r) <=> HitAt(d, at)
  <2>1. r.at = at
    BY RowFields
  <2>2. defect # None => defect.table = table
    BY DEF RunInv, OptionsInv
  <2> HIDE DEF r
  <2> QED
    BY <2>1, <2>2 DEF Hit, HitAt
<1>3. [r EXCEPT !.bad = TRUE] = Spoilt(at, branch, late)
  BY RowUpdates
<1>4. [r EXCEPT !.late = None] = Row(at, branch, None)
  BY RowUpdates
<1>5. HitAt(d, at) => defect.how \in {"bad", "lost", "unset"}
  BY DefectsAssumption DEF RunInv, OptionsInv, HitAt
<1> HIDE DEF r
<1> QED
  BY <1>1, <1>3, <1>4, <1>5, WrongOf DEF Damage, r

LEMMA DamageStays ==
  ASSUME RunInv, NEW d, NEW at, NEW branch, NEW late, NEW w \in Damage(d, Row(at, branch, late))
  PROVE  w.at = at
<1>1. w \in {Row(at, branch, late), Spoilt(at, branch, late), Row(at, branch, None)}
  BY DamageIs
<1> QED
  BY <1>1, RowFields, SpoiltFields

(* What the rows of places in C come to, if only those are selected. *)
LEMMA SelectDamaged ==
  ASSUME RunInv, NEW d, NEW S, NEW C, \A r \in S : r = Row(r.at, r.branch, r.late)
  PROVE  {r \in Damaged(d, S) : r.at \in C} = Damaged(d, {r \in S : r.at \in C})
<1>1. \A r \in S : \A w \in Damage(d, r) : w.at = r.at
  BY DamageStays
<1> QED
  BY <1>1 DEF Damaged

Cap(x) == IF x # None /\ x > CutoffEpoch THEN None ELSE x

(* Capping and damage do not get in each other's way. *)
LEMMA CappedDamage ==
  ASSUME RunInv, NEW d, NEW at, NEW late
  PROVE  {Capped(w) : w \in Damage(d, Row(at, "main", late))} = Damage(d, Row(at, "main", Cap(late)))
<1>1. \A x : Capped(Spoilt(at, "main", x)) = Spoilt(at, "main", Cap(x))
  BY SpoiltFields, RowUpdates DEF Capped, Cap
<1>2. \A x : Capped(Row(at, "main", x)) = Row(at, "main", Cap(x))
  BY RowFields, RowUpdates DEF Capped, Cap
<1>3. Cap(None) = None
  BY DEF Cap
<1>4. CASE ~HitAt(d, at)
  BY <1>2, <1>4, DamageIs
<1>5. CASE HitAt(d, at)
  <2>1. CASE defect.how = "bad"
    BY <1>1, <1>5, <2>1, DamageIs
  <2>2. CASE defect.how = "lost"
    BY <1>5, <2>2, DamageIs
  <2>3. CASE defect.how = "unset"
    BY <1>2, <1>3, <1>5, <2>3, DamageIs
  <2> QED
    BY <1>5, <2>1, <2>2, <2>3, DamageIs
<1> QED
  BY <1>4, <1>5

LEMMA ProposalsSelected ==
  ASSUME TipsRead, table = "gov_action_proposal", NEW d \in DB
  PROVE  Selected(d) = Damaged(d, Clean)
<1> DEFINE T == TrueRows(table, d)
           C == {p \in Pos : InScope(p)}
           V(p) == Row(p, "main", Decided(d, p))
<1>1. RunInv
  BY DEF TipsRead
<1>2. T = {Row(p, BranchAt(d, p), Decided(d, p)) : p \in {q \in Processed(d) : BlockAt(d, q).proposes}}
  BY TrueRowsOf
<1>3. Processed(d) \subseteq Pos
  BY TipsReadPlace, PosFacts DEF Processed
<1>4. \A r \in T : r = Row(r.at, r.branch, r.late) /\ r.at \in Pos
  BY <1>2, <1>3, RowFields
<1>5. \A p \in C : p \in Processed(d) /\ BranchAt(d, p) = "main"
  BY ScopeSettled, BlocksSettled, TipsReadPlace, PosFacts DEF Processed
<1>6. {r \in T : r.at \in C} = {V(p) : p \in Proposals}
  <2>1. \A r \in T : r.at \in C => r \in {V(p) : p \in Proposals}
    BY <1>2, <1>5, RowFields DEF Proposals, BlockAt
  <2>2. \A p \in Proposals : V(p) \in T /\ V(p).at = p /\ p \in C
    BY <1>2, <1>5, RowFields DEF Proposals, BlockAt
  <2> HIDE DEF T, C, V
  <2> QED
    BY <2>1, <2>2
<1> HIDE DEF T, C
<1>7. \A r \in Damaged(d, T) : r.at \in Pos
  BY <1>1, <1>4, DamageStays DEF Damaged
<1>8. {r \in Damaged(d, T) : InScope(r.at)} = {r \in Damaged(d, T) : r.at \in C}
  BY <1>7 DEF C
<1>9. {r \in Damaged(d, T) : InScope(r.at)} = Damaged(d, {V(p) : p \in Proposals})
  BY <1>1, <1>4, <1>6, <1>8, SelectDamaged
<1>10. Selected(d) = {Capped(w) : w \in Damaged(d, {V(p) : p \in Proposals})}
  BY <1>9, SelectedOf, RowsAreDamaged DEF T
<1>11. ASSUME NEW p
       PROVE  {Capped(w) : w \in Damage(d, V(p))} = Damage(d, Row(p, "main", KnownDecision(p)))
  <2>1. KnownDecision(p) = Cap(Decided(d, p))
    BY DecisionKnown DEF Cap
  <2> QED
    BY <1>1, <2>1, CappedDamage
<1>12. Clean = {Row(p, "main", KnownDecision(p)) : p \in Proposals}
  BY DEF Clean
<1> HIDE DEF V
<1> QED
  BY <1>10, <1>11, <1>12 DEF Damaged

LEMMA RewardsSelected ==
  ASSUME TipsRead, table = "reward", NEW d \in DB
  PROVE  Selected(d) = Damaged(d, Clean)
<1> DEFINE T == TrueRows(table, d)
<1>1. RunInv
  BY DEF TipsRead
<1>2. T = {Row(e, "main", Stage(d, e)) : e \in {f \in Epochs : f < EpochOf[tip[d]]}}
  BY TrueRowsOf
<1>3. \A r \in T : r = Row(r.at, r.branch, r.late) /\ r.at \in Epochs
  BY <1>2, RowFields
<1>4. \A e \in RewardEpochs : e \in Epochs /\ e < EpochOf[tip[d]] /\ Stage(d, e) = Lag
  BY RewardsComplete DEF RewardEpochs
<1>5. {r \in T : r.at \in RewardEpochs} = {Row(e, "main", Lag) : e \in RewardEpochs}
  <2>1. \A r \in T : r.at \in RewardEpochs => r \in {Row(e, "main", Lag) : e \in RewardEpochs}
    BY <1>2, <1>4, RowFields
  <2>2. \A e \in RewardEpochs : Row(e, "main", Lag) \in T /\ Row(e, "main", Lag).at = e
    BY <1>2, <1>4, RowFields
  <2> HIDE DEF T
  <2> QED
    BY <2>1, <2>2
<1> HIDE DEF T
<1>6. \A r \in Damaged(d, T) : r.at \in Epochs
  BY <1>1, <1>3, DamageStays DEF Damaged
<1>7. Selected(d) = {r \in Damaged(d, T) : r.at \in RewardEpochs}
  BY <1>6, SelectedOf, RowsAreDamaged DEF RewardEpochs, T
<1>8. {r \in Damaged(d, T) : r.at \in RewardEpochs} = Damaged(d, {r \in T : r.at \in RewardEpochs})
  BY <1>1, <1>3, SelectDamaged
<1> QED
  BY <1>5, <1>7, <1>8 DEF Clean

LEMMA CommitteeSelected ==
  ASSUME TipsRead, table = "committee", NEW d \in DB
  PROVE  Selected(d) = Damaged(d, Clean)
<1> DEFINE T == TrueRows(table, d)
           C == {e \in {Shown} : window = None /\ e <= CutoffEpoch}
           V == Row(Shown, "main", None)
<1>1. RunInv
  BY DEF TipsRead
<1>2. T = {V : q \in {p \in Processed(d) : p = Begins(Shown)}}
  BY TrueRowsOf
<1>3. \A r \in T : r = V
  BY <1>2
<1>4. V = Row(V.at, V.branch, V.late) /\ V.at = Shown
  BY RowFields
<1>5. Shown \in C => V \in T
  <2> SUFFICES ASSUME Shown <= CutoffEpoch
               PROVE  V \in T
    OBVIOUS
  <2>1. Begins(Shown) \in Pos /\ Begins(Shown) <= tip[d]
    BY EpochsSettled, EpochAssumption
  <2>2. Begins(Shown) \in Processed(d)
    BY <2>1, TipsReadPlace, PosFacts DEF Processed
  <2> QED
    BY <1>2, <2>2
<1>6. Clean = IF Shown \in C THEN {V} ELSE {}
  BY DEF Clean
<1> HIDE DEF T, V
<1>7. {r \in T : r.at \in C} = Clean
  <2>1. C \subseteq {Shown}
    OBVIOUS
  <2> HIDE DEF C
  <2> QED
    BY <1>3, <1>4, <1>5, <1>6, <2>1
<1>8. \A r \in Damaged(d, T) : r.at = Shown
  BY <1>1, <1>3, <1>4, DamageStays DEF Damaged
<1>9. Selected(d) = {r \in Damaged(d, T) : r.at \in C}
  BY <1>8, SelectedOf, RowsAreDamaged DEF T
<1> HIDE DEF C
<1>10. {r \in Damaged(d, T) : r.at \in C} = Damaged(d, {r \in T : r.at \in C})
  BY <1>1, <1>3, <1>4, SelectDamaged
<1> QED
  BY <1>7, <1>9, <1>10

LEMMA EpochTableSelected ==
  ASSUME TipsRead, table \in EpochTables, NEW d \in DB
  PROVE  Selected(d) = Damaged(d, Clean)
BY ProposalsSelected, RewardsSelected, CommitteeSelected DEF EpochTables

-----------------------------------------------------------------------------
(***************************************************************************)
(* Damage shows exactly if the defect is within the boundary.              *)
(***************************************************************************)
CleanPlaces ==
  IF table = "gov_action_proposal" THEN Proposals
  ELSE IF table = "reward" THEN RewardEpochs
  ELSE {e \in {Shown} : window = None /\ e <= CutoffEpoch}

CleanLate(at) ==
  IF table = "gov_action_proposal" THEN KnownDecision(at) ELSE IF table = "reward" THEN Lag ELSE None

LEMMA CleanIs ==
  ASSUME table \in EpochTables
  PROVE  Clean = {Row(x, "main", CleanLate(x)) : x \in CleanPlaces}
<1>1. CASE table = "gov_action_proposal"
  BY <1>1 DEF Clean, CleanPlaces, CleanLate
<1>2. CASE table = "reward"
  BY <1>2 DEF Clean, CleanPlaces, CleanLate
<1>3. CASE table = "committee"
  <2>1. CASE window = None /\ Shown <= CutoffEpoch
    <3>1. CleanPlaces = {Shown}
      BY <1>3, <2>1 DEF CleanPlaces
    <3>2. Clean = {Row(Shown, "main", None)} /\ CleanLate(Shown) = None
      BY <1>3, <2>1 DEF Clean, CleanLate
    <3> QED
      BY <3>1, <3>2
  <2>2. CASE ~(window = None /\ Shown <= CutoffEpoch)
    <3>1. CleanPlaces = {} /\ Clean = {}
      BY <1>3, <2>2 DEF Clean, CleanPlaces
    <3> QED
      BY <3>1
  <2> QED
    BY <2>1, <2>2
<1> QED
  BY <1>1, <1>2, <1>3 DEF EpochTables

(* The first database has no defect. *)
LEMMA FirstIsClean ==
  ASSUME RunInv, table \in EpochTables
  PROVE  Damaged(1, Clean) = Clean
<1>1. \A x : Damage(1, Row(x, "main", CleanLate(x))) = {Row(x, "main", CleanLate(x))}
  BY DamageIs DEF HitAt
<1> QED
  BY <1>1, CleanIs DEF Damaged

(* The defect is within the boundary if it hits a row and changes it. *)
LEMMA DefectScope ==
  ASSUME TipsRead, table \in EpochTables
  PROVE  DefectInScope <=>
           /\ defect # None /\ defect.at \in CleanPlaces
           /\ defect.how = "unset" => CleanLate(defect.at) # None
<1>1. defect # None => defect \in Defects /\ defect.table = table
  BY DEF TipsRead, RunInv, OptionsInv
<1>2. CASE table = "gov_action_proposal"
  <2>1. defect # None => defect.at \in Pos /\ Block["main"][defect.at].proposes
    BY <1>1, <1>2, DefectsAssumption
  <2>2. ASSUME NEW p
        PROVE  (\E e \in DecidedOnMain(p) : e <= CutoffEpoch) <=> CleanLate(p) # None
    <3>1. (\E e \in DecidedOnMain(p) : e <= CutoffEpoch) <=> DecidedBy(p) # {}
      BY DEF DecidedOnMain, DecidedBy
    <3>2. DecidedBy(p) # {} => First(DecidedBy(p)) \in Pos
      <4>1. DecidedBy(p) \in SUBSET Pos
        BY DEF DecidedBy
      <4> QED
        BY <4>1, FirstIs
    <3>3. DecidedBy(p) # {} => KnownDecision(p) # None
      BY <3>2, PosFacts, EpochAssumption DEF KnownDecision
    <3> QED
      BY <1>2, <3>1, <3>3 DEF CleanLate, KnownDecision
  <2> QED
    BY <1>2, <2>1, <2>2, InScopeOf DEF CleanPlaces, Proposals
<1>3. CASE table = "reward"
  <2>1. defect # None => defect.at \in Epochs
    BY <1>1, <1>3, DefectsAssumption
  <2>2. Lag # None
    BY EpochAssumption
  <2> QED
    BY <1>3, <2>1, <2>2, InScopeOf DEF CleanPlaces, RewardEpochs, CleanLate
<1>4. CASE table = "committee"
  <2>1. defect # None => defect.at = Shown /\ defect.how # "unset"
    BY <1>1, <1>4, DefectsAssumption
  <2> QED
    BY <1>4, <2>1, InScopeOf DEF CleanPlaces
<1> QED
  BY <1>2, <1>3, <1>4 DEF EpochTables

LEMMA DamageShows ==
  ASSUME TipsRead, table \in EpochTables
  PROVE  Damaged(2, Clean) = Clean <=> ~DefectInScope
<1> DEFINE V(x) == Row(x, "main", CleanLate(x))
<1>1. RunInv
  BY DEF TipsRead
<1>2. Damaged(2, Clean) = UNION {Damage(2, V(x)) : x \in CleanPlaces}
  BY CleanIs DEF Damaged
<1>3. ASSUME ~DefectInScope
      PROVE  Damaged(2, Clean) = Clean
  <2>1. ASSUME NEW x \in CleanPlaces
        PROVE  Damage(2, V(x)) = {V(x)}
    <3>1. CASE ~HitAt(2, x)
      BY <1>1, <3>1, DamageIs
    <3>2. CASE HitAt(2, x)
      <4>1. defect.how = "unset" /\ CleanLate(x) = None
        BY <1>3, <3>2, DefectScope DEF HitAt
      <4>2. Damage(2, V(x)) = {Row(x, "main", None)}
        BY <1>1, <3>2, <4>1, DamageIs
      <4> QED
        BY <4>1, <4>2
    <3> QED
      BY <3>1, <3>2
  <2> HIDE DEF V
  <2> QED
    BY <1>2, <2>1, CleanIs DEF V
<1>4. ASSUME DefectInScope
      PROVE  Damaged(2, Clean) # Clean
  <2> DEFINE at == defect.at
  <2>1. defect # None /\ at \in CleanPlaces /\ (defect.how = "unset" => CleanLate(at) # None)
    BY <1>4, DefectScope
  <2>2. V(at) \in Clean
    BY <2>1, CleanIs
  <2>3. \A x \in CleanPlaces : \A w \in Damage(2, V(x)) : w.at = x
    BY <1>1, DamageStays
  <2>4. V(at).at = at /\ V(at).late = CleanLate(at)
    BY RowFields
  <2>5. V(at) \notin Damage(2, V(at))
    <3>1. HitAt(2, at)
      BY <2>1 DEF HitAt
    <3>2. CASE defect.how = "bad"
      <4>1. Damage(2, V(at)) = {Spoilt(at, "main", CleanLate(at))}
        BY <1>1, <3>1, <3>2, DamageIs
      <4> QED
        BY <4>1, SpoiltDiffers
    <3>3. CASE defect.how = "lost"
      BY <1>1, <3>1, <3>3, DamageIs
    <3>4. CASE defect.how = "unset"
      <4>1. Damage(2, V(at)) = {Row(at, "main", None)}
        BY <1>1, <3>1, <3>4, DamageIs
      <4>2. Row(at, "main", None).late = None
        BY RowFields
      <4> QED
        BY <2>1, <2>4, <3>4, <4>1, <4>2
    <3> QED
      BY <1>1, <3>1, <3>2, <3>3, <3>4, DamageIs
  <2> HIDE DEF V, at
  <2>6. V(at) \notin Damaged(2, Clean)
    BY <1>2, <2>3, <2>4, <2>5
  <2> QED
    BY <2>2, <2>6
<1> QED
  BY <1>3, <1>4

-----------------------------------------------------------------------------
(***************************************************************************)
(* What has been hashed stays what the chain demands.                      *)
(***************************************************************************)
HashInv ==
  \A d \in DB : HashKnown(d) /\ Trusted /\ table \in EpochTables => hash[d] = Damaged(d, Clean)

(* An output's spending is told as far as it is known. *)
Outputs == {p \in Pos : InScope(p) /\ Block["main"][p].creates}

OutputsTold(S) ==
  \E s \in [Outputs -> Pos \cup {None}] :
    /\ S = {Row(p, "main", s[p]) : p \in Outputs}
    /\ \A p \in Outputs : SpendingKnown(p, s[p])

SpentInv ==
  \A d \in DB : HashKnown(d) /\ Trusted /\ table = "tx_out" /\ ~DefectInScope => OutputsTold(hash[d])

(* After the tips are read, neither what is trusted nor what is expected changes. *)
LEMMA StillTrusted ==
  ASSUME UNCHANGED <<options, tips, defect>>, moving \/ UNCHANGED forkAt
  PROVE  /\ Trusted' = Trusted /\ Clean' = Clean /\ DefectInScope' = DefectInScope
         /\ Outputs' = Outputs /\ \A p, x : SpendingKnown(p, x)' = SpendingKnown(p, x)
<1>1. UNCHANGED <<table, margin, window, moving, tips, defect>>
  BY DEF options
<1>2. /\ LowBlock' = LowBlock /\ LowEpoch' = LowEpoch
      /\ CutoffBlock' = CutoffBlock /\ CutoffEpoch' = CutoffEpoch
  BY <1>1 DEF LowBlock, LowEpoch, CutoffBlock, CutoffEpoch, AtLeastZero
<1>3. EpochsHeldBack' = EpochsHeldBack
  BY <1>1, Zenon DEF EpochsHeldBack
<1>4. \A p : InScope(p)' = InScope(p)
  BY <1>1, <1>2 DEF InScope
<1>5. Trusted' = Trusted
  BY <1>1, <1>2, <1>3 DEF Trusted
<1>6. \A p : KnownDecision(p)' = KnownDecision(p)
  BY <1>1, <1>2 DEF KnownDecision, DecidedBy, First
<1>7. Clean' = Clean
  BY <1>1, <1>2, <1>4, <1>6 DEF Clean, Proposals, RewardEpochs
<1>8. DefectInScope' = DefectInScope
  BY <1>1, <1>2, <1>4, Zenon DEF DefectInScope, DecidedOnMain
<1>9. Outputs' = Outputs
  BY <1>4 DEF Outputs
<1>10. \A p, x : SpendingKnown(p, x)' = SpendingKnown(p, x)
  BY <1>2 DEF SpendingKnown, SpentBy, First
<1> QED
  BY <1>5, <1>7, <1>8, <1>9, <1>10

LEMMA DamageAgain ==
  ASSUME UNCHANGED <<table, defect>>
  PROVE  \A d, S : Damaged(d, S)' = Damaged(d, S)
<1>1. \A d, r : Hit(d, r)' = Hit(d, r)
  BY DEF Hit
<1>2. \A r : Wrong(r)' = Wrong(r)
  BY Zenon DEF Wrong
<1>3. \A d, r : Damage(d, r)' = Damage(d, r)
  BY <1>1, <1>2 DEF Damage
<1> QED
  BY <1>3 DEF Damaged

(* What each step leaves of what was hashed before. *)
LEMMA HashedStays ==
  ASSUME RunInv, [Next]_vars, NEW d \in DB, HashKnown(d)'
  PROVE  \/ Hash(d)
         \/ /\ HashKnown(d) /\ hash'[d] = hash[d]
            /\ UNCHANGED <<options, tips, defect>>
            /\ moving \/ UNCHANGED <<forkAt, applied>>
<1>1. CourseInv
  BY DEF RunInv
<1>2. CASE Start \/ \E c \in DB : ReadTip(c)
  BY <1>2 DEF Start, ReadTip, Then, HashKnown, DB
<1>3. ASSUME NEW c \in DB, Hash(c)
      PROVE  Hash(d) \/ (HashKnown(d) /\ hash'[d] = hash[d] /\ UNCHANGED <<options, tips, dbVars>>)
  <2>1. CASE c = d
    BY <1>3, <2>1
  <2>2. CASE c # d
    <3>1. UNCHANGED <<options, tips, dbVars>> /\ hash' = [hash EXCEPT ![c] = Selected(c)] /\ pc = <<"hash", c>>
      BY <1>3 DEF Hash
    <3>2. HashKnown(d)
      BY <1>3, <2>2, <3>1 DEF Hash, Then, HashKnown, DB
    <3>3. hash'[d] = hash[d]
      BY <2>2, <3>1
    <3> QED
      BY <3>1, <3>2, <3>3
  <2> QED
    BY <2>1, <2>2
<1>4. CASE (\E c \in DB : Stream(c)) \/ Classify \/ Conclude \/ Finished \/ UNCHANGED vars
  <2>1. UNCHANGED <<options, tips, hash, dbVars>>
    BY <1>4 DEF Stream, Classify, Conclude, Finished, vars
  <2>2. HashKnown(d)
    BY <1>4 DEF Stream, Then, Classify, Conclude, Finished, vars, HashKnown
  <2> QED
    BY <2>1, <2>2 DEF dbVars
<1>5. CASE DbMoves
  <2>1. UNCHANGED <<options, pc, tips, hash>> /\ (moving \/ pc = <<"start", 1>>) /\ UNCHANGED defect
    BY <1>5 DEF DbMoves, DbStep
  <2>2. HashKnown(d) /\ moving
    BY <2>1 DEF HashKnown
  <2> QED
    BY <2>1, <2>2
<1> QED
  BY <1>2, <1>3, <1>4, <1>5 DEF Next, dbVars

(* When a hash is taken, both tips are known and nothing else changes. *)
LEMMA HashTakes ==
  ASSUME RunInv, NEW d \in DB, Hash(d), Trusted'
  PROVE  /\ TipsRead /\ UNCHANGED <<dbVars, options, tips>> /\ Trusted' = Trusted
         /\ hash'[d] = Selected(d)
<1>1. UNCHANGED <<dbVars, options, tips>> /\ pc = <<"hash", d>> /\ hash' = [hash EXCEPT ![d] = Selected(d)]
  BY DEF Hash
<1>2. Trusted' = Trusted
  BY <1>1, StillTrusted DEF dbVars
<1>3. \A c \in DB : TipKnown(c)
  BY <1>1 DEF TipKnown
<1>4. hash'[d] = Selected(d)
  BY <1>1 DEF RunInv, CourseInv
<1> QED
  BY <1>1, <1>2, <1>3, <1>4 DEF TipsRead

LEMMA HashesStay ==
  ASSUME RunInv, HashInv, [Next]_vars
  PROVE  HashInv'
<1> SUFFICES ASSUME NEW d \in DB, HashKnown(d)', Trusted', table' \in EpochTables
             PROVE  hash'[d] = Damaged(d, Clean)'
  BY DEF HashInv
<1>1. CASE Hash(d)
  <2>1. TipsRead /\ UNCHANGED <<dbVars, options, tips>> /\ hash'[d] = Selected(d)
    BY <1>1, HashTakes
  <2>2. table' = table /\ defect' = defect
    BY <2>1 DEF options, dbVars
  <2>3. Clean' = Clean
    BY <2>1, StillTrusted DEF dbVars
  <2>4. Damaged(d, Clean)' = Damaged(d, Clean)
    BY <2>2, <2>3, DamageAgain
  <2> QED
    BY <2>1, <2>2, <2>4, EpochTableSelected
<1>2. CASE ~Hash(d)
  <2>1. /\ HashKnown(d) /\ hash'[d] = hash[d] /\ UNCHANGED <<options, tips, defect>>
        /\ moving \/ UNCHANGED forkAt
    BY <1>2, HashedStays
  <2>2. table' = table /\ defect' = defect
    BY <2>1 DEF options
  <2>3. Trusted /\ Clean' = Clean
    BY <2>1, StillTrusted
  <2>4. Damaged(d, Clean)' = Damaged(d, Clean)
    BY <2>2, <2>3, DamageAgain
  <2> QED
    BY <2>1, <2>2, <2>3, <2>4 DEF HashInv
<1> QED
  BY <1>1, <1>2

(* The outputs a trusted run selects. *)
LEMMA OutputsSelected ==
  ASSUME TipsRead, table = "tx_out", NEW d \in DB, ~DefectInScope
  PROVE  OutputsTold(Selected(d))
<1> DEFINE T == TrueRows(table, d)
           C == {p \in Pos : InScope(p)}
           s == [p \in Outputs |-> Spent(d, p)]
<1>1. RunInv
  BY DEF TipsRead
<1>2. T = {Row(p, BranchAt(d, p), Spent(d, p)) : p \in {q \in Processed(d) : BlockAt(d, q).creates}}
  BY TrueRowsOf
<1>3. Processed(d) \subseteq Pos
  BY TipsReadPlace, PosFacts DEF Processed
<1>4. \A r \in T : r = Row(r.at, r.branch, r.late) /\ r.at \in Pos
  BY <1>2, <1>3, RowFields
<1>5. \A p \in C : p \in Processed(d) /\ BranchAt(d, p) = "main"
  BY ScopeSettled, BlocksSettled, TipsReadPlace, PosFacts DEF Processed
<1>6. {r \in T : r.at \in C} = {Row(p, "main", s[p]) : p \in Outputs}
  <2>1. \A r \in T : r.at \in C => r \in {Row(p, "main", s[p]) : p \in Outputs}
    BY <1>2, <1>5, RowFields DEF Outputs, BlockAt
  <2>2. \A p \in Outputs : Row(p, "main", s[p]) \in T /\ Row(p, "main", s[p]).at = p /\ p \in C
    BY <1>2, <1>5, RowFields DEF Outputs, BlockAt
  <2> HIDE DEF T, C, s
  <2> QED
    BY <2>1, <2>2
<1> HIDE DEF T, C
<1>7. \A r \in Damaged(d, T) : r.at \in Pos
  BY <1>1, <1>4, DamageStays DEF Damaged
<1>8. {r \in Damaged(d, T) : InScope(r.at)} = {r \in Damaged(d, T) : r.at \in C}
  BY <1>7 DEF C
<1>9. Selected(d) = Damaged(d, {r \in T : r.at \in C})
  <2>1. Selected(d) = {r \in Damaged(d, T) : r.at \in C}
    BY <1>8, SelectedOf, RowsAreDamaged DEF T
  <2> QED
    BY <1>1, <1>4, <2>1, SelectDamaged
<1>10. ASSUME NEW p \in Outputs
       PROVE  Damage(d, Row(p, "main", s[p])) = {Row(p, "main", s[p])}
  <2>1. ~HitAt(d, p)
    BY InScopeOf DEF HitAt, Outputs
  <2> QED
    BY <1>1, <2>1, DamageIs
<1>11. Selected(d) = {Row(p, "main", s[p]) : p \in Outputs}
  <2> HIDE DEF s
  <2> QED
    BY <1>6, <1>9, <1>10 DEF Damaged
<1>12. \A p \in Outputs : SpendingKnown(p, s[p]) /\ s[p] \in Pos \cup {None}
  <2> SUFFICES ASSUME NEW p \in Outputs
               PROVE  SpendingKnown(p, s[p]) /\ s[p] \in Pos \cup {None}
    OBVIOUS
  <2>1. SpendingKnown(p, s[p])
    BY SpendingIs
  <2>2. SpentBy(p) # {} => First(SpentBy(p)) \in Pos
    <3>1. SpentBy(p) \in SUBSET Pos
      BY DEF SpentBy
    <3> QED
      BY <3>1, FirstIs
  <2> HIDE DEF s
  <2> QED
    BY <2>1, <2>2 DEF SpendingKnown
<1> QED
  BY <1>11, <1>12 DEF OutputsTold

LEMMA SpendingsStay ==
  ASSUME RunInv, SpentInv, [Next]_vars
  PROVE  SpentInv'
<1> SUFFICES ASSUME NEW d \in DB, HashKnown(d)', Trusted', table' = "tx_out", ~DefectInScope'
             PROVE  OutputsTold(hash[d])'
  BY DEF SpentInv
<1>1. CASE Hash(d)
  <2>1. TipsRead /\ UNCHANGED <<dbVars, options, tips>> /\ hash'[d] = Selected(d)
    BY <1>1, HashTakes
  <2>2. table' = table
    BY <2>1 DEF options
  <2>3. /\ DefectInScope' = DefectInScope
        /\ Outputs' = Outputs /\ \A p, x : SpendingKnown(p, x)' = SpendingKnown(p, x)
    BY <2>1, StillTrusted DEF dbVars
  <2>4. OutputsTold(Selected(d))
    BY <2>1, <2>2, <2>3, OutputsSelected
  <2> QED
    BY <2>1, <2>3, <2>4 DEF OutputsTold
<1>2. CASE ~Hash(d)
  <2>1. /\ HashKnown(d) /\ hash'[d] = hash[d] /\ UNCHANGED <<options, tips, defect>>
        /\ moving \/ UNCHANGED forkAt
    BY <1>2, HashedStays
  <2>2. table' = table
    BY <2>1 DEF options
  <2>3. /\ Trusted /\ DefectInScope' = DefectInScope
        /\ Outputs' = Outputs /\ \A p, x : SpendingKnown(p, x)' = SpendingKnown(p, x)
    BY <2>1, StillTrusted
  <2>4. OutputsTold(hash[d])
    BY <2>1, <2>2, <2>3 DEF SpentInv
  <2> QED
    BY <2>1, <2>3, <2>4 DEF OutputsTold
<1> QED
  BY <1>1, <1>2

(***************************************************************************)
(* Whatever is read from a trusted run stays what the chain demands.       *)
(***************************************************************************)
THEOREM HashInvariance == Spec => [](HashInv /\ SpentInv)
<1>1. Init => HashInv /\ SpentInv
  <2> SUFFICES ASSUME Init
               PROVE  HashInv /\ SpentInv
    OBVIOUS
  <2>1. \A d \in DB : ~HashKnown(d)
    BY DEF Init, HashKnown
  <2> QED
    BY <2>1 DEF HashInv, SpentInv
<1>2. RunInv /\ HashInv /\ SpentInv /\ [Next]_vars => (HashInv /\ SpentInv)'
  BY HashesStay, SpendingsStay
<1> QED
  BY <1>1, <1>2, RunInvariance, PTL DEF Spec

LEMMA DoneFacts ==
  ASSUME RunInv, Done
  PROVE  /\ status = Verdict(hash[1], hash[2])
         /\ \A d \in DB : HashKnown(d) /\ TipKnown(d)
         /\ Trusted => TipsRead
BY DEF RunInv, CourseInv, Done, Judged, HashKnown, TipKnown, TipsRead

(***************************************************************************)
(* A table whose values come with epochs gets the verdict that the chain   *)
(* and the defect demand, however far either database has come and         *)
(* whatever it rolls back (registries.py:205-212, sql.py:34-42).           *)
(***************************************************************************)
THEOREM VerdictsFollowChain == Spec => []VerdictFollowsChain
<1>1. RunInv /\ HashInv => VerdictFollowsChain
  <2> SUFFICES ASSUME RunInv, HashInv, Done, Trusted, table \in EpochTables
               PROVE  status = "MATCH" <=> ~DefectInScope
    BY DEF VerdictFollowsChain, EpochTables
  <2>1. TipsRead /\ status = Verdict(hash[1], hash[2])
    BY DoneFacts
  <2>2. hash[1] = Damaged(1, Clean) /\ hash[2] = Damaged(2, Clean)
    BY DoneFacts DEF HashInv, DB
  <2>3. hash[1] = hash[2] <=> ~DefectInScope
    BY <2>1, <2>2, FirstIsClean, DamageShows
  <2> QED
    BY <2>1, <2>3, VerdictCases
<1> QED
  BY <1>1, RunInvariance, HashInvariance, PTL

(* However they are spent, both databases hold as many outputs. *)
LEMMA OutputsCounted ==
  ASSUME NEW s \in [Outputs -> Pos \cup {None}]
  PROVE  Cardinality({Row(p, "main", s[p]) : p \in Outputs}) = Cardinality(Outputs)
<1> DEFINE T == {Row(p, "main", s[p]) : p \in Outputs}
           f == [p \in Outputs |-> Row(p, "main", s[p])]
<1>1. IsFiniteSet(Outputs)
  <2>1. IsFiniteSet(Pos)
    BY PosFacts, FS_Interval
  <2>2. Outputs \in SUBSET Pos
    BY DEF Outputs
  <2> QED
    BY <2>1, <2>2, FS_Subset
<1>2. \A p, q \in Outputs : f[p] = f[q] => p = q
  BY RowFields
<1>3. f \in Bijection(Outputs, T)
  <2>1. f \in [Outputs -> T]
    OBVIOUS
  <2>2. \A r \in T : \E p \in Outputs : f[p] = r
    OBVIOUS
  <2> HIDE DEF f, T
  <2> QED
    BY <1>2, <2>1, <2>2 DEF Bijection, Injection, Surjection, IsInjective
<1> QED
  BY <1>1, <1>3, FS_Bijection DEF ExistsBijection

(***************************************************************************)
(* The only false alarm of tx_out is an output within the boundary that a  *)
(* tx above it spends (docs/09:115-121).                                   *)
(***************************************************************************)
THEOREM OnlySpentLater == Spec => []SpentLaterOnly
<1>1. RunInv /\ SpentInv => SpentLaterOnly
  <2> SUFFICES ASSUME RunInv, SpentInv, Done, Trusted, table = "tx_out", status # "MATCH", ~DefectInScope
               PROVE  /\ status = "HASH_DIFF"
                      /\ \E r \in hash[1] \cup hash[2] : r.late # None /\ ~InScope(r.late)
    BY DEF SpentLaterOnly
  <2>1. TipsRead /\ status = Verdict(hash[1], hash[2])
    BY DoneFacts
  <2>2. OutputsTold(hash[1]) /\ OutputsTold(hash[2])
    BY DoneFacts DEF SpentInv, DB
  <2>3. PICK s \in [Outputs -> Pos \cup {None}] :
          /\ hash[1] = {Row(p, "main", s[p]) : p \in Outputs}
          /\ \A p \in Outputs : SpendingKnown(p, s[p])
    BY <2>2 DEF OutputsTold
  <2>4. PICK t \in [Outputs -> Pos \cup {None}] :
          /\ hash[2] = {Row(p, "main", t[p]) : p \in Outputs}
          /\ \A p \in Outputs : SpendingKnown(p, t[p])
    BY <2>2 DEF OutputsTold
  <2>5. Cardinality(hash[1]) = Cardinality(hash[2])
    BY <2>3, <2>4, OutputsCounted
  <2>6. status = "HASH_DIFF"
    BY <2>1, <2>5, VerdictCases
  <2>7. PICK p \in Outputs : s[p] # t[p]
    <3>1. hash[1] # hash[2]
      BY <2>1, VerdictCases
    <3> QED
      BY <2>3, <2>4, <3>1
  <2>8. \/ s[p] # None /\ s[p] \in Pos /\ s[p] > CutoffBlock
        \/ t[p] # None /\ t[p] \in Pos /\ t[p] > CutoffBlock
    <3>1. SpendingKnown(p, s[p]) /\ SpendingKnown(p, t[p])
      BY <2>3, <2>4
    <3>2. \A q \in Pos : q # None
      BY PosFacts, EpochAssumption
    <3> QED
      BY <2>7, <3>1, <3>2 DEF SpendingKnown
  <2>9. \A q \in Pos : q > CutoffBlock => ~InScope(q)
    BY <2>1, ScopeSettled, TipsReadFacts, PosFacts
  <2>10. /\ Row(p, "main", s[p]) \in hash[1] /\ Row(p, "main", s[p]).late = s[p]
         /\ Row(p, "main", t[p]) \in hash[2] /\ Row(p, "main", t[p]).late = t[p]
    BY <2>3, <2>4, RowFields
  <2> QED
    BY <2>6, <2>8, <2>9, <2>10
<1> QED
  BY <1>1, RunInvariance, HashInvariance, PTL

-----------------------------------------------------------------------------
(***************************************************************************)
(* What an accumulator holds as long as no block of a fork has brought     *)
(* anything: the objects of the main branch up to some block.              *)
(***************************************************************************)
Minted(m) == UNION {Block["main"][p].mints : p \in {q \in Pos : q <= m}}

ObjectRows(m) == {Row(a, "main", None) : a \in Minted(m)}

MintInv ==
  ~FromFork => \A d \in DB :
    /\ KeysKnown(d) /\ defect = None => \E m \in Nat : keys[d] = Minted(m)
    /\ HashKnown(d) /\ defect = None /\ Accumulator => \E m \in Nat : hash[d] = ObjectRows(m)

LEMMA SeenIsMinted ==
  ASSUME AppliedInv, ~FromFork, NEW d \in DB
  PROVE  \E m \in Nat : Seen(d) = Minted(m)
<1> DEFINE M == {p \in Pos : <<"main", p>> \in applied[d]}
           S == {n \in Nat : \A p \in M : p <= n}
<1>1. S # {} /\ S \in SUBSET Nat
  BY PosFacts
<1>2. PICK m \in S : \A n \in S : m <= n
  <2> HIDE DEF S
  <2> QED
    BY <1>1, NatLeast
<1>3. m \in Nat /\ \A p \in M : p <= m
  BY <1>2
<1>4. ASSUME NEW q \in Pos, q <= m
      PROVE  q \in M
  <2> SUFFICES ASSUME q \notin M
               PROVE  FALSE
    OBVIOUS
  <2>1. q \in Nat /\ q >= 1 /\ q - 1 \in Nat
    BY PosFacts
  <2>2. \A p \in M : p \in Nat /\ ~(q <= p)
    BY PosFacts DEF AppliedInv
  <2>3. \A p \in M : p <= q - 1
    BY <2>1, <2>2
  <2>4. q - 1 \in S
    BY <2>1, <2>3
  <2> QED
    BY <1>2, <1>3, <1>4, <2>1, <2>4
<1>5. M = {q \in Pos : q <= m}
  BY <1>3, <1>4
<1>6. Seen(d) = UNION {Block["main"][p].mints : p \in M}
  <2>1. applied[d] \subseteq Branch \X Pos
    BY DEF AppliedInv
  <2>2. \A b \in applied[d] : b[1] = "fork" => Block[b[1]][b[2]].mints = {}
    BY <2>1 DEF FromFork
  <2>3. \A b \in applied[d] : b[1] = "main" => b[2] \in M /\ b = <<"main", b[2]>>
    BY <2>1
  <2>4. \A b \in applied[d] : b[1] = "fork" \/ b[1] = "main"
    BY <2>1 DEF Branch
  <2>5. \A p \in M : <<"main", p>> \in applied[d]
    OBVIOUS
  <2> HIDE DEF M
  <2>6. Seen(d) \subseteq UNION {Block["main"][p].mints : p \in M}
    BY <2>2, <2>3, <2>4 DEF Seen
  <2>7. UNION {Block["main"][p].mints : p \in M} \subseteq Seen(d)
    <3> SUFFICES ASSUME NEW p \in M, NEW a \in Block["main"][p].mints
                 PROVE  a \in Seen(d)
      OBVIOUS
    <3> DEFINE b == <<"main", p>>
    <3>1. b \in applied[d] /\ b[1] = "main" /\ b[2] = p
      BY <2>5
    <3> HIDE DEF b
    <3> QED
      BY <3>1 DEF Seen
  <2> QED
    BY <2>6, <2>7
<1> QED
  BY <1>3, <1>5, <1>6 DEF Minted

(* Of two such sets one is within the other. *)
LEMMA MintedGrows ==
  ASSUME NEW m \in Nat, NEW n \in Nat
  PROVE  Minted(m) \subseteq Minted(n) \/ Minted(n) \subseteq Minted(m)
<1>1. \A p \in Pos : p \in Nat
  BY PosFacts
<1>2. CASE m <= n
  BY <1>1, <1>2 DEF Minted
<1>3. CASE n <= m
  BY <1>1, <1>3 DEF Minted
<1> QED
  BY <1>2, <1>3

LEMMA ObjectRowsFinite ==
  ASSUME NEW m \in Nat
  PROVE  IsFiniteSet(ObjectRows(m))
<1> DEFINE P == {q \in Pos : q <= m}
           f == [p \in P |-> Block["main"][p].mints]
           g == [a \in Minted(m) |-> Row(a, "main", None)]
<1>1. IsFiniteSet(P)
  <2>1. IsFiniteSet(Pos)
    BY PosFacts, FS_Interval
  <2>2. P \in SUBSET Pos
    OBVIOUS
  <2> HIDE DEF P
  <2> QED
    BY <2>1, <2>2, FS_Subset
<1>2. IsFiniteSet({f[p] : p \in P})
  <2> HIDE DEF P, f
  <2> QED
    BY <1>1, ImageFinite
<1>3. \A x \in {f[p] : p \in P} : IsFiniteSet(x)
  BY EpochAssumption DEF Branch
<1>4. Minted(m) = UNION {f[p] : p \in P}
  BY DEF Minted
<1>5. IsFiniteSet(Minted(m))
  <2> HIDE DEF P, f
  <2> QED
    BY <1>2, <1>3, <1>4, FS_UNION
<1>6. ObjectRows(m) = {g[a] : a \in Minted(m)}
  BY DEF ObjectRows
<1> HIDE DEF g
<1> QED
  BY <1>5, <1>6, ImageFinite

(* Without a defect, a table holds the rows of its chain. *)
LEMMA ObjectsHeld ==
  ASSUME RunInv, AppliedInv, ~FromFork, Accumulator, defect = None, NEW d \in DB
  PROVE  \E m \in Nat : Rows(table, d) = ObjectRows(m) /\ {r.at : r \in Rows(table, d)} = Minted(m)
<1>1. PICK m \in Nat : Seen(d) = Minted(m)
  BY SeenIsMinted
<1>2. TrueRows(table, d) = ObjectRows(m)
  BY <1>1, TrueRowsOf DEF Accumulator, ObjectRows
<1>3. \A r : Damage(d, r) = {r}
  BY DEF Damage, Hit
<1>4. Rows(table, d) = ObjectRows(m)
  <2>1. \A S : Damaged(d, S) = S
    BY <1>3 DEF Damaged
  <2> QED
    BY <1>2, <2>1, RowsAreDamaged
<1>5. {r.at : r \in ObjectRows(m)} = Minted(m)
  BY RowFields DEF ObjectRows
<1> QED
  BY <1>4, <1>5

LEMMA ObjectsSelected ==
  ASSUME RunInv, AppliedInv, ~FromFork, Accumulator, defect = None, NEW d \in DB
  PROVE  \E m \in Nat : Selected(d) = ObjectRows(m)
<1>1. Selected(d) = {r \in Rows(table, d) : window = None}
  BY SelectedOf DEF Accumulator
<1>2. CASE window = None
  BY <1>1, <1>2, ObjectsHeld
<1>3. CASE window # None
  <2>1. \A p \in Pos : ~(p <= 0)
    BY PosFacts
  <2>2. Minted(0) = {}
    BY <2>1 DEF Minted
  <2>3. Selected(d) = ObjectRows(0)
    BY <1>1, <1>3, <2>2 DEF ObjectRows
  <2> QED
    BY <2>3
<1> QED
  BY <1>2, <1>3

LEMMA ForksStay ==
  ASSUME RunInv, AppliedInv, [Next]_vars, ~FromFork'
  PROVE  ~FromFork
<1>1. \A d \in DB : applied[d] \subseteq applied'[d]
  <2>1. CASE DbMoves
    BY <2>1, AppliedStays DEF DbMoves, RunInv
  <2>2. CASE ~DbMoves
    BY <2>2, QuietStep DEF Next, vars, dbVars
  <2> QED
    BY <2>1, <2>2
<1> QED
  BY <1>1 DEF FromFork

LEMMA AppliedAgain == AppliedInv /\ UNCHANGED dbVars => AppliedInv'
BY DEF AppliedInv, dbVars, BranchAt

LEMMA HashedObjectsStay ==
  ASSUME RunInv, AppliedInv, MintInv, [Next]_vars, ~FromFork', NEW d \in DB,
         HashKnown(d)', defect' = None, Accumulator'
  PROVE  \E m \in Nat : hash'[d] = ObjectRows(m)
<1>1. ~FromFork
  BY ForksStay
<1>2. CASE Hash(d)
  <2>1. UNCHANGED <<dbVars, options>> /\ hash' = [hash EXCEPT ![d] = Selected(d)]
    BY <1>2 DEF Hash
  <2>2. hash'[d] = Selected(d) /\ defect = None /\ Accumulator
    BY <2>1 DEF RunInv, CourseInv, dbVars, options, Accumulator
  <2> QED
    BY <1>1, <2>2, ObjectsSelected
<1>3. CASE ~Hash(d)
  <2>1. HashKnown(d) /\ hash'[d] = hash[d] /\ UNCHANGED <<options, defect>>
    BY <1>3, HashedStays
  <2>2. defect = None /\ Accumulator
    BY <2>1 DEF options, Accumulator
  <2> QED
    BY <1>1, <2>1, <2>2 DEF MintInv
<1> QED
  BY <1>2, <1>3

LEMMA StreamedKeysStay ==
  ASSUME RunInv, AppliedInv, MintInv, [Next]_vars, ~FromFork', NEW d \in DB, KeysKnown(d)', defect' = None
  PROVE  \E m \in Nat : keys'[d] = Minted(m)
<1>1. ~FromFork /\ CourseInv
  BY ForksStay DEF RunInv
<1>2. ASSUME KeysKnown(d), keys'[d] = keys[d], defect' = defect
      PROVE  \E m \in Nat : keys'[d] = Minted(m)
  BY <1>1, <1>2 DEF MintInv
<1>3. CASE Stream(d)
  <2>1. /\ UNCHANGED <<dbVars, options>> /\ pc = <<"stream", d>>
        /\ keys' = [keys EXCEPT ![d] = {r.at : r \in Rows(table, d)}]
    BY <1>3 DEF Stream
  <2>2. keys'[d] = {r.at : r \in Rows(table, d)} /\ defect = None /\ Accumulator
    BY <1>1, <2>1 DEF CourseInv, dbVars
  <2> QED
    BY <1>1, <2>2, ObjectsHeld
<1>4. ASSUME NEW c \in DB, Stream(c), c # d
      PROVE  KeysKnown(d) /\ keys'[d] = keys[d] /\ defect' = defect
  BY <1>1, <1>4 DEF Stream, Then, KeysKnown, DB, CourseInv, dbVars
<1>5. CASE Start \/ (\E c \in DB : ReadTip(c) \/ Hash(c)) \/ Classify
  BY <1>1, <1>5 DEF Start, ReadTip, Hash, Classify, Then, KeysKnown, CourseInv
<1>6. CASE Conclude \/ Finished \/ UNCHANGED vars
  <2>1. KeysKnown(d) /\ keys'[d] = keys[d] /\ defect' = defect
    BY <1>1, <1>6 DEF Conclude, Finished, vars, dbVars, KeysKnown, CourseInv
  <2> QED
    BY <1>2, <2>1
<1>7. CASE DbMoves
  <2>1. KeysKnown(d) /\ keys'[d] = keys[d] /\ defect' = defect
    BY <1>7 DEF DbMoves, DbStep, KeysKnown
  <2> QED
    BY <1>2, <2>1
<1> QED
  BY <1>2, <1>3, <1>4, <1>5, <1>6, <1>7 DEF Next

(***************************************************************************)
(* What an accumulator's hash and stream hold, whatever is seen when, is   *)
(* what some stretch of the main branch has entered (docs/06:618-626).     *)
(***************************************************************************)
THEOREM MintInvariance == Spec => [](AppliedInv /\ MintInv)
<1>1. Init => AppliedInv /\ MintInv
  <2> SUFFICES ASSUME Init
               PROVE  AppliedInv /\ MintInv
    OBVIOUS
  <2>1. \A d \in DB : ~HashKnown(d) /\ ~KeysKnown(d)
    BY DEF Init, HashKnown, KeysKnown
  <2> QED
    BY <2>1, PlaceStarts DEF Init, MintInv
<1>2. RunInv /\ AppliedInv /\ MintInv /\ [Next]_vars => (AppliedInv /\ MintInv)'
  <2> SUFFICES ASSUME RunInv, AppliedInv, MintInv, [Next]_vars
               PROVE  AppliedInv' /\ MintInv'
    OBVIOUS
  <2>1. AppliedInv'
    <3>1. CASE DbMoves
      BY <3>1, AppliedStays DEF DbMoves, RunInv
    <3>2. CASE ~DbMoves
      BY <3>2, QuietStep, AppliedAgain DEF Next, vars
    <3> QED
      BY <3>1, <3>2
  <2>2. MintInv'
    BY HashedObjectsStay, StreamedKeysStay DEF MintInv
  <2> QED
    BY <2>1, <2>2
<1> QED
  BY <1>1, <1>2, RunInvariance, PTL DEF Spec

(***************************************************************************)
(* An accumulator fails the run, or is called diverged by the deep check,  *)
(* only after a block of a fork has brought an object, or by a defect:     *)
(* being behind, or catching up between the hashes and the streams, never  *)
(* is enough (docs/06:618-626).                                            *)
(***************************************************************************)
THEOREM OnlyForksDiverge == Spec => []NeitherMeansForked
<1>1. RunInv /\ MintInv => NeitherMeansForked
  <2> SUFFICES ASSUME RunInv, MintInv, Done, Accumulator, ~FromFork, defect = None,
                      status = "HASH_DIFF" \/ deep = "neither"
               PROVE  FALSE
    BY DEF NeitherMeansForked
  <2>1. CASE status = "HASH_DIFF"
    <3>1. PICK m \in Nat, n \in Nat : hash[1] = ObjectRows(m) /\ hash[2] = ObjectRows(n)
      BY DoneFacts DEF MintInv, DB
    <3>2. hash[1] # hash[2] /\ Cardinality(hash[1]) = Cardinality(hash[2])
      BY <2>1, DoneFacts, VerdictCases
    <3>3. hash[1] \subseteq hash[2] \/ hash[2] \subseteq hash[1]
      BY <3>1, MintedGrows DEF ObjectRows
    <3>4. IsFiniteSet(hash[1]) /\ IsFiniteSet(hash[2])
      BY <3>1, ObjectRowsFinite
    <3> QED
      BY <3>2, <3>3, <3>4, FS_Subset
  <2>2. CASE deep = "neither"
    <3>1. deep = SubsetVerdict(keys[1], keys[2])
      BY <2>2 DEF RunInv, CourseInv
    <3>2. PICK m \in Nat, n \in Nat : keys[1] = Minted(m) /\ keys[2] = Minted(n)
      BY <2>2 DEF MintInv, DB, KeysKnown
    <3> QED
      BY <2>2, <3>1, <3>2, MintedGrows, SubsetCases
  <2> QED
    BY <2>1, <2>2
<1> QED
  BY <1>1, RunInvariance, MintInvariance, PTL
=============================================================================
