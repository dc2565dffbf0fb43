---------------------------- MODULE VerifyProofs ----------------------------
(***************************************************************************)
(* What is proved of the deep check, for all streams, of any length and    *)
(* over any keys: the counts of the merge are those of the two bags of     *)
(* keys dealt with, the verdict is about the whole streams, and no         *)
(* connection outlives a verdict.                                          *)
(*                                                                         *)
(* The invariant is about the two prefixes dealt with: a key one of them   *)
(* has more often than the other is below every key the other still has,   *)
(* so that nothing still to come can make up for it.                       *)
(***************************************************************************)
EXTENDS Verify, SumTheorems, TLAPS

(* How many of the first n keys of stream s equal k. *)
Count(s, n, k) == Cardinality({i \in 1 .. n : s[i] = k})

(* All keys of stream s after the first n are above k. *)
Above(s, n, k) == \A i \in n + 1 .. Len(s) : k < s[i]

(* Stream t has nothing to make up for what the first m of s have more. *)
Behind(s, m, t, n) == \A k \in Key : Count(t, n, k) < Count(s, m, k) => Above(t, n, k)

(* The first m keys of s are all among the first n of t, as often. *)
Within(s, m, t, n) == \A k \in Key : Count(s, m, k) <= Count(t, n, k)

(* How many more of each key the first m of s have than the first n of t. *)
Over(s, m, t, n) ==
  [k \in ToSet(s) \cup ToSet(t) |->
     IF Count(s, m, k) > Count(t, n, k) THEN Count(s, m, k) - Count(t, n, k) ELSE 0]

(* What c, counted as only in s, says of the two prefixes. *)
Counted(s, m, t, n, c) ==
  /\ c = SumFunctionOnSet(Over(s, m, t, n), ToSet(s) \cup ToSet(t))
  /\ c = 0 <=> Within(s, m, t, n)

-----------------------------------------------------------------------------
(***************************************************************************)
(* Counting the keys of a prefix.                                          *)
(***************************************************************************)
LEMMA CountType ==
  ASSUME NEW s, NEW n \in Nat, NEW k
  PROVE  Count(s, n, k) \in Nat
<1>1. IsFiniteSet(1 .. n) /\ {i \in 1 .. n : s[i] = k} \in SUBSET (1 .. n)
  BY FS_Interval
<1> QED
  BY <1>1, FS_Subset, FS_CardinalityType DEF Count

(* Nothing occurs in the empty prefix. *)
LEMMA CountNone ==
  ASSUME NEW s, NEW k
  PROVE  Count(s, 0, k) = 0
<1>1. {i \in 1 .. 0 : s[i] = k} = {}
  OBVIOUS
<1> QED
  BY <1>1, FS_EmptySet DEF Count

(* The next key counts for itself, and for nothing else. *)
LEMMA CountNext ==
  ASSUME NEW s, NEW n \in Nat, NEW k
  PROVE  /\ s[n + 1] = k => Count(s, n + 1, k) = Count(s, n, k) + 1
         /\ s[n + 1] # k => Count(s, n + 1, k) = Count(s, n, k)
<1> DEFINE C == {i \in 1 .. n : s[i] = k}
           D == {i \in 1 .. n + 1 : s[i] = k}
<1>1. IsFiniteSet(C) /\ n + 1 \notin C
  <2>1. IsFiniteSet(1 .. n) /\ C \in SUBSET (1 .. n)
    BY FS_Interval
  <2> QED
    BY <2>1, FS_Subset
<1>2. CASE s[n + 1] = k
  <2>1. D = C \cup {n + 1}
    BY <1>2
  <2> HIDE DEF C, D
  <2>2. Cardinality(D) = Cardinality(C) + 1
    BY <1>1, <2>1, FS_AddElement
  <2> QED
    BY <1>2, <2>2 DEF Count, C, D
<1>3. CASE s[n + 1] # k
  <2>1. D = C
    BY <1>3
  <2> QED
    BY <1>3, <2>1 DEF Count
<1> QED
  BY <1>2, <1>3

(* The keys of a stream are finitely many. *)
LEMMA KeysFinite ==
  ASSUME NEW s \in Seq(Key)
  PROVE  IsFiniteSet(ToSet(s)) /\ ToSet(s) \subseteq Key
<1>1. IsFiniteSet(DOMAIN s)
  <2>1. DOMAIN s = 1 .. Len(s) /\ Len(s) \in Nat
    OBVIOUS
  <2> QED
    BY <2>1, FS_Interval
<1>2. IsFiniteSet({s[i] : i \in DOMAIN s})
  BY <1>1, ImageFinite
<1> QED
  BY <1>2 DEF ToSet

-----------------------------------------------------------------------------
(***************************************************************************)
(* A turn of the merge: the next key of s, below all that is left of t, is *)
(* dealt with.                                                             *)
(***************************************************************************)
Turn(s, m, t, n) ==
  /\ s \in Seq(Key) /\ t \in Seq(Key)
  /\ m \in Nat /\ n \in Nat /\ m < Len(s)
  /\ Behind(s, m, t, n) /\ Behind(t, n, s, m)

(* The next key is one that t has no more of than s: it would not be left. *)
LEMMA NextNotBehind ==
  ASSUME NEW s, NEW m, NEW t, NEW n, Turn(s, m, t, n)
  PROVE  s[m + 1] \in Key /\ Count(t, n, s[m + 1]) <= Count(s, m, s[m + 1])
<1>1. s[m + 1] \in Key /\ s[m + 1] \in Int /\ m + 1 \in m + 1 .. Len(s)
  <2>1. Len(s) \in Nat /\ m + 1 \in 1 .. Len(s) /\ m + 1 \in m + 1 .. Len(s)
    BY DEF Turn
  <2>2. s[m + 1] \in Key
    BY <2>1 DEF Turn
  <2> QED
    BY <2>1, <2>2, VerifyAssumption
<1>2. ~(Count(s, m, s[m + 1]) < Count(t, n, s[m + 1]))
  BY <1>1 DEF Turn, Behind, Above
<1>3. Count(s, m, s[m + 1]) \in Nat /\ Count(t, n, s[m + 1]) \in Nat
  BY CountType DEF Turn
<1> QED
  BY <1>1, <1>2, <1>3

(* Afterwards neither stream can make up for the other, as before. *)
LEMMA TurnBehind ==
  ASSUME NEW s, NEW m, NEW t, NEW n, Turn(s, m, t, n), Above(t, n, s[m + 1])
  PROVE  Behind(s, m + 1, t, n) /\ Behind(t, n, s, m + 1)
<1>1. \A k : Count(s, m, k) \in Nat /\ Count(t, n, k) \in Nat
  BY CountType DEF Turn
<1>2. \A k : IF s[m + 1] = k THEN Count(s, m + 1, k) = Count(s, m, k) + 1
                             ELSE Count(s, m + 1, k) = Count(s, m, k)
  BY CountNext DEF Turn
<1>3. Behind(s, m + 1, t, n)
  <2> SUFFICES ASSUME NEW k \in Key, Count(t, n, k) < Count(s, m + 1, k)
               PROVE  Above(t, n, k)
    BY DEF Behind
  <2>1. CASE s[m + 1] = k
    BY <2>1
  <2>2. CASE s[m + 1] # k
    BY <1>2, <2>2 DEF Turn, Behind
  <2> QED
    BY <2>1, <2>2
<1>4. Behind(t, n, s, m + 1)
  <2> SUFFICES ASSUME NEW k \in Key, Count(s, m + 1, k) < Count(t, n, k)
               PROVE  Above(s, m + 1, k)
    BY DEF Behind
  <2>1. Count(s, m, k) < Count(t, n, k)
    BY <1>1, <1>2
  <2>2. Above(s, m, k)
    BY <2>1 DEF Turn, Behind
  <2>3. \A i \in (m + 1) + 1 .. Len(s) : i \in m + 1 .. Len(s)
    BY DEF Turn
  <2> QED
    BY <2>2, <2>3 DEF Above
<1> QED
  BY <1>3, <1>4

(* The key is one more only in s. *)
LEMMA TurnCountsHere ==
  ASSUME NEW s, NEW m, NEW t, NEW n, Turn(s, m, t, n), Above(t, n, s[m + 1]),
         NEW c \in Nat, Counted(s, m, t, n, c)
  PROVE  Counted(s, m + 1, t, n, c + 1)
<1> DEFINE x == s[m + 1]
           every == ToSet(s) \cup ToSet(t)
           before == Over(s, m, t, n)
           after == Over(s, m + 1, t, n)
<1>1. \A k : Count(s, m, k) \in Nat /\ Count(t, n, k) \in Nat
  BY CountType DEF Turn
<1>2. \A k : IF x = k THEN Count(s, m + 1, k) = Count(s, m, k) + 1
                      ELSE Count(s, m + 1, k) = Count(s, m, k)
  BY CountNext DEF Turn
<1>3. x \in Key /\ Count(t, n, x) <= Count(s, m, x)
  BY NextNotBehind
<1>4. x \in every /\ IsFiniteSet(every)
  <2>1. m + 1 \in DOMAIN s
    BY DEF Turn
  <2>2. IsFiniteSet(ToSet(s)) /\ IsFiniteSet(ToSet(t))
    BY KeysFinite DEF Turn
  <2> QED
    BY <2>1, <2>2, FS_Union DEF ToSet
<1>5. /\ \A k \in every : before[k] \in Int /\ after[k] \in Int
      /\ \A k \in every \ {x} : after[k] = before[k]
      /\ after[x] = before[x] + 1
  BY <1>1, <1>2, <1>3, <1>4 DEF Over
<1>6. ~Within(s, m + 1, t, n)
  BY <1>1, <1>2, <1>3 DEF Within
<1>7. c = SumFunctionOnSet(before, every)
  BY DEF Counted
<1> HIDE DEF x, every, before, after
<1>8. SumFunctionOnSet(after, every) = SumFunctionOnSet(before, every) - before[x] + after[x]
  <2>1. \A k \in every : before[k] \in Int /\ after[k] \in Int
    BY <1>5
  <2>2. \A k \in every \ {x} : after[k] = before[k]
    BY <1>5
  <2> QED
    BY <1>4, <2>1, <2>2, SumUpdate
<1>9. c + 1 = SumFunctionOnSet(after, every)
  BY <1>4, <1>5, <1>7, <1>8
<1> QED
  BY <1>6, <1>9 DEF Counted, after, every

(* It changes nothing about what is only in t. *)
LEMMA TurnCountsThere ==
  ASSUME NEW s, NEW m, NEW t, NEW n, Turn(s, m, t, n),
         NEW c \in Nat, Counted(t, n, s, m, c)
  PROVE  Counted(t, n, s, m + 1, c)
<1>1. \A k : Count(s, m, k) \in Nat /\ Count(t, n, k) \in Nat
  BY CountType DEF Turn
<1>2. \A k : IF s[m + 1] = k THEN Count(s, m + 1, k) = Count(s, m, k) + 1
                             ELSE Count(s, m + 1, k) = Count(s, m, k)
  BY CountNext DEF Turn
<1>3. s[m + 1] \in Key /\ Count(t, n, s[m + 1]) <= Count(s, m, s[m + 1])
  BY NextNotBehind
<1>4. Over(t, n, s, m + 1) = Over(t, n, s, m)
  BY <1>1, <1>2, <1>3 DEF Over
<1>5. Within(t, n, s, m + 1) <=> Within(t, n, s, m)
  BY <1>1, <1>2, <1>3 DEF Within
<1> QED
  BY <1>4, <1>5 DEF Counted

(***************************************************************************)
(* A turn that takes the same key from both changes no difference.         *)
(***************************************************************************)
LEMMA SameKeeps ==
  ASSUME NEW s \in Seq(Key), NEW m \in Nat, NEW t \in Seq(Key), NEW n \in Nat,
         s[m + 1] = t[n + 1], NEW c,
         Behind(s, m, t, n), Counted(s, m, t, n, c)
  PROVE  Behind(s, m + 1, t, n + 1) /\ Counted(s, m + 1, t, n + 1, c)
<1>1. \A k : Count(s, m, k) \in Nat /\ Count(t, n, k) \in Nat
  BY CountType
<1>2. \A k : IF s[m + 1] = k
              THEN Count(s, m + 1, k) = Count(s, m, k) + 1 /\ Count(t, n + 1, k) = Count(t, n, k) + 1
              ELSE Count(s, m + 1, k) = Count(s, m, k) /\ Count(t, n + 1, k) = Count(t, n, k)
  BY CountNext
<1>3. Behind(s, m + 1, t, n + 1)
  <2> SUFFICES ASSUME NEW k \in Key, Count(t, n + 1, k) < Count(s, m + 1, k)
               PROVE  Above(t, n + 1, k)
    BY DEF Behind
  <2>1. Count(t, n, k) < Count(s, m, k)
    BY <1>1, <1>2
  <2>2. Above(t, n, k)
    BY <2>1 DEF Behind
  <2>3. \A i \in (n + 1) + 1 .. Len(t) : i \in n + 1 .. Len(t)
    OBVIOUS
  <2> QED
    BY <2>2, <2>3 DEF Above
<1>4. Over(s, m + 1, t, n + 1) = Over(s, m, t, n)
  BY <1>1, <1>2 DEF Over
<1>5. Within(s, m + 1, t, n + 1) <=> Within(s, m, t, n)
  <2>1. \A k : Count(s, m + 1, k) <= Count(t, n + 1, k) <=> Count(s, m, k) <= Count(t, n, k)
    BY <1>1, <1>2
  <2> QED
    BY <2>1 DEF Within
<1> QED
  BY <1>3, <1>4, <1>5 DEF Counted

-----------------------------------------------------------------------------
(***************************************************************************)
(* The inductive invariant.                                                *)
(***************************************************************************)
Pulled(d) == d \in ToSet(pulls)

(* A stream in turn to be pulled was never pulled or is open; one that is *)
(* not has its last key in hand, or has run dry.                          *)
HandInv(d) ==
  /\ keyed \/ ~open[d]
  /\ taken[d] <= Len(keys[d])
  /\ Pulled(d) => taken[d] = 0 \/ open[d]
  /\ ~Pulled(d) =>
       IF head[d] = None
       THEN taken[d] = Len(keys[d]) /\ ~open[d]
       ELSE taken[d] > 0 /\ head[d] = keys[d][taken[d]] /\ open[d]

CountInv(d) ==
  /\ Behind(keys[d], Dealt(d), keys[Other(d)], Dealt(Other(d)))
  /\ Counted(keys[d], Dealt(d), keys[Other(d)], Dealt(Other(d)), only[d])
  /\ both + only[d] = Dealt(d)

VerdictInv ==
  outcome \in Verdicts =>
    /\ \A d \in DB : head[d] = None /\ taken[d] = Len(keys[d])
    /\ outcome = Verdict(only[1], only[2])

VerifyTypes ==
  /\ keys \in Streams
  /\ keyed \in BOOLEAN
  /\ TypeOK

VerifyInv ==
  /\ VerifyTypes
  /\ outcome = "pending" => \A d \in DB : HandInv(d)
  /\ outcome # "unverified" => \A d \in DB : CountInv(d)
  /\ VerdictInv
  /\ NoStreamLeft

(* The two streams and their databases. *)
LEMMA Sides ==
  ASSUME VerifyTypes
  PROVE  \A d \in DB : /\ keys[d] \in Seq(Key) /\ Ordered(keys[d]) /\ Len(keys[d]) \in Nat
                       /\ Other(d) \in DB /\ Other(d) # d /\ Other(Other(d)) = d
                       /\ \A e \in DB : e = d \/ e = Other(d)
<1>1. \A d \in DB : keys[d] \in Seq(Key) /\ Ordered(keys[d])
  BY VerifyAssumption DEF VerifyTypes
<1>2. \A d \in DB : Len(keys[d]) \in Nat
  BY <1>1
<1> QED
  BY <1>1, <1>2 DEF DB, Other

(* The orders in which the streams are pulled. *)
LEMMA PullsSet ==
  /\ ToSet(<<>>) = {}
  /\ \A d \in DB : ToSet(<<d>>) = {d}
  /\ ToSet(<<1, 2>>) = DB
<1>1. ToSet(<<>>) = {}
  BY DEF ToSet
<1>2. ASSUME NEW d \in DB PROVE ToSet(<<d>>) = {d}
  <2> DEFINE p == <<d>>
  <2>1. DOMAIN p = {1} /\ p[1] = d
    OBVIOUS
  <2> HIDE DEF p
  <2>2. ToSet(p) = {d}
    BY <2>1 DEF ToSet
  <2> QED
    BY <2>2 DEF p
<1>3. ToSet(<<1, 2>>) = DB
  <2> DEFINE p == <<1, 2>>
  <2>1. DOMAIN p = {1, 2} /\ p[1] = 1 /\ p[2] = 2
    OBVIOUS
  <2> HIDE DEF p
  <2>2. ToSet(p) = DB
    BY <2>1 DEF ToSet, DB
  <2> QED
    BY <2>2 DEF p
<1> QED
  BY <1>1, <1>2, <1>3

(* Pulling the next stream takes it out of the order. *)
LEMMA PullsNext ==
  ASSUME TypeOK, NEW d \in DB, pulls # <<>>, Head(pulls) = d
  PROVE  /\ d \in ToSet(pulls)
         /\ Tail(pulls) \in {<<>>, <<1>>, <<2>>, <<1, 2>>}
         /\ ToSet(Tail(pulls)) = ToSet(pulls) \ {d}
<1>1. pulls = <<1>> \/ pulls = <<2>> \/ pulls = <<1, 2>>
  BY DEF TypeOK
<1>2. ASSUME NEW e \in DB, pulls = <<e>>
      PROVE  d = e /\ Tail(pulls) = <<>>
  BY <1>2
<1>3. ASSUME pulls = <<1, 2>>
      PROVE  d = 1 /\ Tail(pulls) = <<2>>
  BY <1>3
<1>4. CASE pulls = <<1>>
  BY <1>2, <1>4, PullsSet DEF DB
<1>5. CASE pulls = <<2>>
  BY <1>2, <1>5, PullsSet DEF DB
<1>6. CASE pulls = <<1, 2>>
  <2>1. ToSet(<<2>>) = {2}
    BY PullsSet DEF DB
  <2> QED
    BY <1>3, <1>6, <2>1, PullsSet DEF DB
<1> QED
  BY <1>1, <1>4, <1>5, <1>6

(***************************************************************************)
(* A step that deals with no key leaves the counts right.                  *)
(***************************************************************************)
LEMMA NothingDealt ==
  ASSUME VerifyTypes, \A d \in DB : CountInv(d), \A d \in DB : Dealt(d)' = Dealt(d),
         keys' = keys, only' = only, both' = both
  PROVE  \A d \in DB : CountInv(d)'
<1> SUFFICES ASSUME NEW d \in DB PROVE CountInv(d)'
  OBVIOUS
<1>1. Dealt(d)' = Dealt(d) /\ Dealt(Other(d))' = Dealt(Other(d)) /\ CountInv(d)
  BY Sides
<1> QED
  BY <1>1 DEF CountInv, Other

(* Opening a stream changes no key in hand (db.py:35-40). *)
LEMMA OpenKeeps ==
  ASSUME VerifyInv, NEW d \in DB, Open(d)
  PROVE  VerifyInv'
<1> USE DEF Open, Pulling
<1>1. VerifyTypes /\ outcome = "pending" /\ \A e \in DB : HandInv(e) /\ CountInv(e)
  BY DEF VerifyInv
<1>2. /\ d \in ToSet(pulls)
      /\ UNCHANGED <<keys, keyed, taken, head, pulls, only, both, examples, outcome>>
  BY <1>1, PullsNext DEF VerifyTypes, merge
<1>3. \A e \in DB : HandInv(e)'
  BY <1>1, <1>2 DEF HandInv, Pulled, VerifyTypes, TypeOK
<1>4. VerifyTypes'
  BY <1>1, <1>2 DEF VerifyTypes, TypeOK
<1>5. \A e \in DB : CountInv(e)'
  <2>1. \A e \in DB : Dealt(e)' = Dealt(e)
    BY <1>2 DEF Dealt
  <2> QED
    BY <1>1, <1>2, <2>1, NothingDealt
<1> QED
  BY <1>1, <1>2, <1>3, <1>4, <1>5 DEF VerifyInv, VerdictInv, NoStreamLeft, Verdicts

(* A key pulled is in hand, not yet dealt with (db.py:41-42). *)
LEMMA YieldKeeps ==
  ASSUME VerifyInv, NEW d \in DB, Yield(d)
  PROVE  VerifyInv'
<1> USE DEF Yield, Pulling
<1>1. VerifyTypes /\ outcome = "pending" /\ \A e \in DB : HandInv(e) /\ CountInv(e)
  BY DEF VerifyInv
<1>2. /\ d \in ToSet(pulls) /\ ToSet(pulls') = ToSet(pulls) \ {d}
      /\ pulls' \in {<<>>, <<1>>, <<2>>, <<1, 2>>}
  BY <1>1, PullsNext DEF VerifyTypes
<1>3. taken[d] + 1 \in 1 .. Len(keys[d]) /\ keys[d][taken[d] + 1] \in Key
  <2>1. taken[d] \in Nat /\ keys[d] \in Seq(Key) /\ Len(keys[d]) \in Nat
    BY <1>1, Sides DEF VerifyTypes, TypeOK
  <2>2. taken[d] + 1 \in 1 .. Len(keys[d])
    BY <2>1
  <2> QED
    BY <2>1, <2>2
<1>4. /\ taken'[d] = taken[d] + 1 /\ head'[d] = keys[d][taken[d] + 1]
      /\ \A e \in DB \ {d} : taken'[e] = taken[e] /\ head'[e] = head[e]
      /\ taken' \in [DB -> Nat] /\ head' \in [DB -> Key \cup {None}]
  BY <1>1, <1>3 DEF VerifyTypes, TypeOK
<1>5. head'[d] # None
  BY <1>3, <1>4, VerifyAssumption
<1>6. \A e \in DB : HandInv(e)'
  <2> SUFFICES ASSUME NEW e \in DB PROVE HandInv(e)'
    OBVIOUS
  <2>1. HandInv(e) /\ taken[e] \in Nat
    BY <1>1 DEF VerifyTypes, TypeOK
  <2>2. CASE e = d
    BY <1>2, <1>3, <1>4, <1>5, <2>1, <2>2 DEF HandInv, Pulled
  <2>3. CASE e # d
    BY <1>2, <1>4, <2>1, <2>3 DEF HandInv, Pulled
  <2> QED
    BY <2>2, <2>3
<1>7. VerifyTypes'
  <2>1. outcome = "pending" => \A e \in DB : taken'[e] > 0 /\ ~open'[e] => head'[e] = None
    BY <1>1, <1>4 DEF VerifyTypes, TypeOK
  <2> QED
    BY <1>1, <1>2, <1>4, <2>1 DEF VerifyTypes, TypeOK
<1>8. \A e \in DB : CountInv(e)'
  <2>1. ASSUME NEW e \in DB PROVE Dealt(e)' = Dealt(e)
    <3>1. CASE e = d
      BY <1>1, <1>2, <1>4, <1>5, <3>1 DEF Dealt, VerifyTypes, TypeOK
    <3>2. CASE e # d
      BY <1>2, <1>4, <3>2 DEF Dealt
    <3> QED
      BY <3>1, <3>2
  <2> QED
    BY <1>1, <2>1, NothingDealt
<1> QED
  BY <1>1, <1>6, <1>7, <1>8 DEF VerifyInv, VerdictInv, NoStreamLeft, Verdicts

(* A stream that runs dry is closed for good (db.py:43-45). *)
LEMMA RunDryKeeps ==
  ASSUME VerifyInv, NEW d \in DB, RunDry(d)
  PROVE  VerifyInv'
<1> USE DEF RunDry, Pulling
<1>1. VerifyTypes /\ outcome = "pending" /\ \A e \in DB : HandInv(e) /\ CountInv(e)
  BY DEF VerifyInv
<1>2. /\ d \in ToSet(pulls) /\ ToSet(pulls') = ToSet(pulls) \ {d}
      /\ pulls' \in {<<>>, <<1>>, <<2>>, <<1, 2>>}
  BY <1>1, PullsNext DEF VerifyTypes
<1>3. /\ head'[d] = None /\ open'[d] = FALSE
      /\ \A e \in DB \ {d} : head'[e] = head[e] /\ open'[e] = open[e]
      /\ head' \in [DB -> Key \cup {None}] /\ open' \in [DB -> BOOLEAN]
  BY <1>1 DEF VerifyTypes, TypeOK
<1>4. \A e \in DB : HandInv(e)'
  <2> SUFFICES ASSUME NEW e \in DB PROVE HandInv(e)'
    OBVIOUS
  <2>1. HandInv(e) /\ taken[e] \in Nat
    BY <1>1 DEF VerifyTypes, TypeOK
  <2>2. CASE e = d
    BY <1>2, <1>3, <2>1, <2>2 DEF HandInv, Pulled
  <2>3. CASE e # d
    BY <1>2, <1>3, <2>1, <2>3 DEF HandInv, Pulled
  <2> QED
    BY <2>2, <2>3
<1>5. VerifyTypes'
  <2>1. \A e \in DB : taken'[e] > 0 /\ ~open'[e] => head'[e] = None
    BY <1>1, <1>3 DEF VerifyTypes, TypeOK
  <2> QED
    BY <1>1, <1>2, <1>3, <2>1 DEF VerifyTypes, TypeOK
<1>6. \A e \in DB : CountInv(e)'
  <2>1. ASSUME NEW e \in DB PROVE Dealt(e)' = Dealt(e)
    <3>1. CASE e = d
      BY <1>2, <1>3, <3>1 DEF Dealt
    <3>2. CASE e # d
      BY <1>2, <1>3, <3>2 DEF Dealt
    <3> QED
      BY <3>1, <3>2
  <2> QED
    BY <1>1, <2>1, NothingDealt
<1> QED
  BY <1>1, <1>4, <1>5, <1>6 DEF VerifyInv, VerdictInv, NoStreamLeft, Verdicts

(* A failure gives no verdict, and nor does what is dropped after it (cli.py:101-107). *)
LEMMA StreamFailsKeeps ==
  ASSUME VerifyInv, NEW d \in DB, StreamFails(d) \/ DropStream(d)
  PROVE  VerifyInv'
  BY DEF StreamFails, DropStream, Pulling, merge, VerifyInv, VerifyTypes, TypeOK, VerdictInv, NoStreamLeft, Verdicts

(* Without a key query nothing was opened (verify.py:149-151). *)
LEMMA NoKeyQueryKeeps ==
  ASSUME VerifyInv, NoKeyQuery
  PROVE  VerifyInv'
<1>1. \A d \in DB : ~open[d]
  BY DEF NoKeyQuery, VerifyInv, HandInv
<1> QED
  BY <1>1 DEF NoKeyQuery, merge, VerifyInv, VerifyTypes, TypeOK, VerdictInv, NoStreamLeft, Verdicts

(* Between two pulls, with a key of d in hand: it is the next of d. *)
LEMMA InHand ==
  ASSUME VerifyInv, Merging, NEW d \in DB
  PROVE  /\ HandInv(d) /\ ~Pulled(d)
         /\ head[d] = None => Dealt(d) = Len(keys[d])
         /\ head[d] # None => /\ Dealt(d) = taken[d] - 1 /\ Dealt(d) \in Nat
                              /\ Dealt(d) < Len(keys[d])
                              /\ head[d] = keys[d][Dealt(d) + 1]
                              /\ open[d]
<1>1. HandInv(d) /\ VerifyTypes /\ outcome = "pending"
  BY DEF VerifyInv, Merging
<1>2. ~Pulled(d)
  BY PullsSet DEF Merging, Pulled
<1>3. taken[d] \in Nat /\ Len(keys[d]) \in Nat
  BY <1>1, Sides DEF VerifyTypes, TypeOK
<1> QED
  BY <1>1, <1>2, <1>3 DEF HandInv, Pulled, Dealt

(* A key in both counts once, and both streams move on. *)
LEMMA SameStepKeeps ==
  ASSUME VerifyInv, Same
  PROVE  VerifyInv'
<1>1. /\ VerifyTypes /\ Merging /\ outcome = "pending"
      /\ \A e \in DB : HandInv(e) /\ CountInv(e)
      /\ UNCHANGED <<keys, keyed, open, taken, head, only, examples, outcome>>
      /\ both' = both + 1 /\ pulls' = <<1, 2>>
      /\ head[1] # None /\ head[1] = head[2]
  BY DEF VerifyInv, Same, Merging
<1>2. \A e \in DB : /\ head[e] # None /\ open[e]
                   /\ Dealt(e) \in Nat /\ Dealt(e) = taken[e] - 1
                   /\ head[e] = keys[e][Dealt(e) + 1]
  BY <1>1, InHand DEF DB
<1>3. \A e \in DB : Pulled(e)'
  BY <1>1, PullsSet DEF Pulled
<1>4. \A e \in DB : HandInv(e)'
  BY <1>1, <1>2, <1>3 DEF HandInv
<1>5. VerifyTypes'
  BY <1>1 DEF VerifyTypes, TypeOK
<1>6. \A e \in DB : Dealt(e)' = Dealt(e) + 1
  BY <1>1, <1>2, <1>3 DEF Dealt, Pulled, VerifyTypes, TypeOK
<1>7. ASSUME NEW e \in DB PROVE CountInv(e)'
  <2> DEFINE s == keys[e]
             t == keys[Other(e)]
             m == Dealt(e)
             n == Dealt(Other(e))
  <2>1. /\ s \in Seq(Key) /\ t \in Seq(Key) /\ m \in Nat /\ n \in Nat
        /\ s[m + 1] = t[n + 1]
    BY <1>1, <1>2, Sides DEF DB, Other
  <2>2. Behind(s, m, t, n) /\ Counted(s, m, t, n, only[e]) /\ both + only[e] = m
    BY <1>1 DEF CountInv
  <2>3. Dealt(e)' = m + 1 /\ Dealt(Other(e))' = n + 1
    BY <1>1, <1>6, Sides
  <2>4. only[e] \in Nat /\ both \in Nat
    BY <1>1 DEF VerifyTypes, TypeOK
  <2> HIDE DEF m, n, s, t
  <2>5. Behind(s, m + 1, t, n + 1) /\ Counted(s, m + 1, t, n + 1, only[e])
    BY <2>1, <2>2, SameKeeps
  <2> QED
    BY <1>1, <2>2, <2>3, <2>4, <2>5 DEF CountInv, s, t, Other
<1> QED
  BY <1>1, <1>4, <1>5, <1>7 DEF VerifyInv, VerdictInv, NoStreamLeft, Verdicts

(* The smaller key in hand is only there, and its stream alone moves on. *)
LEMMA OnlyInKeeps ==
  ASSUME VerifyInv, NEW d \in DB, OnlyIn(d)
  PROVE  VerifyInv'
<1> DEFINE o == Other(d)
           s == keys[d]
           t == keys[o]
           m == Dealt(d)
           n == Dealt(o)
<1>1. /\ VerifyTypes /\ Merging /\ outcome = "pending"
      /\ \A e \in DB : HandInv(e) /\ CountInv(e)
      /\ UNCHANGED <<keys, keyed, open, taken, head, both, outcome>>
      /\ pulls' = <<d>> /\ head[d] # None
      /\ head[o] # None => head[d] < head[o]
      /\ only' = [only EXCEPT ![d] = @ + 1]
      /\ examples' = [examples EXCEPT ![d] = IF Len(@) < MaxExamples THEN Append(@, head[d]) ELSE @]
  BY DEF VerifyInv, OnlyIn, Merging
<1>2. /\ o \in DB /\ o # d /\ Other(o) = d /\ \A e \in DB : e = d \/ e = o
      /\ s \in Seq(Key) /\ t \in Seq(Key) /\ Ordered(t) /\ Len(t) \in Nat
  BY <1>1, Sides
<1>3. /\ m \in Nat /\ m = taken[d] - 1 /\ m < Len(s) /\ head[d] = s[m + 1] /\ open[d]
      /\ head[o] = None => n = Len(t)
      /\ head[o] # None => n \in Nat /\ n = taken[o] - 1 /\ n < Len(t) /\ head[o] = t[n + 1]
  BY <1>1, <1>2, InHand
<1>4. n \in Nat
  BY <1>2, <1>3
<1>5. \A e \in DB : (Pulled(e)' <=> e = d) /\ ~Pulled(e)
  BY <1>1, PullsSet DEF Pulled, Merging
<1>6. Dealt(d)' = m + 1 /\ Dealt(o)' = n
  <2>1. Dealt(d)' = taken[d]
    BY <1>1, <1>5 DEF Dealt, Pulled
  <2>2. Dealt(o)' = Dealt(o)
    BY <1>1, <1>2, <1>5 DEF Dealt, Pulled
  <2> QED
    BY <1>1, <1>3, <2>1, <2>2 DEF VerifyTypes, TypeOK
<1>7. VerifyTypes'
  <2>1. examples' \in [DB -> Seq(Key)]
    <3>1. examples[d] \in Seq(Key) /\ head[d] \in Key
      BY <1>1 DEF VerifyTypes, TypeOK
    <3>2. Append(examples[d], head[d]) \in Seq(Key)
      BY <3>1
    <3> QED
      BY <1>1, <3>1, <3>2 DEF VerifyTypes, TypeOK
  <2>2. only' \in [DB -> Nat] /\ pulls' \in {<<>>, <<1>>, <<2>>, <<1, 2>>}
    BY <1>1 DEF VerifyTypes, TypeOK, DB
  <2> QED
    BY <1>1, <2>1, <2>2 DEF VerifyTypes, TypeOK
<1>8. \A e \in DB : HandInv(e)'
  <2>1. HandInv(d)'
    BY <1>1, <1>3, <1>5 DEF HandInv
  <2>2. HandInv(o)'
    BY <1>1, <1>2, <1>5 DEF HandInv
  <2> QED
    BY <1>2, <2>1, <2>2
<1>9. /\ only[d] \in Nat /\ only[o] \in Nat /\ both \in Nat
      /\ only'[d] = only[d] + 1 /\ only'[o] = only[o]
  BY <1>1, <1>2 DEF VerifyTypes, TypeOK
<1>10. /\ Behind(s, m, t, n) /\ Counted(s, m, t, n, only[d]) /\ both + only[d] = m
       /\ Behind(t, n, s, m) /\ Counted(t, n, s, m, only[o]) /\ both + only[o] = n
  BY <1>1, <1>2 DEF CountInv
<1>11. Turn(s, m, t, n) /\ Above(t, n, s[m + 1])
  <2>1. Above(t, n, s[m + 1])
    <3> SUFFICES ASSUME NEW i \in n + 1 .. Len(t) PROVE s[m + 1] < t[i]
      BY DEF Above
    <3>1. head[o] # None /\ s[m + 1] < t[n + 1]
      BY <1>1, <1>2, <1>3, <1>4
    <3>2. n + 1 \in 1 .. Len(t) /\ i \in 1 .. Len(t) /\ n + 1 <= i /\ m + 1 \in 1 .. Len(s)
      BY <1>2, <1>3, <1>4
    <3>3. t[n + 1] <= t[i]
      BY <1>2, <3>2 DEF Ordered
    <3>4. s[m + 1] \in Int /\ t[n + 1] \in Int /\ t[i] \in Int
      <4>1. s[m + 1] \in Key /\ t[n + 1] \in Key /\ t[i] \in Key
        BY <1>2, <3>2
      <4> QED
        BY <4>1, VerifyAssumption
    <3> QED
      BY <3>1, <3>3, <3>4
  <2> QED
    BY <1>2, <1>3, <1>4, <1>10, <2>1 DEF Turn
<1> HIDE DEF m, n, s, t, o
<1>12. Behind(s, m + 1, t, n) /\ Behind(t, n, s, m + 1)
  BY <1>11, TurnBehind
<1>13. Counted(s, m + 1, t, n, only[d] + 1) /\ Counted(t, n, s, m + 1, only[o])
  BY <1>9, <1>10, <1>11, TurnCountsHere, TurnCountsThere
<1>14. CountInv(d)'
  <2>1. (both + only[d] + 1 = m + 1) /\ Other(d) = o
    BY <1>3, <1>9, <1>10 DEF o
  <2> QED
    BY <1>1, <1>6, <1>9, <1>12, <1>13, <2>1 DEF CountInv, s, t, Other
<1>15. CountInv(o)'
  BY <1>1, <1>2, <1>6, <1>9, <1>10, <1>12, <1>13 DEF CountInv, s, t, Other
<1> QED
  BY <1>1, <1>2, <1>7, <1>8, <1>14, <1>15 DEF VerifyInv, VerdictInv, NoStreamLeft, Verdicts

(* The verdict of the two counts. *)
LEMMA VerdictCases ==
  ASSUME NEW a \in Nat, NEW b \in Nat
  PROVE  /\ Verdict(a, b) \in Verdicts
         /\ Verdict(a, b) \in {"identical", "db2 in db1"} <=> b = 0
         /\ Verdict(a, b) \in {"identical", "db1 in db2"} <=> a = 0
<1>1. CASE a = 0 /\ b = 0
  <2>1. Verdict(a, b) = "identical"
    BY <1>1 DEF Verdict
  <2> QED
    BY <1>1, <2>1 DEF Verdicts
<1>2. CASE a > 0 /\ b = 0
  <2>1. Verdict(a, b) = "db2 in db1"
    BY <1>2 DEF Verdict
  <2>2. Verdict(a, b) \in {"identical", "db2 in db1"} /\ Verdict(a, b) \notin {"identical", "db1 in db2"}
    BY <2>1
  <2>3. a # 0
    BY <1>2
  <2> QED
    BY <1>2, <2>1, <2>2, <2>3 DEF Verdicts
<1>3. CASE a = 0 /\ b > 0
  <2>1. Verdict(a, b) = "db1 in db2"
    BY <1>3 DEF Verdict
  <2>2. Verdict(a, b) \notin {"identical", "db2 in db1"} /\ Verdict(a, b) \in {"identical", "db1 in db2"}
    BY <2>1
  <2>3. b # 0
    BY <1>3
  <2> QED
    BY <1>3, <2>1, <2>2, <2>3 DEF Verdicts
<1>4. CASE a > 0 /\ b > 0
  <2>1. Verdict(a, b) = "neither"
    BY <1>4 DEF Verdict
  <2> QED
    BY <1>4, <2>1 DEF Verdicts
<1>5. (a = 0 \/ a > 0) /\ (b = 0 \/ b > 0)
  OBVIOUS
<1> QED
  BY <1>1, <1>2, <1>3, <1>4, <1>5, Zenon

(* The verdict is given with nothing left to deal with. *)
LEMMA ConcludeKeeps ==
  ASSUME VerifyInv, Conclude
  PROVE  VerifyInv'
<1>1. /\ VerifyTypes /\ Merging /\ outcome = "pending"
      /\ \A e \in DB : CountInv(e)
      /\ UNCHANGED <<keys, keyed, open, taken, head, pulls, only, both, examples>>
      /\ \A e \in DB : head[e] = None
      /\ outcome' = Verdict(only[1], only[2])
  BY DEF VerifyInv, Conclude, Merging, merge
<1>2. \A e \in DB : taken[e] = Len(keys[e]) /\ ~open[e]
  BY <1>1, InHand DEF HandInv
<1>3. outcome' \in Verdicts
  BY <1>1, VerdictCases DEF VerifyTypes, TypeOK, DB
<1>4. VerifyTypes'
  BY <1>1, <1>3 DEF VerifyTypes, TypeOK, Verdicts
<1>5. \A e \in DB : CountInv(e)'
  <2>1. \A e \in DB : Dealt(e)' = Dealt(e)
    BY <1>1 DEF Dealt
  <2> QED
    BY <1>1, <2>1, NothingDealt
<1> QED
  BY <1>1, <1>2, <1>3, <1>4, <1>5 DEF VerifyInv, VerdictInv, NoStreamLeft, Verdicts

(***************************************************************************)
(* At the start nothing is dealt with, and nothing is in excess.           *)
(***************************************************************************)
LEMMA VerifyStarts ==
  ASSUME Init
  PROVE  VerifyInv
<1>1. VerifyTypes
  <2>1. examples \in [DB -> Seq(Key)]
    BY DEF Init
  <2> QED
    BY <2>1 DEF Init, VerifyTypes, TypeOK
<1>2. \A d \in DB : HandInv(d)
  BY <1>1, PullsSet, Sides DEF Init, HandInv, Pulled
<1>3. ASSUME NEW d \in DB PROVE CountInv(d)
  <2> DEFINE s == keys[d]
             t == keys[Other(d)]
             excess == Over(s, 0, t, 0)
             every == ToSet(s) \cup ToSet(t)
  <2>1. /\ Other(d) \in DB /\ only[d] = 0 /\ both = 0
        /\ s \in Seq(Key) /\ t \in Seq(Key)
    BY <1>1, Sides DEF Init
  <2>2. Dealt(d) = 0 /\ Dealt(Other(d)) = 0
    BY <2>1 DEF Init, Dealt
  <2>3. \A k \in every : excess[k] = 0
    BY CountNone DEF Over
  <2>4. IsFiniteSet(every)
    BY <2>1, KeysFinite, FS_Union
  <2> HIDE DEF excess, every
  <2>5. SumFunctionOnSet(excess, every) = 0
    BY <2>3, <2>4, SumZero
  <2>6. Behind(s, 0, t, 0) /\ Within(s, 0, t, 0)
    BY CountNone DEF Behind, Within
  <2> QED
    BY <2>1, <2>2, <2>5, <2>6 DEF CountInv, Counted, excess, every
<1> QED
  BY <1>1, <1>2, <1>3 DEF Init, VerifyInv, VerdictInv, NoStreamLeft, Verdicts

(***************************************************************************)
(* The invariant holds throughout the check (verify.py:96-155,             *)
(* db.py:28-45).                                                           *)
(***************************************************************************)
THEOREM VerifyInvariance == Spec => []VerifyInv
<1>1. Init => VerifyInv
  BY VerifyStarts
<1>2. VerifyInv /\ [Next]_vars => VerifyInv'
  <2> SUFFICES ASSUME VerifyInv, [Next]_vars PROVE VerifyInv'
    OBVIOUS
  <2>1. CASE NoKeyQuery
    BY <2>1, NoKeyQueryKeeps
  <2>2. CASE \E d \in DB : Open(d) \/ Yield(d) \/ RunDry(d) \/ StreamFails(d) \/ DropStream(d) \/ OnlyIn(d)
    BY <2>2, OpenKeeps, YieldKeeps, RunDryKeeps, StreamFailsKeeps, OnlyInKeeps
  <2>3. CASE Same
    BY <2>3, SameStepKeeps
  <2>4. CASE Conclude
    BY <2>4, ConcludeKeeps
  <2>5. CASE UNCHANGED vars
    <3>1. \A d \in DB : (HandInv(d)' <=> HandInv(d)) /\ (CountInv(d)' <=> CountInv(d))
      BY <2>5 DEF vars, merge, HandInv, Pulled, CountInv, Dealt
    <3> QED
      BY <2>5, <3>1 DEF vars, merge, VerifyInv, VerifyTypes, TypeOK, VerdictInv, NoStreamLeft
  <2> QED
    BY <2>1, <2>2, <2>3, <2>4, <2>5 DEF Next, Step, Finished
<1> QED
  BY <1>1, <1>2, PTL DEF Spec

(***************************************************************************)
(* The variables keep their types (verify.py:96-130).                     *)
(***************************************************************************)
THEOREM VerifyTypesHold == Spec => []TypeOK
<1>1. VerifyInv => TypeOK
  BY DEF VerifyInv, VerifyTypes
<1> QED
  BY <1>1, VerifyInvariance, PTL

(***************************************************************************)
(* When there is a verdict both streams have run dry and closed their      *)
(* connections, whatever their lengths (db.py:28-45, verify.py:96-130).    *)
(***************************************************************************)
THEOREM NoStreamIsLeft == Spec => []NoStreamLeft
<1>1. VerifyInv => NoStreamLeft
  BY DEF VerifyInv
<1> QED
  BY <1>1, VerifyInvariance, PTL

(***************************************************************************)
(* At every turn the counts are those of the two bags of keys dealt with,  *)
(* repetitions included, and no key is left out (verify.py:106-129).       *)
(***************************************************************************)
THEOREM CountsAreExact == Spec => []CountsExact
<1>1. VerifyInv => CountsExact
  <2> SUFFICES ASSUME VerifyInv, outcome # "unverified", NEW d \in DB
               PROVE  only[d] = SumFunction(Excess(d)) /\ both + only[d] = Dealt(d)
    BY DEF CountsExact
  <2>1. VerifyTypes /\ CountInv(d)
    BY DEF VerifyInv
  <2>2. ToSet(keys[1]) \cup ToSet(keys[2]) = ToSet(keys[d]) \cup ToSet(keys[Other(d)])
    BY DEF DB, Other
  <2>3. Excess(d) = Over(keys[d], Dealt(d), keys[Other(d)], Dealt(Other(d)))
    BY <2>2 DEF Excess, Over, Occurs, Count
  <2>4. DOMAIN Excess(d) = ToSet(keys[d]) \cup ToSet(keys[Other(d)])
    BY <2>2 DEF Excess
  <2> QED
    BY <2>1, <2>3, <2>4 DEF CountInv, Counted, SumFunction
<1> QED
  BY <1>1, VerifyInvariance, PTL

(***************************************************************************)
(* A verdict says of the whole streams which bag of keys holds the other:  *)
(* the merge reads no key twice and stops at no key (verify.py:133-144).   *)
(***************************************************************************)
THEOREM VerdictsAreSound == Spec => []VerdictSound
<1>1. VerifyInv => VerdictSound
  <2> DEFINE Inside(d) == \A k \in Key : Occurs(d, Len(keys[d]), k)
                                          <= Occurs(Other(d), Len(keys[Other(d)]), k)
  <2> SUFFICES ASSUME VerifyInv, outcome \in Verdicts
               PROVE  /\ outcome \in {"identical", "db2 in db1"} <=> Inside(2)
                      /\ outcome \in {"identical", "db1 in db2"} <=> Inside(1)
    BY DEF VerdictSound
  <2>1. /\ VerifyTypes /\ \A d \in DB : CountInv(d)
        /\ \A d \in DB : taken[d] = Len(keys[d])
        /\ outcome = Verdict(only[1], only[2]) /\ outcome # "pending"
    BY DEF VerifyInv, VerdictInv, Verdicts
  <2>2. \A d \in DB : Dealt(d) = Len(keys[d]) /\ Other(d) \in DB
    BY <2>1, Sides DEF Dealt
  <2>3. ASSUME NEW d \in DB PROVE only[d] = 0 <=> Inside(d)
    <3>1. only[d] = 0 <=> Within(keys[d], Len(keys[d]), keys[Other(d)], Len(keys[Other(d)]))
      BY <2>1, <2>2 DEF CountInv, Counted
    <3> QED
      BY <3>1 DEF Within, Occurs, Count
  <2>4. only[1] \in Nat /\ only[2] \in Nat
    BY <2>1 DEF VerifyTypes, TypeOK, DB
  <2> HIDE DEF Inside
  <2>5. /\ outcome \in {"identical", "db2 in db1"} <=> only[2] = 0
        /\ outcome \in {"identical", "db1 in db2"} <=> only[1] = 0
    <3> DEFINE a == only[1]
               b == only[2]
    <3>1. a \in Nat /\ b \in Nat /\ outcome = Verdict(a, b)
      BY <2>1, <2>4
    <3> HIDE DEF a, b
    <3>2. /\ outcome \in {"identical", "db2 in db1"} <=> b = 0
          /\ outcome \in {"identical", "db1 in db2"} <=> a = 0
      BY <3>1, VerdictCases
    <3> QED
      BY <3>2 DEF a, b
  <2> QED
    BY <2>3, <2>5 DEF DB
<1> QED
  BY <1>1, VerifyInvariance, PTL
=============================================================================
