----------------------------- MODULE MCLocalize -----------------------------
(***************************************************************************)
(* Pairs of databases for TLC.  The chain has genesis, blocks 1..3, an     *)
(* epoch boundary block, blocks 4..6 within the cutoff and block 7 above.  *)
(* Every position but the epoch boundary has a tx, some have a leaf.  The  *)
(* ids of database 2 drift.  Up to two rows of the compared table are bad  *)
(* in database 2 or missing in one of them, and now and then three, two of *)
(* which can make up for each other if content does not tell their place.  *)
(*                                                                         *)
(* A database at rest has one snapshot.  One that moves is rolled back to  *)
(* block 4 and follows another branch from there: the cutoff is too close  *)
(* to the tip, and phase 1 may see the two on different branches.          *)
(***************************************************************************)
EXTENDS Localize

MCBlockNo == <<None, 1, 2, 3, None, 4, 5, 6, 7>>

MCLimits == {[width |-> 0, leaves |-> 2], [width |-> 1, leaves |-> 1]}

WithTx == {1, 2, 3, 4, 6, 7, 8, 9}

WithLeaf == {1, 3, 4, 7, 9}

LastSettled == 6

Above(t) == CASE t = "block"               -> {"block"}
              [] t = "tx"                  -> {"block", "tx"}
              [] t \in {"leaf", "owner"}   -> {"block", "tx", "leaf"}
              [] t = "committee" -> {"block", "tx", "leaf", "committee"}
              [] t = "epoch"     -> {"epoch"}

(***************************************************************************)
(* fault maps a position to what is wrong with the row of table t there.   *)
(* A row that is missing takes the rows that hang on it along.  version is *)
(* "main", "cut" after the rollback, or "fork"; rows that come again get   *)
(* new ids.                                                                *)
(***************************************************************************)
Snap(t, tied, fault, d, version, i) ==
  LET u0 == IF t = "owner" THEN "leaf" ELSE t
      Forked(p) == version = "fork" /\ p > LastSettled
      Id(p) == (IF d = 1 THEN p ELSE 2 * p + 3) + (IF p > LastSettled THEN 20 * i ELSE 0)
      Content(u, p) == [pos |-> IF tied THEN p ELSE 0, fork |-> Forked(p),
                        bad |-> u = t /\ d = 2 /\ fault[p] = <<"bad", 2>>]
      Has(u, S) == {p \in S : /\ ~(u0 \in Above(u) /\ fault[p] = <<"missing", d>>)
                              /\ version = "cut" => p <= LastSettled}
      Row(u, p, key) == [id |-> Id(p), key |-> key, pos |-> p, content |-> Content(u, p)]
  IN  [block |-> {Row("block", p, MCBlockNo[p]) : p \in Has("block", 1 .. 9)},
       tx    |-> {Row("tx", p, Id(p)) : p \in Has("tx", WithTx)},
       leaf  |-> {Row(IF t = "owner" THEN t ELSE "leaf", p, Id(p)) : p \in Has("leaf", WithLeaf)},
       epoch |-> {Row("epoch", p, p - 1) : p \in Has("epoch", 1 .. 9)},
       committee |->
         {[id |-> Id(p), key |-> IF p = 0 THEN None ELSE Id(p), pos |-> p,
           shown |-> IF p = 0 THEN 2 ELSE None, content |-> Content("committee", p)] :
             p \in Has("committee", WithLeaf \cup {0})}]

Wrongs == {<<"bad", 2>>, <<"missing", 1>>, <<"missing", 2>>}

Clean == [p \in 0 .. 9 |-> <<>>]

OneFault == {[Clean EXCEPT ![p] = x] : p \in 0 .. 9, x \in Wrongs}

TwoFaults == {[f EXCEPT ![q] = y] : f \in OneFault, q \in {3, 6, 8}, y \in Wrongs}

ThreeFaults ==
  {[p \in 0 .. 9 |-> IF p \in {2, 4, 8} THEN x ELSE <<>>] : x \in Wrongs}
    \cup {[Clean EXCEPT ![4] = <<"missing", 1>>, ![p] = <<"missing", 2>>, ![7] = <<"bad", 2>>] :
            p \in {3, 5}}

AtRest ==
  [tied : {TRUE}, fault : OneFault \cup TwoFaults \cup ThreeFaults, versions : {<<<<"main">>, <<"main">>>>}]
    \cup [tied : {FALSE}, fault : OneFault \cup ThreeFaults, versions : {<<<<"main">>, <<"main">>>>}]

Moving ==
  [tied : {TRUE}, fault : OneFault \cup {Clean},
   versions : {<<<<"main", "cut", "fork">>, <<"main">>>>, <<<<"main", "cut">>, <<"fork", "main">>>>}]

Pairs(cases) ==
  [t \in Tables |->
    {[history |-> [d \in DB |-> [i \in DOMAIN x.versions[d] |->
                     Snap(t, x.tied, x.fault, d, x.versions[d][i], i)]],
      settled |-> CASE x \in AtRest                    -> Cutoff + CutoffEpoch
                    [] x \notin AtRest /\ t = "epoch" -> LastSettled - 1
                    [] x \notin AtRest /\ t # "epoch" -> MCBlockNo[LastSettled],
      tied |-> x.tied] : x \in cases}]

MCDatabases == Pairs(AtRest \cup Moving)

MCTiedAtRest == Pairs({x \in AtRest : x.tied})
=============================================================================
