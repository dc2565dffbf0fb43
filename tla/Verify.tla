------------------------------- MODULE Verify -------------------------------
(***************************************************************************)
(* The deep check of one accumulator table (verify.verify_accumulator):    *)
(* the key streams of the two databases (db.stream_keys), pulled one key   *)
(* at a time by the merge (verify.merge_compare), and the verdict.         *)
(*                                                                         *)
(* A stream is a generator: it connects when its first key is asked for    *)
(* and closes when it runs dry, fails or is dropped.  Its one query sees   *)
(* one snapshot, so its keys are fixed, in order, with repetitions.        *)
(***************************************************************************)
EXTENDS Integers, Sequences, SequencesExt, FiniteSets, Functions

CONSTANTS
  None,          \* Python None: the end of a stream
  Key,           \* the keys, integers standing for their byte order
  Streams,       \* pairs of ordered key sequences to try
  MaxExamples    \* max_examples

DB == {1, 2}

Ordered(s) == \A i, j \in DOMAIN s : i <= j => s[i] <= s[j]

ASSUME VerifyAssumption ==
  /\ Key \subseteq Int
  /\ None \notin Int
  /\ Streams \subseteq [DB -> Seq(Key)]
  /\ \A s \in Streams, d \in DB : Ordered(s[d])
  /\ MaxExamples \in Nat

VARIABLES
  keys,       \* DB -> the keys its query returns
  keyed,      \* whether the table has a key query
  open,       \* DB -> whether the connection of its stream is open
  taken,      \* DB -> how many keys the stream has yielded
  head,       \* DB -> the key in hand, None at the end of the stream
  pulls,      \* the streams to pull from next, in order
  only,       \* DB -> keys counted as only there
  both,       \* keys counted as in both
  examples,   \* DB -> the first keys only there
  outcome     \* "pending", "unverified" or the verdict

merge == <<head, pulls, only, both, examples>>

vars == <<keys, keyed, open, taken, merge, outcome>>

Verdicts == {"identical", "db2 in db1", "db1 in db2", "neither"}

Init ==
  /\ keys \in Streams
  /\ keyed \in BOOLEAN
  /\ open = [d \in DB |-> FALSE]
  /\ taken = [d \in DB |-> 0]
  /\ head = [d \in DB |-> None]
  /\ pulls = <<1, 2>>
  /\ only = [d \in DB |-> 0]
  /\ both = 0
  /\ examples = [d \in DB |-> <<>>]
  /\ outcome = "pending"

(***************************************************************************)
(* Without a key query there is nothing to stream.                         *)
(***************************************************************************)
NoKeyQuery ==
  /\ outcome = "pending" /\ ~keyed
  /\ outcome' = "unverified"
  /\ UNCHANGED <<keys, keyed, open, taken, merge>>

Pulling(d) ==
  /\ outcome = "pending" /\ keyed
  /\ pulls # <<>> /\ Head(pulls) = d

(***************************************************************************)
(* The first pull opens the stream's connection and its cursor.            *)
(***************************************************************************)
Open(d) ==
  /\ Pulling(d)
  /\ ~open[d]
  /\ open' = [open EXCEPT ![d] = TRUE]
  /\ UNCHANGED <<keys, keyed, taken, merge, outcome>>

Yield(d) ==
  /\ Pulling(d)
  /\ open[d]
  /\ taken[d] < Len(keys[d])
  /\ taken' = [taken EXCEPT ![d] = @ + 1]
  /\ head' = [head EXCEPT ![d] = keys[d][taken[d] + 1]]
  /\ pulls' = Tail(pulls)
  /\ UNCHANGED <<keys, keyed, open, only, both, examples, outcome>>

(***************************************************************************)
(* A stream that runs dry rolls back and closes its connection.            *)
(***************************************************************************)
(* Slip: the connection is closed on failure only. *)
RunDryOpen(d) ==
  /\ Pulling(d)
  /\ open[d]
  /\ taken[d] = Len(keys[d])
  /\ head' = [head EXCEPT ![d] = None]
  /\ pulls' = Tail(pulls)
  /\ UNCHANGED <<keys, keyed, open, taken, only, both, examples, outcome>>

(* Slip: the last key stays in hand when its stream ends. *)
RunDryHolding(d) ==
  /\ Pulling(d)
  /\ open[d]
  /\ taken[d] = Len(keys[d])
  /\ open' = [open EXCEPT ![d] = FALSE]
  /\ pulls' = Tail(pulls)
  /\ UNCHANGED <<keys, keyed, taken, head, only, both, examples, outcome>>

RunDry(d) ==
  /\ Pulling(d)
  /\ open[d]
  /\ taken[d] = Len(keys[d])
  /\ head' = [head EXCEPT ![d] = None]
  /\ open' = [open EXCEPT ![d] = FALSE]
  /\ pulls' = Tail(pulls)
  /\ UNCHANGED <<keys, keyed, taken, only, both, examples, outcome>>

(***************************************************************************)
(* Connecting, fetching or the rollback at the end of a stream fails, and  *)
(* cli._verify_one makes of the exception a table that is not verified.    *)
(* The stream closes its connection on the way out, unless there is none   *)
(* yet or its rollback raises, which comes before the close; the other     *)
(* stream is left where it is.                                             *)
(***************************************************************************)
StreamFails(d) ==
  /\ Pulling(d)
  /\ \E kept \in BOOLEAN : open' = [open EXCEPT ![d] = kept]
  /\ outcome' = "unverified"
  /\ UNCHANGED <<keys, keyed, taken, merge>>

(***************************************************************************)
(* With the exception _verify_one drops the frames that hold the streams,  *)
(* and what they have open is closed.                                      *)
(***************************************************************************)
(* Slip: the exception is kept, in the result of the table say. *)
KeepStream(d) ==
  /\ outcome = "unverified"
  /\ open[d]
  /\ UNCHANGED vars

DropStream(d) ==
  /\ outcome = "unverified"
  /\ open[d]
  /\ open' = [open EXCEPT ![d] = FALSE]
  /\ UNCHANGED <<keys, keyed, taken, merge, outcome>>

(***************************************************************************)
(* One turn of merge_compare: a key in both, or in one of them only.       *)
(***************************************************************************)
Merging == outcome = "pending" /\ keyed /\ pulls = <<>>

Other(d) == 3 - d

Same ==
  /\ Merging
  /\ head[1] # None /\ head[1] = head[2]
  /\ both' = both + 1
  /\ pulls' = <<1, 2>>
  /\ UNCHANGED <<keys, keyed, open, taken, head, only, examples, outcome>>

(* Slip: a key only in one database moves both streams on. *)
OnlyInBothMove(d) ==
  /\ Merging
  /\ head[d] # None
  /\ head[Other(d)] # None => head[d] < head[Other(d)]
  /\ only' = [only EXCEPT ![d] = @ + 1]
  /\ examples' = [examples EXCEPT ![d] = IF Len(@) < MaxExamples THEN Append(@, head[d]) ELSE @]
  /\ pulls' = IF head[Other(d)] = None THEN <<d>> ELSE <<1, 2>>
  /\ UNCHANGED <<keys, keyed, open, taken, head, both, outcome>>

OnlyIn(d) ==
  /\ Merging
  /\ head[d] # None
  /\ head[Other(d)] # None => head[d] < head[Other(d)]
  /\ only' = [only EXCEPT ![d] = @ + 1]
  /\ examples' = [examples EXCEPT ![d] = IF Len(@) < MaxExamples THEN Append(@, head[d]) ELSE @]
  /\ pulls' = <<d>>
  /\ UNCHANGED <<keys, keyed, open, taken, head, both, outcome>>

(***************************************************************************)
(* The verdict when both streams have ended.                               *)
(***************************************************************************)
(* Slip: the two inclusions are swapped. *)
VerdictSwapped(only1, only2) ==
  CASE only1 = 0 /\ only2 = 0 -> "identical"
    [] only1 = 0 /\ only2 > 0 -> "db2 in db1"
    [] only1 > 0 /\ only2 = 0 -> "db1 in db2"
    [] only1 > 0 /\ only2 > 0 -> "neither"

Verdict(only1, only2) ==
  CASE only1 = 0 /\ only2 = 0 -> "identical"
    [] only1 > 0 /\ only2 = 0 -> "db2 in db1"
    [] only1 = 0 /\ only2 > 0 -> "db1 in db2"
    [] only1 > 0 /\ only2 > 0 -> "neither"

Conclude ==
  /\ Merging
  /\ head = [d \in DB |-> None]
  /\ outcome' = Verdict(only[1], only[2])
  /\ UNCHANGED <<keys, keyed, open, taken, merge>>

Finished == outcome # "pending" /\ UNCHANGED vars

Step ==
  \/ NoKeyQuery
  \/ \E d \in DB : Open(d) \/ Yield(d) \/ RunDry(d) \/ StreamFails(d) \/ DropStream(d) \/ OnlyIn(d)
  \/ Same
  \/ Conclude

Next == Step \/ Finished

(***************************************************************************)
(* The merge runs in one thread, every fetch ends, with rows or not, and   *)
(* what an exception held is freed once nothing refers to it.              *)
(***************************************************************************)
Spec == Init /\ [][Next]_vars /\ WF_vars(Step)
-----------------------------------------------------------------------------
(***************************************************************************)
(* How many of the first n keys of database d equal k.                     *)
(***************************************************************************)
Occurs(d, n, k) == Cardinality({i \in 1 .. n : keys[d][i] = k})

(***************************************************************************)
(* How many of the keys taken so far the merge has dealt with.             *)
(***************************************************************************)
Dealt(d) ==
  IF outcome = "pending" /\ head[d] # None /\ d \notin ToSet(pulls) THEN taken[d] - 1 ELSE taken[d]

(***************************************************************************)
(* How many more of each key of the two streams database d had.            *)
(***************************************************************************)
Excess(d) ==
  [k \in ToSet(keys[1]) \cup ToSet(keys[2]) |->
     LET here == Occurs(d, Dealt(d), k)
         there == Occurs(Other(d), Dealt(Other(d)), k)
     IN  IF here > there THEN here - there ELSE 0]

TypeOK ==
  /\ taken \in [DB -> Nat]
  /\ head \in [DB -> Key \cup {None}]
  /\ pulls \in {<<>>, <<1>>, <<2>>, <<1, 2>>}
  /\ only \in [DB -> Nat] /\ both \in Nat
  /\ examples \in [DB -> Seq(Key)]
  /\ open \in [DB -> BOOLEAN]
  /\ outcome = "pending" => \A d \in DB : taken[d] > 0 /\ ~open[d] => head[d] = None
  /\ outcome \in {"pending", "unverified"} \cup Verdicts

(***************************************************************************)
(* At every turn the counts are those of the two bags of keys dealt with   *)
(* so far, repetitions included, and every key dealt with is counted       *)
(* (verify.py:106-129).                                                    *)
(***************************************************************************)
CountsExact ==
  outcome # "unverified" =>
    \A d \in DB : only[d] = SumFunction(Excess(d)) /\ both + only[d] = Dealt(d)

(***************************************************************************)
(* A verdict says of the whole streams what it claims: which bag of keys   *)
(* holds the other (verify.py:133-144).                                    *)
(***************************************************************************)
VerdictSound ==
  LET Within(d) == \A k \in Key : Occurs(d, Len(keys[d]), k)
                                    <= Occurs(Other(d), Len(keys[Other(d)]), k)
  IN  outcome \in Verdicts =>
        /\ outcome \in {"identical", "db2 in db1"} <=> Within(2)
        /\ outcome \in {"identical", "db1 in db2"} <=> Within(1)

(***************************************************************************)
(* A verdict is given over two streams that were read to their end and     *)
(* whose connections are closed by then (db.py:43-45).                     *)
(***************************************************************************)
NoStreamLeft == outcome \in Verdicts => \A d \in DB : ~open[d]

(***************************************************************************)
(* The check comes to an end, and however it ends, by a verdict or by a    *)
(* failure at any fetch or rollback, no connection stays open for good     *)
(* (cli.py:101-107, db.py:28-45).                                          *)
(***************************************************************************)
Termination == <>[](outcome # "pending" /\ \A d \in DB : ~open[d])
=============================================================================
