---------------------------- MODULE Localization ----------------------------
(***************************************************************************)
(* What phase 2 promises for one mismatching table, whatever the method    *)
(* (compare.localize and compare.localize_buckets return the same type):   *)
(* windows that really differ, the lowest first and none left out below    *)
(* the last one, and a list that is either complete or says it is not.     *)
(*                                                                         *)
(* The promise is for tables whose row content tells the row's place on    *)
(* the chain, so that no two places can make up for each other.            *)
(***************************************************************************)
EXTENDS Integers, Sequences, SequencesExt

VARIABLES
  differing,  \* block numbers (or epochs) at which the databases differ
  numbered,   \* those where rows that carry the number differ
  phase,      \* "searching", "done" or "failed"
  windows,    \* the windows found, [lo, hi]
  complete    \* whether the list claims to be complete

vars == <<differing, numbered, phase, windows, complete>>

Covers(ws, c) == \E i \in DOMAIN ws : ws[i].lo <= c /\ c <= ws[i].hi

Init ==
  /\ phase = "searching"
  /\ windows = <<>>
  /\ complete = FALSE

(***************************************************************************)
(* The list grows at its end; windows may meet in a common edge.  Each     *)
(* holds a difference, and up to the end of the last one nothing that      *)
(* carries a number is missed.                                             *)
(***************************************************************************)
Find ==
  /\ phase = "searching"
  /\ IsPrefix(windows, windows')
  /\ windows' # windows =>
       /\ \A i \in DOMAIN windows' : \E c \in differing : Covers(<<windows'[i]>>, c)
       /\ \A i \in 2 .. Len(windows') : windows'[i - 1].hi <= windows'[i].lo
       /\ \A c \in numbered : c <= windows'[Len(windows')].hi => Covers(windows', c)
  /\ UNCHANGED <<differing, numbered>>

Search == UNCHANGED <<phase, complete>> /\ Find

(***************************************************************************)
(* The search ends.  A list that claims to be complete leaves nothing out. *)
(***************************************************************************)
Conclude ==
  /\ phase' = "done"
  /\ complete' => \A c \in numbered : Covers(windows', c)
  /\ Find

(***************************************************************************)
(* A query fails: the windows found so far are lost.                       *)
(***************************************************************************)
Fail ==
  /\ phase = "searching"
  /\ phase' = "failed"
  /\ windows' = <<>>
  /\ UNCHANGED <<differing, numbered, complete>>

Next == Search \/ Conclude \/ Fail

Spec == Init /\ [][Next]_vars
=============================================================================
