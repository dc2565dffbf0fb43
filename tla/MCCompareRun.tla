---------------------------- MODULE MCCompareRun ----------------------------
(***************************************************************************)
(* Two plain tables and an accumulator, for two threads.                   *)
(***************************************************************************)
EXTENDS CompareRun

CONSTANTS ta, tb, acc

MCTableOrder == <<ta, acc, tb>>

MCTableChoices == {{ta, acc, tb}, {acc, tb}, {}}
=============================================================================
