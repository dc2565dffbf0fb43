---------------------------- MODULE MCComparison ----------------------------
(***************************************************************************)
(* A small chain for TLC.  Positions:                                      *)
(*   1 genesis (no number, one tx)     2 block 1 (two txs)                 *)
(*   3 epoch boundary (no number)      4 block 2 (one tx)    5 block 3     *)
(* On the fork the blocks carry other txs.                                 *)
(***************************************************************************)
EXTENDS Comparison

MCBlockNo == <<None, 1, None, 2, 3>>

MCNumTx == [main |-> <<1, 2, 0, 1, 1>>, fork |-> <<1, 1, 0, 2, 0>>]

MCLeaves == [main |-> <<{1}, {2}, {}, {1}, {1}>>, fork |-> <<{1}, {}, {}, {2}, {}>>]

MCDefects == [pos : {0, 2}, lost : {FALSE}]

MCAllDefects == [pos : {0, 2}, lost : BOOLEAN]

LiveWindows == {None, <<1, 2>>}

RestWindows == {None, <<2, 3>>}
=============================================================================
