----------------------------- MODULE MCLateRows -----------------------------
(***************************************************************************)
(* Seven blocks in epochs 0 to 4.  Proposals of blocks 2 and 3 are decided *)
(* at the boundaries to epochs 3 and 4, the latter not on the fork; an     *)
(* output of block 1 is spent in block 3 and one of block 2 at the tip, on *)
(* the fork another; every other block brings a new object.                *)
(***************************************************************************)
EXTENDS LateRows

MCEpochOf == <<0, 1, 1, 2, 3, 3, 4>>

Plain == [mints |-> {}, proposes |-> FALSE, creates |-> FALSE, spends |-> 0, decides |-> {}]

MCBlock ==
  LET main == <<[Plain EXCEPT !.creates = TRUE, !.mints = {1}],
                [Plain EXCEPT !.proposes = TRUE, !.creates = TRUE],
                [Plain EXCEPT !.proposes = TRUE, !.spends = 1, !.mints = {3}],
                [Plain EXCEPT !.creates = TRUE],
                [Plain EXCEPT !.decides = {2}, !.mints = {5}],
                [Plain EXCEPT !.spends = 2],
                [Plain EXCEPT !.decides = {3}, !.mints = {7}, !.proposes = TRUE]>>
      fork(p) == [main[p] EXCEPT !.decides = {}, !.mints = IF @ = {} THEN {} ELSE {10 + p},
                                 !.spends = IF @ = 0 THEN 0 ELSE 4, !.creates = ~@]
  IN  [b \in {"main", "fork"} |-> IF b = "main" THEN main ELSE [p \in DOMAIN main |-> fork(p)]]

MCDefects ==
  [table : {"gov_action_proposal"}, at : {2, 3}, how : {"bad", "lost", "unset"}]
    \cup [table : {"tx_out"}, at : {1, 4}, how : {"bad", "unset"}]
    \cup [table : {"reward"}, at : {0, 1}, how : {"bad", "lost"}]
    \cup [table : {"committee"}, at : {2}, how : {"bad", "lost"}]
    \cup [table : {"multi_asset"}, at : {1, 3, 7}, how : {"lost"}]

\* The epochs to hold back are the documented ones, one more, or one too few.
MCMargins == {[block |-> 0, epoch |-> 0], [block |-> 0, epoch |-> 2], [block |-> 1, epoch |-> 1],
              [block |-> 1, epoch |-> 2], [block |-> 1, epoch |-> 3]}

MCDefault == {[block |-> 0, epoch |-> 2]}

MCWindows == {None, <<2, 4>>}

MCWindow == {<<2, 4>>}
=============================================================================
