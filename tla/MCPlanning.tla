----------------------------- MODULE MCPlanning -----------------------------
(***************************************************************************)
(* Thirteen tables to plan, the tables they reference, and rows that hold  *)
(* every combination of a few values.                                      *)
(***************************************************************************)
EXTENDS Planning

MCColumns ==
  [withdrawal          |-> {"id", "addr_id", "amount", "redeemer_id", "tx_id"},
   ma_tx_out           |-> {"id", "ident", "quantity", "tx_out_id"},
   tx_in               |-> {"id", "redeemer_id", "tx_in_id", "tx_out_id", "tx_out_index"},
   gov_action_proposal |-> {"id", "deposit", "index", "ratified_epoch", "return_address", "tx_id"},
   committee           |-> {"id", "gov_action_proposal_id", "quorum_denominator", "quorum_numerator"},
   reward              |-> {"addr_id", "amount", "earned_epoch", "pool_id"},
   new_table           |-> {"id", "amount", "mystery_id", "off_chain_vote_data_id"},
   committee_member    |-> {"id", "committee_hash_id", "committee_id", "expiration_epoch"},
   committee_hash      |-> {"id", "has_script", "raw"},
   epoch               |-> {"id", "no", "out_sum"},
   multi_asset         |-> {"id", "fingerprint", "name", "policy"},
   meta                |-> {"id", "version"},
   tx                  |-> {"id", "hash"},
   stake_address       |-> {"id", "hash_raw"},
   pool_hash           |-> {"id", "hash_raw"},
   redeemer            |-> {"id", "index", "purpose", "tx_id"},
   tx_out              |-> {"id", "index", "tx_id"},
   off_chain_vote_data |-> {"id"},
   epoch_state         |-> {"id", "committee_id", "epoch_no"}]

MCPlannedTables ==
  {"withdrawal", "ma_tx_out", "tx_in", "gov_action_proposal", "committee", "reward", "new_table",
   "committee_member", "committee_hash", "multi_asset", "epoch", "epoch_finalized", "meta"}

MCColumnOrder ==
  <<"addr_id", "amount", "committee_hash_id", "committee_id", "deposit", "earned_epoch", "epoch_no",
    "expiration_epoch", "fingerprint", "gov_action_proposal_id", "has_script", "hash", "hash_raw", "id", "ident",
    "index", "mystery_id", "name", "no", "off_chain_vote_data_id", "out_sum", "policy", "pool_id",
    "purpose", "quantity", "quorum_denominator", "quorum_numerator", "ratified_epoch", "raw",
    "redeemer_id", "return_address", "tx_id", "tx_in_id", "tx_out_id", "tx_out_index", "version">>

\* Columns that one of the two schemas may lack.
MCDrift ==
  {[table |-> "redeemer", col |-> "tx_id"], [table |-> "committee_member", col |-> "committee_id"], [table |-> "redeemer", col |-> "purpose"],
   [table |-> "tx", col |-> "hash"], [table |-> "multi_asset", col |-> "name"],
   [table |-> "withdrawal", col |-> "amount"], [table |-> "withdrawal", col |-> "redeemer_id"],
   [table |-> "gov_action_proposal", col |-> "ratified_epoch"],
   [table |-> "gov_action_proposal", col |-> "index"],
   [table |-> "epoch_state", col |-> "committee_id"]}

MCNumeric ==
  {[table |-> "withdrawal", col |-> "amount"], [table |-> "ma_tx_out", col |-> "quantity"],
   [table |-> "gov_action_proposal", col |-> "deposit"], [table |-> "reward", col |-> "amount"],
   [table |-> "epoch", col |-> "out_sum"], [table |-> "epoch_finalized", col |-> "out_sum"]}

MCOld ==
  [columns |-> MCColumns, base |-> DOMAIN MCColumns, numeric |-> MCNumeric,
   generated |-> {[table |-> "reward", col |-> "earned_epoch"]}]

\* The epoch schema of db-sync 13.7.2.1.
MCNew ==
  [MCOld EXCEPT
     !.columns = [t \in DOMAIN MCColumns \cup {"epoch_finalized", "epoch_current"} |->
                    IF t \in DOMAIN MCColumns THEN MCColumns[t] ELSE MCColumns["epoch"]],
     !.base = (@ \ {"epoch"}) \cup {"epoch_finalized"}]

Lacking(c) == [MCOld EXCEPT !.columns = [MCColumns EXCEPT ![c.table] = @ \ {c.col}]]

MCVariants ==
  {MCNew, [MCOld EXCEPT !.generated = {}],
   [MCOld EXCEPT !.generated = @ \cup {[table |-> "withdrawal", col |-> "amount"]}],
   [MCOld EXCEPT !.numeric = @ \ {[table |-> "withdrawal", col |-> "amount"]}],
   [MCOld EXCEPT !.base = @ \ {"committee"}]} \cup {Lacking(c) : c \in MCDrift}

MCCatalogs ==
  {<<MCOld, MCOld>>, <<MCNew, MCNew>>} \cup UNION {{<<MCOld, v>>, <<v, MCOld>>} : v \in MCVariants}

\* Objects that share every part of their keys but one.
MCObjects ==
  [tx                  |-> <<[hash |-> 1], [hash |-> 2]>>,
   stake_address       |-> <<[hash_raw |-> 1], [hash_raw |-> 2]>>,
   pool_hash           |-> <<[hash_raw |-> 1], [hash_raw |-> 2]>>,
   multi_asset         |-> <<[policy |-> 1, name |-> 1], [policy |-> 1, name |-> 2], [policy |-> 2, name |-> 1]>>,
   redeemer            |-> <<[tx_id |-> 1, purpose |-> 1, index |-> 0], [tx_id |-> 1, purpose |-> 2, index |-> 0],
                             [tx_id |-> 2, purpose |-> 1, index |-> 0]>>,
   tx_out              |-> <<[tx_id |-> 1, index |-> 0], [tx_id |-> 1, index |-> 1], [tx_id |-> 2, index |-> 0]>>,
   gov_action_proposal |-> <<[tx_id |-> 1, index |-> 0], [tx_id |-> 1, index |-> 1], [tx_id |-> 2, index |-> 0]>>,
   committee           |-> <<[gov_action_proposal_id |-> None, quorum_numerator |-> 1, quorum_denominator |-> 2],
                             [gov_action_proposal_id |-> 1, quorum_numerator |-> 1, quorum_denominator |-> 2],
                             [gov_action_proposal_id |-> 3, quorum_numerator |-> 1, quorum_denominator |-> 2]>>,
   committee_hash      |-> <<[raw |-> 1, has_script |-> FALSE], [raw |-> 1, has_script |-> TRUE],
                             [raw |-> 2, has_script |-> FALSE]>>,
   off_chain_vote_data |-> <<[id |-> 1], [id |-> 2]>>]

MCRows ==
  [withdrawal          |-> [id : {1}, addr_id : 1..2, amount : 1..2, redeemer_id : {None} \cup 1..3, tx_id : 1..2],
   ma_tx_out           |-> [id : {1}, ident : 1..3, quantity : 1..2, tx_out_id : 1..3],
   tx_in               |-> [id : {1}, redeemer_id : {None} \cup 1..3, tx_in_id : 1..2, tx_out_id : 1..2,
                            tx_out_index : 0..1],
   gov_action_proposal |-> [id : {1}, deposit : 1..2, index : 0..1, ratified_epoch : {None} \cup 1..4,
                            return_address : 1..2, tx_id : 1..2],
   committee           |-> [id : {1}, gov_action_proposal_id : {None} \cup 1..3, quorum_denominator : 1..2,
                            quorum_numerator : 1..2],
   reward              |-> [addr_id : 1..2, amount : 1..2, earned_epoch : 1..2, pool_id : {None} \cup 1..2],
   new_table           |-> [id : {1}, amount : 1..2, mystery_id : 1..2, off_chain_vote_data_id : 1..2],
   committee_member    |-> [id : {1}, committee_hash_id : 1..3, committee_id : 1..4, expiration_epoch : 1..2],
   committee_hash      |-> [id : {1}, has_script : BOOLEAN, raw : 1..2],
   epoch               |-> [id : {1}, no : 1..2, out_sum : 1..2],
   epoch_finalized     |-> [id : {1}, no : 1..2, out_sum : 1..2],
   multi_asset         |-> [id : {1}, fingerprint : 1..2, name : 1..2, policy : 1..2],
   meta                |-> [id : {1}, version : 1..2]]
=============================================================================
