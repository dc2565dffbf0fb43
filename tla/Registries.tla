----------------------------- MODULE Registries -----------------------------
(***************************************************************************)
(* An excerpt of registries.py: for a handful of tables, what every kind   *)
(* of entry looks like.  Columns and tables keep their names.              *)
(***************************************************************************)
EXTENDS Sequences

CONSTANT None      \* Python None, SQL NULL

EXCLUDED_TABLES == {"meta"}

GIANT_TABLES == {"ma_tx_out", "tx_in", "reward"}

(***************************************************************************)
(* The logical foreign keys: by column name, and by table and column where *)
(* the name alone is ambiguous.                                            *)
(***************************************************************************)
GLOBAL_FK ==
  [tx_id |-> "tx", tx_in_id |-> "tx", addr_id |-> "stake_address",
   return_address |-> "stake_address", redeemer_id |-> "redeemer", ident |-> "multi_asset",
   pool_id |-> "pool_hash", committee_id |-> "committee", committee_hash_id |-> "committee_hash",
   gov_action_proposal_id |-> "gov_action_proposal",
   off_chain_vote_data_id |-> "off_chain_vote_data"]

FK_MAP == [tx_in |-> [tx_out_id |-> "tx"], ma_tx_out |-> [tx_out_id |-> "tx_out"]]

Overridden(table, col) == table \in DOMAIN FK_MAP /\ col \in DOMAIN FK_MAP[table]

OfName(col) == IF col \in DOMAIN GLOBAL_FK THEN GLOBAL_FK[col] ELSE None

ResolveFk(table, col) == IF Overridden(table, col) THEN FK_MAP[table][col] ELSE OfName(col)

(***************************************************************************)
(* Names that end in _id, other than id itself.                            *)
(***************************************************************************)
LooksLikeFk(col) ==
  col \in {"tx_id", "tx_in_id", "tx_out_id", "addr_id", "redeemer_id", "pool_id", "committee_id",
           "committee_hash_id", "gov_action_proposal_id", "off_chain_vote_data_id", "mystery_id"}

(***************************************************************************)
(* The natural key of a referenced table: plain columns, and foreign keys  *)
(* that are followed further.                                              *)
(***************************************************************************)
Col(name) == [col |-> name, to |-> None]

Fk(name, target) == [col |-> name, to |-> target]

NATURAL_KEYS ==
  [tx                  |-> <<Col("hash")>>,
   stake_address       |-> <<Col("hash_raw")>>,
   pool_hash           |-> <<Col("hash_raw")>>,
   multi_asset         |-> <<Col("policy"), Col("name")>>,
   committee_hash      |-> <<Col("raw"), Col("has_script")>>,
   redeemer            |-> <<Fk("tx_id", "tx"), Col("purpose"), Col("index")>>,
   tx_out              |-> <<Fk("tx_id", "tx"), Col("index")>>,
   gov_action_proposal |-> <<Fk("tx_id", "tx"), Col("index")>>,
   committee           |-> <<Fk("gov_action_proposal_id", "gov_action_proposal"),
                             Col("quorum_numerator"), Col("quorum_denominator")>>]

(***************************************************************************)
(* Columns filled in after their row, and rows that no block anchors.      *)
(***************************************************************************)
LIFECYCLE_EPOCH_COLUMNS == [gov_action_proposal |-> {"ratified_epoch"}]

NULL_ANCHOR_BOUNDS ==
  [committee |-> [table |-> "epoch_state", col |-> "committee_id", epoch |-> "epoch_no"]]

(***************************************************************************)
(* How a table is tied to the chain; a table without an entry is an        *)
(* accumulator.                                                            *)
(***************************************************************************)
ANCHORS ==
  [tx_in |-> "tx_fk", withdrawal |-> "tx_fk", gov_action_proposal |-> "tx_fk",
   ma_tx_out |-> "tx_fk_via_txout", committee |-> "gap_fk", reward |-> "epoch",
   epoch |-> "epoch", epoch_finalized |-> "epoch", multi_asset |-> "accumulator",
   committee_hash |-> "accumulator", committee_member |-> "accumulator"]

VALUE_COLUMNS == <<"value", "quantity", "amount", "fee", "out_sum", "deposit">>
=============================================================================
