------------------------------- MODULE Decode -------------------------------
(***************************************************************************)
(* src/decode.rs: routing of a log by its topic0 to one of the ten events  *)
(* declared in src/contracts.rs, and the columns each event is normalised  *)
(* to.  A log is a record                                                  *)
(*   topic0       the name of the event whose SIGNATURE_HASH its first     *)
(*                topic equals, or a value outside EventTypes when it has  *)
(*                no topic or an unknown one,                              *)
(*   well_formed  whether log_decode and the JSON conversions succeed,     *)
(*   block, index its block number and its log_index, which no other log   *)
(*                of the block has,                                        *)
(*   has_metadata whether block_number, transaction_hash and log_index are *)
(*                all present.                                             *)
(* Column VALUES are not modelled; column NAMES are, because storage.rs    *)
(* compares them with the schema it has cached.                            *)
(***************************************************************************)
EXTENDS Naturals

Columns ==
  [ConditionPreparation |->
     <<"condition_id", "oracle", "question_id", "outcome_slot_count">>,
   PositionSplit |->
     <<"collateral_token", "parent_collection_id", "condition_id",
       "partition", "amounts", "amount">>,
   PositionsMerge |->
     <<"collateral_token", "parent_collection_id", "condition_id",
       "partition", "amounts", "amount">>,
   PayoutRedemption |->
     <<"redeemer", "collateral_token", "parent_collection_id",
       "condition_id", "index_sets", "amount">>,
   OrderFilled |->
     <<"order_hash", "maker", "taker", "maker_fill_amount",
       "taker_fill_amount", "maker_fee", "taker_fee">>,
   OrdersMatched      |-> <<"taker_order_hash", "maker_order_hash">>,
   OrderCancelled     |-> <<"order_hash">>,
   MarketPrepared     |-> <<"condition_id", "creator", "market_id", "data">>,
   QuestionPrepared   |-> <<"question_id", "condition_id", "creator", "data">>,
   PositionsConverted |-> <<"condition_id", "stakeholder", "amount", "fee">>]

EventTypes == DOMAIN Columns

\* The three results of decode_log: Ok(None), Err(_) and Ok(Some(event)).
Ignored(l)     == l.topic0 \notin EventTypes
DecodeError(l) == l.topic0 \in EventTypes /\ ~l.well_formed
Decoded(l)     == l.topic0 \in EventTypes /\ l.well_formed
=============================================================================
