---------------------------- MODULE MCSharedSink ----------------------------
(***************************************************************************)
(* An instance of SharedSink for TLC: each sink with what it needs, and    *)
(* the two that are rejected.                                              *)
(***************************************************************************)
EXTENDS SharedSink

CONSTANTS OrderFilled, OrderCancelled

\* The first and the third row are of one transaction.
MCTxHash == <<"0xa", "0xb", "0xa">>

\* The topic of OrderFilled has two partitions, the other one.
MCPartitionOf ==
  [type \in Types, hash \in {"0xa", "0xb"} |->
     IF type = OrderFilled /\ hash = "0xb" THEN 1 ELSE 0]

MCColumnLists == {<<"order_hash">>, <<"order_hash", "maker">>}

MCOptions ==
  {[sink |-> "parquet", brokers |-> FALSE, feature |-> FALSE],
   [sink |-> "kafka",   brokers |-> TRUE,  feature |-> TRUE],
   [sink |-> "kafka",   brokers |-> TRUE,  feature |-> FALSE],
   [sink |-> "kafka",   brokers |-> FALSE, feature |-> TRUE]}
=============================================================================
