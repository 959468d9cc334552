------------------------------ MODULE MCHandoff ------------------------------
(***************************************************************************)
(* An instance of Handoff for TLC.                                         *)
(***************************************************************************)
EXTENDS Handoff

Event(type, number, position) ==
  [topic0 |-> type, well_formed |-> TRUE, block |-> number, index |-> position,
   has_metadata |-> TRUE]

\* A log on either side of the boundary, two of one type in one block, and one that
\* rotates.
MCChain ==
  <<Event("OrderFilled", 1, 0), Event("OrderFilled", 2, 0), Event("OrderFilled", 2, 1),
    Event("OrdersMatched", 3, 0)>>

MCLogs == {MCChain[i] : i \in DOMAIN MCChain}

MCConfigs ==
  {[flush_blocks |-> 1, metrics_enabled |-> FALSE, bind_ok |-> TRUE,
    auth_key |-> "none", auth_header |-> "authorization"]}
=============================================================================
