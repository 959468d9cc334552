----------------------------- MODULE MCFrontfill -----------------------------
(***************************************************************************)
(* Instances of Frontfill for TLC.                                         *)
(***************************************************************************)
EXTENDS FrontfillProperties

Event(type, number, position) ==
  [topic0 |-> type, well_formed |-> TRUE, block |-> number, index |-> position,
   has_metadata |-> TRUE]

\* Two event types over blocks that rotate every second block or skip ahead, to
\* one that saturates the target; an unknown topic that rotates and is not
\* written; and a log for each of the two ways to be refused.
MCLogs ==
  {Event("OrderFilled", 1, 0), Event("OrderFilled", 3, 0),
   Event("OrdersMatched", 2, 0), Event("OrdersMatched", 5, 0), Event("Unknown", 3, 1),
   [Event("OrderFilled", 2, 1) EXCEPT !.well_formed = FALSE],
   [Event("OrderFilled", 2, 2) EXCEPT !.has_metadata = FALSE]}

MCOneLog == {Event("OrderFilled", 1, 0)}

Configuration(blocks, with_metrics) ==
  [flush_blocks |-> blocks, metrics_enabled |-> with_metrics,
   bind_ok |-> TRUE, auth_key |-> "empty", auth_header |-> "other"]

MCMetricsConfigs == {Configuration(2, TRUE)}
MCStreamConfigs  == {Configuration(1, m) : m \in BOOLEAN}

\* With metrics, and each way to be rejected.
MCConfigs ==
  MCMetricsConfigs \union
  {Configuration(0, TRUE),
   [Configuration(2, TRUE) EXCEPT !.bind_ok = FALSE],
   [Configuration(2, TRUE) EXCEPT !.auth_key = "given"],
   [Configuration(2, FALSE) EXCEPT !.auth_key = "given"]}
=============================================================================
