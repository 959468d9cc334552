----------------------------- MODULE MCBackfill -----------------------------
(***************************************************************************)
(* Instances of Backfill for TLC.                                          *)
(***************************************************************************)
EXTENDS Backfill

Event(type, number, position) ==
  [topic0 |-> type, well_formed |-> TRUE, block |-> number, index |-> position,
   has_metadata |-> TRUE]

\* Blocks with rows of two types, in two files or, with larger chunks, side by
\* side, and a block with a log of each kind that is not a row.
MCChain ==
  {Event("OrderFilled", 1, 1), Event("OrderFilled", 1, 0), Event("OrdersMatched", 2, 0),
   Event("Unknown", 2, 1),
   [Event("OrderFilled", 3, 0) EXCEPT !.well_formed = FALSE],
   [Event("OrdersMatched", 3, 1) EXCEPT !.has_metadata = FALSE],
   [Event("Unknown", 3, 2) EXCEPT !.has_metadata = FALSE]}

Request(from, to, blocks) ==
  [start |-> from, end |-> to, size |-> blocks, parallelism |-> 2,
   url_ok |-> TRUE, auth_key |-> "empty", header_ok |-> FALSE]

\* The same blocks in three chunks, for two places and one permit a second, and
\* in two; the first two blocks, none of whose logs lacks metadata, so that a run may
\* return Ok, in two chunks and in one; and requests that are refused.
MCConfigs ==
  {Request(1, 3, 1), Request(1, 3, 2), Request(1, 2, 1), Request(1, 2, 2),
   Request(2, 1, 1), Request(1, 3, 0),
   [Request(1, 3, 1) EXCEPT !.url_ok = FALSE],
   [Request(1, 3, 1) EXCEPT !.auth_key = "given"]}
=============================================================================
