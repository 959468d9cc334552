-------------------------- MODULE FrontfillMetrics --------------------------
(***************************************************************************)
(* The counters and gauges of FrontfillMetrics in src/metrics.rs, as a     *)
(* record, and the updates the frontfill loop makes to them.  The rolling  *)
(* 60-second windows and the sink_write_seconds histogram are left out.    *)
(***************************************************************************)
EXTENDS Decode

\* FrontfillMetrics::register: everything starts at zero.
RegisteredMetrics ==
  [ws_connected           |-> 0,
   current_block_number   |-> 0,
   logs_total             |-> 0,
   logs_by_type_total     |-> [t \in EventTypes |-> 0],
   decode_errors_total    |-> 0,
   write_errors_total     |-> 0,
   missing_metadata_total |-> 0,
   rotate_total           |-> 0,
   shutdown_total         |-> 0]

ObserveLog(m, block_number) ==
  [m EXCEPT !.logs_total = @ + 1, !.current_block_number = block_number]

\* Mutant: a decoded log is counted in the total once more.
ObserveDecodedTwice(m, event_type) ==
  [m EXCEPT !.logs_by_type_total[event_type] = @ + 1, !.logs_total = @ + 1]

ObserveDecodedType(m, event_type) ==
  [m EXCEPT !.logs_by_type_total[event_type] = @ + 1]
=============================================================================
