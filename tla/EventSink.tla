------------------------------ MODULE EventSink ------------------------------
(***************************************************************************)
(* The contract of the EventSink trait of src/storage.rs, as its caller in *)
(* src/frontfill.rs relies on it.  A row that write_event accepts is       *)
(* pending until a rotate or a close that returns Ok makes every pending   *)
(* row durable.  When one of them returns an error each pending row is     *)
(* either durable or lost, and the caller must not go on: it may only drop *)
(* the sink, which loses what is pending, and open another one later.      *)
(*                                                                         *)
(* What is durable stays so.  A row that was given to write_event and was  *)
(* not accepted, or not yet, may become durable all the same, even after   *)
(* the sink is dropped: an error of the sink does not say that the row is  *)
(* not there.                                                              *)
(***************************************************************************)
CONSTANT Rows

VARIABLES
  status,    \* open: the caller may go on;  done: it may only drop the sink
  given,     \* every row write_event was called with
  accepted,  \* every row write_event has accepted
  pending,   \* those neither durable nor lost
  durable    \* those that can be read back

sinkVars == <<status, given, accepted, pending, durable>>

SinkInit ==
  /\ status = "open"
  /\ given = {}
  /\ accepted = {}
  /\ pending = {}
  /\ durable = {}

\* write_event is called, for the only time with this row.
Give(row) ==
  /\ status = "open"
  /\ row \notin given
  /\ given' = given \union {row}
  /\ UNCHANGED <<status, accepted, pending, durable>>

\* write_event returns Ok, perhaps in the same step.
Accept(row) ==
  /\ status = "open"
  /\ row \notin accepted
  /\ given' = given \union {row}
  /\ accepted' = accepted \union {row}
  /\ pending' = pending \union ({row} \ durable)
  /\ UNCHANGED <<status, durable>>

\* A row becomes durable that was not accepted.
Appear(row) ==
  /\ row \in given \ accepted
  /\ durable' = durable \union {row}
  /\ UNCHANGED <<status, given, accepted, pending>>

Settle(kept) ==
  /\ durable' = durable \union kept
  /\ pending' = {}
  /\ UNCHANGED <<given, accepted>>

\* rotate or close returns Ok, and the caller may or may not go on after it.
Flush ==
  /\ status = "open"
  /\ Settle(pending)
  /\ status' \in {"open", "done"}

\* rotate or close returns an error.
FlushFails ==
  /\ status = "open"
  /\ \E kept \in SUBSET pending : Settle(kept)
  /\ status' = "done"

\* The caller gives the sink up, and drops it at once or later.
GiveUp == status' = "done" /\ UNCHANGED <<given, accepted, pending, durable>>

Drop == Settle({}) /\ status' = "done"

\* A later process opens the same storage.
Reopen ==
  /\ status = "done"
  /\ pending = {}
  /\ status' = "open"
  /\ UNCHANGED <<given, accepted, pending, durable>>

SinkNext ==
  \/ \E row \in Rows : Give(row) \/ Accept(row) \/ Appear(row)
  \/ Flush \/ FlushFails \/ GiveUp \/ Drop \/ Reopen

SinkSpec == SinkInit /\ [][SinkNext]_sinkVars
=============================================================================
