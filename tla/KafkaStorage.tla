---------------------------- MODULE KafkaStorage ----------------------------
(***************************************************************************)
(* KafkaStorage of src/storage.rs, the EventSink of the kafka feature: one *)
(* message per row, to a topic per event type, with the transaction hash   *)
(* as its key, whose delivery report write_event awaits.  rotate and close *)
(* do nothing.                                                             *)
(*                                                                         *)
(* The producer's library and the broker are external.  The producer sends *)
(* a message again while it has no answer, reports success when the broker *)
(* has answered, and gives up after message.timeout.ms.  It does not ask   *)
(* for idempotence: a request on the wire may be lost or appended, late or *)
(* twice, also after the producer has given it up or is gone.  A topic has *)
(* partitions, of which the key of a message chooses one; each keeps its   *)
(* rows in the order it took them, and no order holds between two.         *)
(*                                                                         *)
(* A definition marked Mutant is not part of the model: it is a bug, put   *)
(* in the place of the definition after it to see a property fail.         *)
(***************************************************************************)
EXTENDS Naturals, Sequences, FiniteSets, SchemaCache

CONSTANTS
  PartitionOf, \* the producer's partitioner: event type, key -> number
  MaxAttempts  \* bound of the model: requests the producer makes for a message

ASSUME MaxAttemptsAssumption == MaxAttempts \in Nat \ {0}

VARIABLES
  queue,      \* the producer's messages without a report: [partition, row, attempts]
  wire,       \* requests the broker may still receive: [partition, row, attempt]
  partitions  \* [topic, number] -> the sequence of its rows

kafkaVars == <<queue, wire, partitions>>

\* Mutant: no key, and the partitioner takes the partitions in turn.
PartitionInTurn(event_type, tx_hash) ==
  [topic |-> event_type, number |-> Cardinality(DOMAIN partitions)]

\* The topic of the event type, and the partition that the key chooses in it.
PartitionFor(event_type, tx_hash) ==
  [topic |-> event_type, number |-> PartitionOf[event_type, tx_hash]]

\* The rows of a partition; it is created by its first one.
Partition(p) == IF p \in DOMAIN partitions THEN partitions[p] ELSE <<>>

Stored(p) == {Partition(p)[k] : k \in DOMAIN Partition(p)}

StoredRows == UNION {Stored(p) : p \in DOMAIN partitions}

KafkaInit ==
  /\ queue = {}
  /\ wire = {}
  /\ partitions = EmptyMap

\* write_event until its await: the message is in the producer's queue.
Send(event_type, tx_hash, columns, row) ==
  /\ SchemaAccepts(event_type, columns)
  /\ schemas' = Insert(schemas, event_type, columns)
  /\ queue' = queue \union {[partition |-> PartitionFor(event_type, tx_hash),
                               row |-> row, attempts |-> 0]}
  /\ UNCHANGED <<wire, partitions>>

\* write_event returns an error before that: the schema differs or cannot be
\* made; or the record does not fit it, or the queue is full.
SendRefused(event_type, columns) ==
  /\ \/ /\ event_type \in DOMAIN schemas => ~SchemaAccepts(event_type, columns)
        /\ UNCHANGED schemas
     \/ /\ SchemaAccepts(event_type, columns)
        /\ schemas' = Insert(schemas, event_type, columns)
  /\ UNCHANGED kafkaVars

\* Mutant: write_event does not await the report of its message.
DeliveredUnawaited(m) ==
  /\ m \in queue
  /\ UNCHANGED <<schemas, kafkaVars>>

\* The broker's answer has arrived, and write_event returns Ok.
Delivered(m) ==
  /\ m \in queue
  /\ m.attempts > 0
  /\ m.row \in Stored(m.partition)
  /\ queue' = queue \ {m}
  /\ UNCHANGED <<schemas, wire, partitions>>

\* message.timeout.ms has passed, or the broker has refused the message, and
\* write_event returns an error.
GivenUp(m) ==
  /\ m \in queue
  /\ queue' = queue \ {m}
  /\ UNCHANGED <<schemas, wire, partitions>>

-----------------------------------------------------------------------------
(* The producer's own thread, and the broker *)

Attempt(m) ==
  /\ m.attempts < MaxAttempts
  /\ queue' = (queue \ {m}) \union {[m EXCEPT !.attempts = @ + 1]}
  /\ wire' = wire \union {[partition |-> m.partition, row |-> m.row,
                             attempt |-> m.attempts]}
  /\ UNCHANGED <<schemas, partitions>>

Appended(request) ==
  /\ wire' = wire \ {request}
  /\ partitions' = Insert(partitions, request.partition,
                           Append(Partition(request.partition), request.row))
  /\ UNCHANGED <<schemas, queue>>

RequestLost(request) ==
  /\ wire' = wire \ {request}
  /\ UNCHANGED <<schemas, queue, partitions>>

BrokerStep ==
  \/ \E m \in queue : Attempt(m)
  \/ \E request \in wire : Appended(request) \/ RequestLost(request)

\* FutureProducer is dropped, with the messages it has not reported.
ProducerDrop == queue' = {} /\ UNCHANGED <<schemas, wire, partitions>>

-----------------------------------------------------------------------------
FirstAt(p, row) ==
  CHOOSE k \in DOMAIN Partition(p) :
    Partition(p)[k] = row /\ \A i \in 1 .. k - 1 : Partition(p)[i] # row
=============================================================================
