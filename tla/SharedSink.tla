----------------------------- MODULE SharedSink -----------------------------
(***************************************************************************)
(* SharedSink of src/frontfill.rs: the sink that the command line and      *)
(* build_storage choose, ParquetStorage or KafkaStorage of src/storage.rs, *)
(* driven through the EventSink trait by any caller that keeps the         *)
(* protocol.  It gives each row once, awaits each call before the next,    *)
(* goes on after a write_event that fails if it wants to, never goes on    *)
(* after a close or a failed rotate, and may drop the sink at any moment,  *)
(* as may a crash.  Its columns need not be those of an earlier call.      *)
(*                                                                         *)
(* Parquet's calls are synchronous; Kafka's write_event is two steps, with *)
(* the broker between them.                                                *)
(***************************************************************************)
EXTENDS ParquetStorage, KafkaStorage

CONSTANTS
  Options,      \* [sink, brokers, feature]: --sink, --kafka-brokers, the build
  Types,        \* event types
  TxHash,       \* row -> the transaction it is of, which a caller gives with it
  ColumnLists,  \* column lists a caller may give
  MaxRows,      \* bound of the model: rows given
  MaxRotations  \* bound of the model: rotations of one process

ASSUME OptionsAssumption ==
  Options \subseteq [sink : {"parquet", "kafka"}, brokers : BOOLEAN, feature : BOOLEAN]

ASSUME MaxRowsAssumption == MaxRows \in Nat

\* The file-set number never saturates: 2^64 - 1 rotations are out of reach.
ASSUME MaxRotationsAssumption == MaxRotations \in Nat /\ MaxRotations < MaxU64

VARIABLES
  options,   \* what this installation was started with
  protocol,  \* start;  open: calls may follow;  sending: in write_event;
             \* done: only drop;  dropped
  next_row,  \* the number of the next row
  accepted   \* history: rows for which write_event has returned Ok

callVars    == <<options, next_row, accepted>>
parquetVars == <<writers, file_set_id, files, clock>>
vars        == <<storageVars, kafkaVars, protocol, callVars>>

Init ==
  /\ StorageInit
  /\ KafkaInit
  /\ options \in Options
  /\ protocol = "start"
  /\ next_row = 1
  /\ accepted = {}

Parquet == options.sink = "parquet" /\ UNCHANGED kafkaVars
Kafka   == options.sink = "kafka" /\ UNCHANGED parquetVars

-----------------------------------------------------------------------------
(* main and build_storage *)

BrokersAreGiven == options.sink = "kafka" => options.brokers

SinkIsCompiled == options.sink = "kafka" => options.feature

SinkIsBuilt ==
  /\ protocol = "start"
  /\ BrokersAreGiven
  /\ SinkIsCompiled
  /\ protocol' = "open"
  /\ UNCHANGED <<storageVars, kafkaVars, callVars>>

\* One of the two does not hold, or the producer cannot be created.
SinkIsRejected ==
  /\ protocol = "start"
  /\ options.sink = "kafka"
  /\ protocol' = "dropped"
  /\ UNCHANGED <<storageVars, kafkaVars, callVars>>

-----------------------------------------------------------------------------
(* Calls *)

\* write_event is called with the next row.
Called ==
  /\ protocol = "open"
  /\ next_row <= MaxRows
  /\ next_row' = next_row + 1
  /\ UNCHANGED options

WriteOk(type, columns) ==
  /\ Called
  /\ Parquet
  /\ WriteEvent(type, columns, next_row)
  /\ accepted' = accepted \union {next_row}
  /\ UNCHANGED protocol

WriteError(type, columns) ==
  /\ Called
  /\ \/ Parquet /\ WriteEventFails(type, columns)
     \/ Kafka /\ SendRefused(type, columns)
  /\ UNCHANGED <<protocol, accepted>>

WriteBegins(type, columns) ==
  /\ Called
  /\ Kafka
  /\ Send(type, TxHash[next_row], columns, next_row)
  /\ protocol' = "sending"
  /\ UNCHANGED accepted

SendOk ==
  /\ protocol = "sending"
  /\ Kafka
  /\ \E m \in queue :
       Delivered(m) /\ accepted' = accepted \union {m.row}
  /\ protocol' = "open"
  /\ UNCHANGED <<options, next_row>>

SendError ==
  /\ protocol = "sending"
  /\ Kafka
  /\ \E m \in queue : GivenUp(m)
  /\ protocol' = "open"
  /\ UNCHANGED callVars

Broker ==
  /\ Kafka
  /\ BrokerStep
  /\ UNCHANGED <<protocol, callVars>>

RotateOk ==
  /\ protocol = "open"
  /\ file_set_id < MaxRotations
  /\ \/ Parquet /\ RotateWriters
     \/ Kafka /\ UNCHANGED <<schemas, kafkaVars>>
  /\ UNCHANGED <<protocol, callVars>>

RotateError ==
  /\ protocol = "open"
  /\ Parquet
  /\ RotateWritersFails
  /\ protocol' = "done"
  /\ UNCHANGED callVars

CloseOk ==
  /\ protocol = "open"
  /\ \/ Parquet /\ CloseWriters
     \/ Kafka /\ UNCHANGED <<schemas, kafkaVars>>
  /\ protocol' = "done"
  /\ UNCHANGED callVars

CloseError ==
  /\ protocol = "open"
  /\ Parquet
  /\ CloseWritersFails
  /\ protocol' = "done"
  /\ UNCHANGED callVars

DropSink ==
  /\ protocol \in {"open", "sending", "done"}
  /\ \/ Parquet /\ StorageDrop
     \/ Kafka /\ ProducerDrop
  /\ protocol' = "dropped"
  /\ UNCHANGED callVars

\* A later process with the same options, and a fresh storage.
NewProcess ==
  /\ protocol = "dropped"
  /\ StorageReopen
  /\ LaterMillisecond
  /\ protocol' = "start"
  /\ UNCHANGED <<kafkaVars, callVars>>

\* Nobody starts another one.
Finished == protocol = "dropped" /\ UNCHANGED vars

Next ==
  \/ SinkIsBuilt \/ SinkIsRejected
  \/ \E type \in Types, columns \in ColumnLists :
       \/ WriteOk(type, columns) \/ WriteError(type, columns)
       \/ WriteBegins(type, columns)
  \/ SendOk \/ SendError \/ Broker
  \/ RotateOk \/ RotateError \/ CloseOk \/ CloseError
  \/ DropSink \/ NewProcess \/ Finished

Spec == Init /\ [][Next]_vars

-----------------------------------------------------------------------------
OpenRows == UNION {RowsOf(n) : n \in OpenFiles}

Contract == INSTANCE EventSink WITH
  Rows     <- 1 .. MaxRows,
  status   <- IF protocol \in {"start", "open", "sending"} THEN "open" ELSE "done",
  given    <- 1 .. next_row - 1,
  accepted <- accepted,
  pending  <- OpenRows,
  durable  <- ReadableRows \union StoredRows

\* Either storage keeps the contract of EventSink.  ParquetStorage: a rotation or
\* a close that returns Ok leaves every accepted row readable, one that fails
\* loses none that was readable before, and no file is ever truncated or changed
\* once closed, as long as each process starts in a later millisecond than the
\* last file of the one before.  KafkaStorage: a row that was accepted is in its
\* topic by then, so that close and rotate have nothing to do, and a crash loses
\* none.
KeepsContract == Contract!SinkSpec

\* Two open writers never write the same file, and an open file has no footer.
WritersAreApart ==
  \A t, u \in DOMAIN writers :
    /\ ~files[writers[t]].footer
    /\ t # u => writers[t] # writers[u]

\* A consumer that skips what it has seen reads the accepted rows of a partition
\* in the order they were given, although requests are repeated and come late; and
\* it has all of a transaction's rows of one type, as they are in one partition.
\* Between the transactions of a topic there is no order to rely on.
TransactionsAreInOrder ==
  \A p, q \in DOMAIN partitions :
    \A i \in accepted \intersect Stored(p), j \in accepted \intersect Stored(q) :
      /\ p = q /\ i < j => FirstAt(p, i) < FirstAt(p, j)
      /\ p.topic = q.topic /\ TxHash[i] = TxHash[j] => p = q

-----------------------------------------------------------------------------
(* The invariant that makes these inductive *)

TopicPartitions == {PartitionFor(t, TxHash[r]) : t \in Types, r \in 1 .. MaxRows}

SinkTypeOK ==
  /\ options \in Options
  /\ protocol \in {"start", "open", "sending", "done", "dropped"}
  /\ next_row \in 1 .. MaxRows + 1
  /\ accepted \subseteq 1 .. next_row - 1
  /\ file_set_id \in 0 .. MaxRotations
  /\ clock \in 0 .. MaxClock
  /\ files \in [DOMAIN files -> [rows : Seq(Nat), footer : BOOLEAN]]
  /\ queue \subseteq [partition : TopicPartitions, row : Nat, attempts : 0 .. MaxAttempts]
  /\ wire \subseteq [partition : TopicPartitions, row : Nat, attempt : 0 .. MaxAttempts]
  /\ partitions \in [DOMAIN partitions -> Seq(Nat)]

\* Nothing is in a file, in the queue, on the wire or in a partition but rows that
\* write_event was called with.
RowsAreGiven ==
  /\ \A n \in DOMAIN files : RowsOf(n) \subseteq 1 .. next_row - 1
  /\ \A r \in queue \union wire : r.row \in 1 .. next_row - 1
  /\ \A p \in DOMAIN partitions : Stored(p) \subseteq 1 .. next_row - 1

\* The storage that was not chosen stays as it was created, and a sink that is
\* dropped or not yet built holds no writer.
OneSinkIsUsed ==
  /\ options.sink = "parquet" => queue = {} /\ wire = {} /\ partitions = EmptyMap
  /\ options.sink = "kafka" => files = EmptyMap
  /\ options.sink = "kafka" \/ protocol \in {"start", "dropped"} => writers = EmptyMap

WritersAgreeWithFiles ==
  \A t \in DOMAIN writers :
    /\ writers[t] \in DOMAIN files
    /\ ~files[writers[t]].footer
    /\ writers[t].type = t
    /\ writers[t].set = file_set_id

\* The name of the next file is new, or that of a file that a failed write_event
\* left empty: File::create never truncates a row.
NamesAreFresh ==
  \A n \in DOMAIN files :
    /\ n.stamp \in 0 .. clock /\ n.set \in Nat
    /\ protocol \in {"start", "open"} /\ n \notin OpenFiles =>
         \/ n.stamp < clock
         \/ n.set < file_set_id
         \/ RowsOf(n) = {} /\ ~files[n].footer

\* The queue holds the message whose write_event has not returned, no other, and
\* its requests on the wire are for the same partition.
QueueHoldsLastRow ==
  /\ protocol # "sending" => queue = {}
  /\ \A m \in queue :
       /\ m.row = next_row - 1
       /\ m.row \notin accepted
       /\ \A q \in queue : q = m
       /\ \A r \in wire : r.row = m.row => r.partition = m.partition

\* The key of a row chose the partition it is in or bound for.
RowsFollowKeys ==
  /\ \A r \in queue \union wire : r.partition = PartitionFor(r.partition.topic, TxHash[r.row])
  /\ \A p \in DOMAIN partitions : \A i \in Stored(p) : p = PartitionFor(p.topic, TxHash[i])

\* A row that KafkaStorage accepted is stored, also in the partition of each request
\* for it that is still on the wire, and precedes every later row there.
AcceptedIsStored ==
  /\ options.sink = "kafka" => accepted \subseteq StoredRows
  /\ \A r \in wire : r.row \in accepted => r.row \in Stored(r.partition)

AcceptedIsFirst ==
  \A p \in DOMAIN partitions : \A i \in accepted \intersect Stored(p) :
    \A k \in DOMAIN partitions[p] :
      i < partitions[p][k] => \E l \in 1 .. k - 1 : partitions[p][l] = i

SinkInv ==
  /\ SinkTypeOK
  /\ RowsAreGiven
  /\ OneSinkIsUsed
  /\ WritersAgreeWithFiles
  /\ NamesAreFresh
  /\ QueueHoldsLastRow
  /\ RowsFollowKeys
  /\ AcceptedIsStored
  /\ AcceptedIsFirst
=============================================================================
