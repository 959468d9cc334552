-------------------------- MODULE SharedSinkProofs --------------------------
(***************************************************************************)
(* Theorems of SharedSink for every value of its constants: open writers   *)
(* are apart, the accepted rows of a partition are in order and those of a *)
(* transaction in one partition, and either storage keeps the contract of  *)
(* EventSink under any caller that keeps the protocol.  SinkInv says where *)
(* each row is; the steps of ParquetStorage come first, then those of      *)
(* KafkaStorage.                                                           *)
(***************************************************************************)
EXTENDS SharedSink, TLAPS, WellFoundedInduction

FileType == [rows : Seq(Nat), footer : BOOLEAN]

-----------------------------------------------------------------------------
(* Operators *)

\* A sequence with one more element has one more value.
LEMMA AppendValues ==
  ASSUME NEW s \in Seq(Nat), NEW v \in Nat
  PROVE  /\ Append(s, v) \in Seq(Nat)
         /\ DOMAIN s = 1 .. Len(s) /\ Len(s) \in Nat
         /\ DOMAIN Append(s, v) = 1 .. (Len(s) + 1)
         /\ \A k \in 1 .. Len(s) : Append(s, v)[k] = s[k]
         /\ Append(s, v)[Len(s) + 1] = v
         /\ {Append(s, v)[k] : k \in DOMAIN Append(s, v)}
              = {s[k] : k \in DOMAIN s} \union {v}
<1>1. /\ DOMAIN s = 1 .. Len(s) /\ Len(s) \in Nat
      /\ DOMAIN Append(s, v) = 1 .. (Len(s) + 1)
      /\ \A k \in 1 .. Len(s) : Append(s, v)[k] = s[k]
      /\ Append(s, v)[Len(s) + 1] = v
      /\ Append(s, v) \in Seq(Nat)
  OBVIOUS
<1>2. /\ \A k \in 1 .. (Len(s) + 1) : k \in 1 .. Len(s) \/ k = Len(s) + 1
      /\ \A k \in 1 .. Len(s) : k \in 1 .. (Len(s) + 1)
      /\ Len(s) + 1 \in 1 .. (Len(s) + 1)
  BY <1>1
<1>3. QED
  BY <1>1, <1>2

-----------------------------------------------------------------------------
(* ParquetStorage *)

\* The name of a file that is created has no open writer, and any file of that name
\* is empty and was never closed.
LEMMA FreshName ==
  ASSUME SinkInv, protocol = "open", NEW t, t \notin DOMAIN writers,
         NEW millis \in clock .. MaxClock, NEW n, n = FileName(t, millis)
  PROVE  /\ n.type = t /\ n.stamp = millis /\ n.set = file_set_id
         /\ millis \in 0 .. MaxClock /\ clock <= millis
         /\ n \notin OpenFiles
         /\ n \in DOMAIN files => RowsOf(n) = {} /\ ~files[n].footer
<1>1. n.type = t /\ n.stamp = millis /\ n.set = file_set_id
  BY DEF FileName
<1>2. clock \in Nat /\ millis \in Nat /\ clock <= millis /\ file_set_id \in Nat
      /\ millis \in 0 .. MaxClock
  BY MaxClockAssumption, MaxRotationsAssumption DEF SinkInv, SinkTypeOK
<1>3. n \notin OpenFiles
  BY <1>1 DEF SinkInv, WritersAgreeWithFiles, OpenFiles
<1>4. ASSUME n \in DOMAIN files
      PROVE  RowsOf(n) = {} /\ ~files[n].footer
  BY <1>1, <1>2, <1>3, <1>4 DEF SinkInv, NamesAreFresh
<1>5. QED
  BY <1>1, <1>2, <1>3, <1>4

\* What a write_event of ParquetStorage that returns Ok does: the row goes to the
\* end of the open file of its type, or into a new file.
WritesFile(n, type) ==
  /\ DOMAIN writers' = DOMAIN writers \union {type}
  /\ \A u \in DOMAIN writers : writers'[u] = writers[u]
  /\ writers'[type] = n
  /\ n.type = type /\ n.stamp \in 0 .. clock' /\ n.set = file_set_id
  /\ files' \in [DOMAIN files \union {n} -> FileType]
  /\ ~files'[n].footer
  /\ \/ /\ n \in OpenFiles
        /\ RowsIn(files'[n]) = RowsIn(files[n]) \union {next_row}
     \/ /\ n \notin OpenFiles
        /\ n \in DOMAIN files => RowsIn(files[n]) = {} /\ ~files[n].footer
        /\ RowsIn(files'[n]) = {next_row}
  /\ \A m \in DOMAIN files : m # n => files'[m] = files[m]
  /\ clock' \in clock .. MaxClock
  /\ UNCHANGED file_set_id

LEMMA WrittenFile ==
  ASSUME SinkInv, NEW type, NEW columns, WriteOk(type, columns)
  PROVE  \E n : WritesFile(n, type)
<1>0. /\ protocol = "open" /\ next_row \in Nat /\ clock \in 0 .. MaxClock
      /\ WriteEvent(type, columns, next_row)
      /\ files \in [DOMAIN files -> FileType]
  BY DEF WriteOk, Called, SinkInv, SinkTypeOK, FileType
<1>1. CASE /\ type \in DOMAIN writers
           /\ files' = [files EXCEPT ![writers[type]].rows = Append(@, next_row)]
           /\ UNCHANGED <<writers, clock>>
  <2>1. PICK n : n = writers[type]
    OBVIOUS
  <2>2. /\ n \in DOMAIN files /\ ~files[n].footer /\ n \in OpenFiles
        /\ n.type = type /\ n.set = file_set_id
    BY <1>1, <2>1 DEF SinkInv, WritersAgreeWithFiles, OpenFiles
  <2>3. n.stamp \in 0 .. clock
    BY <2>2 DEF SinkInv, NamesAreFresh
  <2>4. files[n] \in FileType /\ files[n].rows \in Seq(Nat)
    BY <1>0, <2>2 DEF FileType
  <2>5. /\ DOMAIN files' = DOMAIN files
        /\ files'[n] = [files[n] EXCEPT !.rows = Append(@, next_row)]
        /\ \A m \in DOMAIN files : m # n => files'[m] = files[m]
    BY <1>1, <2>1, <2>2
  <2>6. /\ files'[n].rows = Append(files[n].rows, next_row)
        /\ files'[n].footer = files[n].footer
        /\ Append(files[n].rows, next_row) \in Seq(Nat)
        /\ files'[n] \in FileType
    <3>1. /\ files'[n].rows = Append(files[n].rows, next_row)
          /\ files'[n].footer = files[n].footer
      BY <2>4, <2>5 DEF FileType
    <3>2. Append(files[n].rows, next_row) \in Seq(Nat)
      BY <1>0, <2>4
    <3>3. QED
      BY <2>4, <2>5, <3>1, <3>2 DEF FileType
  <2>7. PICK s : s = files[n].rows
    OBVIOUS
  <2>8. RowsIn(files'[n]) = RowsIn(files[n]) \union {next_row}
    <3>1. {Append(s, next_row)[k] : k \in DOMAIN Append(s, next_row)}
            = {s[k] : k \in DOMAIN s} \union {next_row}
      <4>1. s \in Seq(Nat) /\ next_row \in Nat
        BY <1>0, <2>4, <2>7
      <4>2. QED
        BY <4>1, AppendValues, Zenon
    <3>2. files'[n].rows = Append(s, next_row)
      BY <2>6, <2>7
    <3>3. QED
      BY <2>7, <3>1, <3>2 DEF RowsIn
  <2>9. files' \in [DOMAIN files \union {n} -> FileType]
    <3>1. DOMAIN files \union {n} = DOMAIN files
      BY <2>2
    <3>2. files' = [m \in DOMAIN files |-> files'[m]]
      BY <1>1
    <3>3. \A m \in DOMAIN files : files'[m] \in FileType
      BY <1>0, <2>5, <2>6
    <3>4. QED
      BY <3>1, <3>2, <3>3
  <2>10. clock' \in clock .. MaxClock /\ UNCHANGED file_set_id
    BY <1>0, <1>1, MaxClockAssumption DEF WriteEvent
  <2>11. DOMAIN writers' = DOMAIN writers \union {type}
    BY <1>1
  <2>12. QED
    BY <1>1, <2>1, <2>2, <2>3, <2>5, <2>6, <2>8, <2>9, <2>10, <2>11 DEF WritesFile
<1>2. CASE /\ type \notin DOMAIN writers
           /\ \E millis \in clock .. MaxClock :
                LET name == FileName(type, millis) IN
                /\ clock' = millis
                /\ writers' = Insert(writers, type, name)
                /\ files' = Insert(files, name, [rows |-> <<next_row>>, footer |-> FALSE])
  <2>1. PICK millis \in clock .. MaxClock :
           /\ clock' = millis
           /\ writers' = Insert(writers, type, FileName(type, millis))
           /\ files' = Insert(files, FileName(type, millis),
                              [rows |-> <<next_row>>, footer |-> FALSE])
    BY <1>2
  <2>2. PICK n, file : /\ n = FileName(type, millis)
                       /\ file = [rows |-> <<next_row>>, footer |-> FALSE]
    OBVIOUS
  <2>3. /\ n.type = type /\ n.stamp = millis /\ n.set = file_set_id
        /\ millis \in 0 .. MaxClock /\ n \notin OpenFiles
        /\ n \in DOMAIN files => RowsOf(n) = {} /\ ~files[n].footer
    BY <1>0, <1>2, <2>2, FreshName
  <2>4. file \in FileType /\ ~file.footer /\ RowsIn(file) = {next_row}
    BY <1>0, <2>2 DEF FileType, RowsIn
  <2>5. /\ DOMAIN files' = DOMAIN files \union {n} /\ files'[n] = file
        /\ \A m \in DOMAIN files : m # n => files'[m] = files[m]
        /\ files' = [m \in DOMAIN files \union {n} |-> files'[m]]
    <3>1. files' = Insert(files, n, file)
      BY <2>1, <2>2
    <3>2. QED
      BY <3>1 DEF Insert
  <2>6. /\ DOMAIN writers' = DOMAIN writers \union {type} /\ writers'[type] = n
        /\ \A u \in DOMAIN writers : writers'[u] = writers[u]
    <3>1. writers' = Insert(writers, type, n)
      BY <2>1, <2>2
    <3>2. QED
      BY <1>2, <3>1 DEF Insert
  <2>7. files' \in [DOMAIN files \union {n} -> FileType]
    <3>1. \A m \in DOMAIN files \union {n} : files'[m] \in FileType
      BY <1>0, <2>4, <2>5
    <3>2. QED
      BY <2>5, <3>1
  <2>8. n.stamp \in 0 .. clock' /\ clock' \in clock .. MaxClock
    BY <2>1, <2>3, MaxRotationsAssumption DEF SinkInv, SinkTypeOK
  <2>9. UNCHANGED file_set_id
    BY <1>0 DEF WriteEvent
  <2>10. QED
    BY <2>3, <2>4, <2>5, <2>6, <2>7, <2>8, <2>9 DEF RowsOf, WritesFile
<1>3. QED
  BY <1>0, <1>1, <1>2 DEF WriteEvent

\* What one that returns an error does: nothing, or an empty file is created, with
\* or without a writer.
CreatesFile(n, type) ==
  /\ type \notin DOMAIN writers
  /\ n.type = type /\ n.stamp \in 0 .. clock' /\ n.set = file_set_id
  /\ n \notin OpenFiles
  /\ n \in DOMAIN files => RowsIn(files[n]) = {} /\ ~files[n].footer
  /\ files' \in [DOMAIN files \union {n} -> FileType]
  /\ ~files'[n].footer /\ RowsIn(files'[n]) = {}
  /\ \A m \in DOMAIN files : m # n => files'[m] = files[m]
  /\ clock' \in clock .. MaxClock
  /\ \/ UNCHANGED writers
     \/ /\ DOMAIN writers' = DOMAIN writers \union {type}
        /\ writers'[type] = n
        /\ \A u \in DOMAIN writers : writers'[u] = writers[u]

LEMMA FailedWrite ==
  ASSUME SinkInv, protocol = "open", NEW type, NEW columns,
         WriteEventFails(type, columns)
  PROVE  /\ UNCHANGED file_set_id
         /\ \/ UNCHANGED <<writers, files, clock>>
            \/ \E n : CreatesFile(n, type)
<1>0. files \in [DOMAIN files -> FileType] /\ UNCHANGED file_set_id
  BY DEF SinkInv, SinkTypeOK, FileType, WriteEventFails
<1>1. CASE /\ type \notin DOMAIN writers
           /\ \E millis \in clock .. MaxClock :
                LET name == FileName(type, millis) IN
                /\ clock' = millis
                /\ files' = Created(name)
                /\ \/ UNCHANGED writers
                   \/ writers' = Insert(writers, type, name)
  <2>1. PICK millis \in clock .. MaxClock :
           /\ clock' = millis
           /\ files' = Created(FileName(type, millis))
           /\ \/ UNCHANGED writers
              \/ writers' = Insert(writers, type, FileName(type, millis))
    BY <1>1
  <2>2. PICK n, file : n = FileName(type, millis) /\ file = [rows |-> <<>>, footer |-> FALSE]
    OBVIOUS
  <2>3. /\ n.type = type /\ n.stamp = millis /\ n.set = file_set_id
        /\ millis \in 0 .. MaxClock /\ n \notin OpenFiles
        /\ n \in DOMAIN files => RowsIn(files[n]) = {} /\ ~files[n].footer
    BY <1>1, <2>2, FreshName DEF RowsOf
  <2>4. file \in FileType /\ ~file.footer /\ RowsIn(file) = {}
    BY <2>2 DEF FileType, RowsIn
  <2>5. /\ DOMAIN files' = DOMAIN files \union {n} /\ files'[n] = file
        /\ \A m \in DOMAIN files : m # n => files'[m] = files[m]
        /\ files' = [m \in DOMAIN files \union {n} |-> files'[m]]
    <3>1. files' = Insert(files, n, file)
      BY <2>1, <2>2 DEF Created
    <3>2. QED
      BY <3>1 DEF Insert
  <2>6. \/ UNCHANGED writers
        \/ /\ DOMAIN writers' = DOMAIN writers \union {type} /\ writers'[type] = n
           /\ \A u \in DOMAIN writers : writers'[u] = writers[u]
    <3>1. UNCHANGED writers \/ writers' = Insert(writers, type, n)
      BY <2>1, <2>2
    <3>2. QED
      BY <1>1, <3>1 DEF Insert
  <2>7. files' \in [DOMAIN files \union {n} -> FileType]
    <3>1. \A m \in DOMAIN files \union {n} : files'[m] \in FileType
      BY <1>0, <2>4, <2>5
    <3>2. QED
      BY <2>5, <3>1
  <2>8. n.stamp \in 0 .. clock' /\ clock' \in clock .. MaxClock
    BY <2>1, <2>3
  <2>9. QED
    BY <1>0, <1>1, <2>3, <2>4, <2>5, <2>6, <2>7, <2>8 DEF CreatesFile
<1>2. QED
  BY <1>0, <1>1 DEF WriteEventFails

\* Closing writers puts a footer on the files of those that are closed.
LEMMA DrainFacts ==
  ASSUME SinkInv, NEW closed \in SUBSET DOMAIN writers, DrainWriters(closed)
  PROVE  /\ files' \in [DOMAIN files -> FileType]
         /\ writers' = EmptyMap /\ UNCHANGED clock
         /\ \A n \in DOMAIN files :
              /\ RowsIn(files'[n]) = RowsIn(files[n])
              /\ files'[n].footer <=> files[n].footer \/ \E t \in closed : writers[t] = n
<1>1. files \in [DOMAIN files -> FileType]
  BY DEF SinkInv, SinkTypeOK, FileType
<1>2. \A n \in DOMAIN files : files[n] \in FileType
  BY <1>1
<1>3. \A n \in DOMAIN files :
        /\ files'[n] \in FileType
        /\ files'[n].rows = files[n].rows
        /\ files'[n].footer <=> files[n].footer \/ \E t \in closed : writers[t] = n
  BY <1>2 DEF DrainWriters, FileType
<1>4. files' = [n \in DOMAIN files |-> files'[n]]
  BY DEF DrainWriters
<1>5. files' \in [DOMAIN files -> FileType]
  BY <1>3, <1>4
<1>6. QED
  BY <1>3, <1>5 DEF DrainWriters, RowsIn

-----------------------------------------------------------------------------
(* KafkaStorage *)

\* A request that the broker takes puts its row at the end of its partition.
TakesRequest(request, t, row) ==
  /\ t = request.partition /\ row = request.row
  /\ Partition(t) \in Seq(Nat)
  /\ partitions' \in [DOMAIN partitions \union {t} -> Seq(Nat)]
  /\ partitions'[t] = Append(Partition(t), row)
  /\ \A u \in DOMAIN partitions : u # t => partitions'[u] = partitions[u]
  /\ \A u \in DOMAIN partitions' :
       Stored(u)' = IF u = t THEN Stored(u) \union {row} ELSE Stored(u)
  /\ StoredRows' = StoredRows \union {row}

LEMMA AppendedFacts ==
  ASSUME SinkInv, NEW request \in wire, Appended(request)
  PROVE  \E t \in TopicPartitions, row \in Nat : TakesRequest(request, t, row)
<1> PICK t, row : t = request.partition /\ row = request.row
  OBVIOUS
<1>0. /\ partitions \in [DOMAIN partitions -> Seq(Nat)]
      /\ t \in TopicPartitions /\ row \in Nat
  BY DEF SinkInv, SinkTypeOK
<1>1. PICK s : s = Partition(t)
  OBVIOUS
<1>2. s \in Seq(Nat)
  BY <1>0, <1>1 DEF Partition
<1>3. Append(s, row) \in Seq(Nat)
  BY <1>0, <1>2
<1>4. partitions' = Insert(partitions, t, Append(s, row))
  BY <1>1 DEF Appended
<1>5. /\ DOMAIN partitions' = DOMAIN partitions \union {t}
      /\ partitions'[t] = Append(s, row)
      /\ \A u \in DOMAIN partitions : u # t => partitions'[u] = partitions[u]
      /\ partitions' = [u \in DOMAIN partitions \union {t} |-> partitions'[u]]
  BY <1>4 DEF Insert
<1>6. partitions' \in [DOMAIN partitions \union {t} -> Seq(Nat)]
  <2>1. \A u \in DOMAIN partitions \union {t} : partitions'[u] \in Seq(Nat)
    BY <1>0, <1>3, <1>5
  <2>2. QED
    BY <1>5, <2>1
<1>7. Stored(t)' = Stored(t) \union {row}
  <2>1. {Append(s, row)[k] : k \in DOMAIN Append(s, row)}
          = {s[k] : k \in DOMAIN s} \union {row}
    BY <1>0, <1>2, AppendValues, Zenon
  <2>2. Partition(t)' = Append(s, row)
    BY <1>5 DEF Partition
  <2>3. QED
    BY <1>1, <2>1, <2>2 DEF Stored
<1>8. \A u \in DOMAIN partitions : u # t => Stored(u)' = Stored(u)
  BY <1>5 DEF Stored, Partition
<1>9. StoredRows' = StoredRows \union {row}
  <2>1. t \notin DOMAIN partitions => Stored(t) = {}
    BY DEF Stored, Partition
  <2>2. QED
    BY <1>5, <1>7, <1>8, <2>1 DEF StoredRows
<1>10. \A u \in DOMAIN partitions' :
          Stored(u)' = IF u = t THEN Stored(u) \union {row} ELSE Stored(u)
  BY <1>5, <1>7, <1>8
<1>11. QED
  BY <1>0, <1>1, <1>2, <1>5, <1>6, <1>9, <1>10 DEF TakesRequest

-----------------------------------------------------------------------------
(* Steps, by what they do to the storage that was chosen *)

ParquetFails ==
  \E type \in Types, columns \in ColumnLists :
    /\ Called /\ Parquet /\ WriteEventFails(type, columns)
    /\ UNCHANGED <<protocol, accepted>>

ParquetWrites == \E type \in Types, columns \in ColumnLists : WriteOk(type, columns)

ParquetCloses == Parquet /\ (RotateOk \/ RotateError \/ CloseOk \/ CloseError)

ParquetDrops == Parquet /\ DropSink

KafkaRefuses == /\ Called /\ Kafka
                /\ UNCHANGED <<kafkaVars, protocol, accepted>>

KafkaBegins == \E type \in Types, columns \in ColumnLists : WriteBegins(type, columns)

KafkaDrops == Kafka /\ DropSink

SinkIdles ==
  /\ UNCHANGED <<parquetVars, kafkaVars, callVars>>
  /\ \/ UNCHANGED protocol
     \/ protocol = "start" /\ protocol' = "open"
     \/ options.sink = "kafka" /\ protocol = "start" /\ protocol' = "dropped"
     \/ options.sink = "kafka" /\ protocol = "open" /\ protocol' = "done"

\* Every step is of one of these kinds.
LEMMA StepKinds ==
  ASSUME SinkInv, [Next]_vars
  PROVE  \/ ParquetWrites \/ ParquetFails \/ ParquetCloses \/ ParquetDrops
         \/ KafkaRefuses \/ KafkaBegins \/ SendOk \/ SendError \/ Broker \/ KafkaDrops
         \/ NewProcess \/ SinkIdles
<1>1. CASE UNCHANGED vars
  BY <1>1 DEF SinkIdles, vars, storageVars, parquetVars
<1>2. CASE SinkIsBuilt \/ SinkIsRejected \/ Finished
  BY <1>2 DEF SinkIdles, SinkIsBuilt, SinkIsRejected, Finished, vars, storageVars,
     parquetVars
<1>3. ASSUME NEW type \in Types, NEW columns \in ColumnLists,
             WriteOk(type, columns) \/ WriteError(type, columns)
               \/ WriteBegins(type, columns)
      PROVE  ParquetWrites \/ ParquetFails \/ KafkaRefuses \/ KafkaBegins
  BY <1>3 DEF ParquetWrites, ParquetFails, KafkaRefuses, KafkaBegins, WriteError,
     SendRefused, Called
<1>4. CASE RotateOk \/ RotateError \/ CloseOk \/ CloseError
  BY <1>4 DEF RotateOk, RotateError, CloseOk, CloseError, ParquetCloses, SinkIdles,
     Parquet, Kafka
<1>5. CASE DropSink
  BY <1>5 DEF DropSink, ParquetDrops, KafkaDrops
<1>6. QED
  BY <1>1, <1>2, <1>3, <1>4, <1>5 DEF Next

\* The writers that a rotation or a close of ParquetStorage closes, and what the
\* caller may do after it.
LEMMA ParquetClosesFacts ==
  ASSUME SinkInv, ParquetCloses
  PROVE  /\ \E closed \in SUBSET DOMAIN writers : DrainWriters(closed)
         /\ RotateOk \/ CloseOk => DrainWriters(DOMAIN writers)
         /\ RotateOk => /\ file_set_id' = file_set_id + 1 /\ file_set_id' <= MaxRotations
                        /\ UNCHANGED protocol
         /\ ~RotateOk => protocol' = "done" /\ UNCHANGED file_set_id
         /\ protocol = "open" /\ options.sink = "parquet"
         /\ UNCHANGED <<kafkaVars, callVars>>
<1> USE DEF ParquetCloses, Parquet, Kafka
<1>1. CASE RotateOk
  <2>1. /\ options.sink = "parquet" /\ RotateWriters /\ file_set_id < MaxRotations
        /\ protocol = "open"
        /\ UNCHANGED <<kafkaVars, callVars, protocol>>
    BY <1>1 DEF RotateOk
  <2>2. file_set_id' = file_set_id + 1 /\ file_set_id' <= MaxRotations
    BY <2>1, MaxRotationsAssumption, MaxU64Assumption
    DEF RotateWriters, SaturatingAdd, SinkInv, SinkTypeOK
  <2>3. QED
    BY <1>1, <2>1, <2>2 DEF RotateWriters
<1>2. CASE ~RotateOk
  BY <1>2 DEF RotateError, RotateWritersFails, CloseOk, CloseError, CloseWriters,
     CloseWritersFails
<1>3. QED
  BY <1>1, <1>2

\* What KafkaStorage's steps leave alone.
LEMMA KafkaSteps ==
  ASSUME SinkInv,
         KafkaRefuses \/ KafkaBegins \/ SendOk \/ SendError \/ Broker \/ KafkaDrops
  PROVE  /\ options.sink = "kafka" /\ UNCHANGED <<parquetVars, options>>
         /\ KafkaRefuses \/ KafkaBegins =>
              /\ protocol = "open" /\ next_row <= MaxRows /\ next_row' = next_row + 1
              /\ UNCHANGED <<wire, partitions, accepted>>
         /\ KafkaRefuses => UNCHANGED <<queue, protocol>>
         /\ SendOk \/ SendError \/ Broker \/ KafkaDrops => UNCHANGED next_row
         /\ SendError \/ Broker \/ KafkaDrops => UNCHANGED accepted
         /\ SendOk \/ SendError \/ KafkaDrops => UNCHANGED <<wire, partitions>>
         /\ SendOk \/ SendError => protocol = "sending" /\ protocol' = "open"
         /\ KafkaDrops => queue' = {} /\ protocol' = "dropped"
         /\ Broker => UNCHANGED protocol
<1> USE DEF Kafka
<1>1. CASE KafkaRefuses \/ KafkaBegins
  BY <1>1 DEF KafkaRefuses, KafkaBegins, Called, WriteBegins, Send, kafkaVars, callVars,
     SendOk, SendError, Broker, KafkaDrops, DropSink
<1>2. CASE SendOk \/ SendError \/ Broker \/ KafkaDrops
  BY <1>2 DEF SendOk, SendError, Broker, KafkaDrops, Delivered, GivenUp, DropSink,
     Parquet, ProducerDrop, callVars, KafkaRefuses, KafkaBegins, Called, WriteBegins,
     Send, BrokerStep, Attempt, Appended, RequestLost, kafkaVars
<1>3. QED
  BY <1>1, <1>2

-----------------------------------------------------------------------------
(* The parts of the inductive invariant *)

LEMMA SinkTypeStep ==
  ASSUME SinkInv, [Next]_vars
  PROVE  SinkTypeOK'
<1> USE DEF FileType
<1>0. /\ SinkTypeOK /\ next_row \in Nat /\ MaxRows \in Nat
      /\ clock \in Nat /\ MaxClock \in Nat
  BY MaxRowsAssumption, MaxClockAssumption DEF SinkInv, SinkTypeOK
<1>1. CASE ParquetWrites
  <2>1. PICK type \in Types, columns \in ColumnLists : WriteOk(type, columns)
    BY <1>1 DEF ParquetWrites
  <2>2. /\ files' \in [DOMAIN files' -> FileType]
        /\ clock' \in clock .. MaxClock /\ UNCHANGED file_set_id
    BY <2>1, WrittenFile DEF WritesFile
  <2>3. /\ next_row <= MaxRows /\ next_row' = next_row + 1
        /\ UNCHANGED <<options, protocol, queue, wire, partitions>>
        /\ accepted' = accepted \union {next_row}
    BY <2>1 DEF WriteOk, Called, Parquet, kafkaVars
  <2>4. clock' \in 0 .. MaxClock /\ next_row' \in 1 .. MaxRows + 1
    BY <1>0, <2>2, <2>3 DEF SinkTypeOK
  <2>5. accepted' \subseteq 1 .. next_row' - 1
    BY <1>0, <2>3 DEF SinkTypeOK
  <2>6. QED
    BY <1>0, <2>2, <2>3, <2>4, <2>5 DEF SinkTypeOK
<1>2. CASE ParquetFails
  <2>1. PICK type \in Types, columns \in ColumnLists :
          /\ Called /\ Parquet /\ WriteEventFails(type, columns)
          /\ UNCHANGED <<protocol, accepted>>
    BY <1>2 DEF ParquetFails
  <2>2. /\ files' \in [DOMAIN files' -> FileType]
        /\ clock' \in clock .. MaxClock /\ UNCHANGED file_set_id
    <3>1. protocol = "open"
      BY <2>1 DEF Called
    <3>2. UNCHANGED <<files, clock>> =>
            files' \in [DOMAIN files' -> FileType] /\ clock' \in clock .. MaxClock
      BY <1>0 DEF SinkTypeOK
    <3>3. QED
      BY <2>1, <3>1, <3>2, FailedWrite DEF CreatesFile
  <2>3. /\ next_row <= MaxRows /\ next_row' = next_row + 1
        /\ UNCHANGED <<options, protocol, queue, wire, partitions, accepted>>
    BY <2>1 DEF Called, Parquet, kafkaVars
  <2>4. /\ clock' \in 0 .. MaxClock /\ next_row' \in 1 .. MaxRows + 1
        /\ accepted' \subseteq 1 .. next_row' - 1
    BY <1>0, <2>2, <2>3 DEF SinkTypeOK
  <2>5. QED
    BY <1>0, <2>2, <2>3, <2>4 DEF SinkTypeOK
<1>3. CASE ParquetCloses
  <2>1. PICK closed \in SUBSET DOMAIN writers : DrainWriters(closed)
    BY <1>3, ParquetClosesFacts
  <2>2. files' \in [DOMAIN files' -> FileType] /\ UNCHANGED clock
    BY <2>1, DrainFacts
  <2>3. /\ file_set_id' \in 0 .. MaxRotations
        /\ protocol' \in {"open", "done"}
        /\ UNCHANGED <<options, next_row, accepted, queue, wire, partitions>>
    <3>1. file_set_id \in 0 .. MaxRotations /\ MaxRotations \in Nat
      BY <1>0, MaxRotationsAssumption DEF SinkTypeOK
    <3>2. QED
      BY <1>3, <3>1, ParquetClosesFacts DEF callVars, kafkaVars
  <2>4. QED
    BY <1>0, <2>2, <2>3 DEF SinkTypeOK
<1>4. CASE ParquetDrops
  BY <1>0, <1>4 DEF SinkTypeOK, ParquetDrops, DropSink, Parquet, Kafka, StorageDrop,
     kafkaVars, callVars
<1>5. CASE NewProcess
  BY <1>0, <1>5, MaxRotationsAssumption
  DEF SinkTypeOK, NewProcess, StorageReopen, LaterMillisecond, kafkaVars, callVars
<1>6. CASE SinkIdles
  BY <1>0, <1>6 DEF SinkTypeOK, SinkIdles, parquetVars, kafkaVars, callVars
<1>7. CASE KafkaRefuses
  <2>1. /\ next_row' = next_row + 1 /\ next_row <= MaxRows
        /\ UNCHANGED <<file_set_id, clock, files, options, protocol, accepted,
                       queue, wire, partitions>>
    BY <1>7, KafkaSteps DEF parquetVars
  <2>2. next_row' \in 1 .. MaxRows + 1 /\ accepted' \subseteq 1 .. next_row' - 1
    BY <1>0, <2>1 DEF SinkTypeOK
  <2>3. QED
    BY <1>0, <2>1, <2>2 DEF SinkTypeOK
<1>8. CASE KafkaBegins
  <2>1. /\ next_row' = next_row + 1 /\ next_row <= MaxRows
        /\ UNCHANGED <<file_set_id, clock, files, options, accepted, wire, partitions>>
    BY <1>8, KafkaSteps DEF parquetVars
  <2>2. PICK type \in Types :
          /\ queue' = queue \union {[partition |-> PartitionFor(type, TxHash[next_row]),
                                       row |-> next_row, attempts |-> 0]}
          /\ protocol' = "sending"
    BY <1>8 DEF KafkaBegins, WriteBegins, Send
  <2>3. next_row' \in 1 .. MaxRows + 1 /\ accepted' \subseteq 1 .. next_row' - 1
    BY <1>0, <2>1 DEF SinkTypeOK
  <2>4. queue' \subseteq [partition : TopicPartitions, row : Nat, attempts : 0 .. MaxAttempts]
    <3>1. PartitionFor(type, TxHash[next_row]) \in TopicPartitions
      <4>1. next_row \in 1 .. MaxRows
        BY <1>0, <2>1 DEF SinkTypeOK
      <4>2. QED
        BY <4>1 DEF TopicPartitions
    <3>2. QED
      BY <1>0, <2>2, <3>1, MaxAttemptsAssumption DEF SinkTypeOK
  <2>5. QED
    BY <1>0, <2>1, <2>2, <2>3, <2>4 DEF SinkTypeOK
<1>9. CASE SendOk \/ SendError \/ KafkaDrops
  <2>1. UNCHANGED <<file_set_id, clock, files, options, wire, partitions, next_row>>
    BY <1>9, KafkaSteps DEF parquetVars
  <2>2. queue' \subseteq queue /\ protocol' \in {"open", "dropped"}
    BY <1>9 DEF SendOk, SendError, KafkaDrops, DropSink, Delivered, GivenUp,
       ProducerDrop, Kafka, Parquet, kafkaVars
  <2>3. accepted' \subseteq 1 .. next_row - 1
    <3>1. UNCHANGED accepted \/ \E m \in queue : accepted' = accepted \union {m.row}
      BY <1>9, KafkaSteps DEF SendOk
    <3>2. QED
      BY <1>0, <3>1 DEF SinkTypeOK, SinkInv, RowsAreGiven
  <2>4. QED
    BY <1>0, <2>1, <2>2, <2>3 DEF SinkTypeOK
<1>10. CASE Broker
  <2>1. UNCHANGED <<file_set_id, clock, files, options, protocol, next_row, accepted>>
    BY <1>10, KafkaSteps DEF parquetVars
  <2>2. CASE \E m \in queue : Attempt(m)
    <3>1. PICK m \in queue : Attempt(m)
      BY <2>2
    <3>2. m \in [partition : TopicPartitions, row : Nat, attempts : 0 .. MaxAttempts]
      BY <1>0 DEF SinkTypeOK
    <3>3. /\ [m EXCEPT !.attempts = @ + 1]
               \in [partition : TopicPartitions, row : Nat, attempts : 0 .. MaxAttempts]
          /\ [partition |-> m.partition, row |-> m.row, attempt |-> m.attempts]
               \in [partition : TopicPartitions, row : Nat, attempt : 0 .. MaxAttempts]
      BY <3>1, <3>2, MaxAttemptsAssumption DEF Attempt
    <3>4. QED
      BY <1>0, <2>1, <3>1, <3>3 DEF SinkTypeOK, Attempt
  <2>3. CASE \E request \in wire : Appended(request)
    <3>1. PICK request \in wire : Appended(request)
      BY <2>3
    <3>2. partitions' \in [DOMAIN partitions' -> Seq(Nat)]
      BY <3>1, AppendedFacts DEF TakesRequest
    <3>3. UNCHANGED queue /\ wire' \subseteq wire
      BY <3>1 DEF Appended
    <3>4. QED
      BY <1>0, <2>1, <3>2, <3>3 DEF SinkTypeOK
  <2>4. CASE \E request \in wire : RequestLost(request)
    BY <1>0, <2>1, <2>4 DEF SinkTypeOK, RequestLost
  <2>5. QED
    BY <1>10, <2>2, <2>3, <2>4 DEF Broker, BrokerStep
<1>11. QED
  BY <1>1, <1>2, <1>3, <1>4, <1>5, <1>6, <1>7, <1>8, <1>9, <1>10, StepKinds

\* No step forgets a row that was given.
LEMMA GivenGrows ==
  ASSUME SinkInv, [Next]_vars
  PROVE  /\ next_row \in Nat /\ next_row' \in Nat
         /\ 1 .. next_row - 1 \subseteq 1 .. next_row' - 1
         /\ UNCHANGED options
         /\ ParquetWrites \/ ParquetFails \/ KafkaRefuses \/ KafkaBegins =>
              next_row' = next_row + 1 /\ next_row \in 1 .. next_row' - 1
<1>1. next_row \in 1 .. MaxRows + 1
  BY DEF SinkInv, SinkTypeOK
<1>2. /\ UNCHANGED options
      /\ next_row' = next_row \/ next_row' = next_row + 1
      /\ ParquetWrites \/ ParquetFails \/ KafkaRefuses \/ KafkaBegins =>
           next_row' = next_row + 1
  <2>1. CASE ParquetWrites \/ ParquetFails \/ KafkaRefuses \/ KafkaBegins
    BY <2>1 DEF ParquetWrites, ParquetFails, KafkaRefuses, KafkaBegins, WriteOk,
       WriteBegins, Called
  <2>2. CASE ParquetCloses \/ ParquetDrops \/ NewProcess \/ SinkIdles
    BY <2>2, ParquetClosesFacts, <2>1
    DEF ParquetDrops, DropSink, NewProcess, SinkIdles, callVars
  <2>3. CASE SendOk \/ SendError \/ Broker \/ KafkaDrops
    BY <2>1, <2>3, KafkaSteps
  <2>4. QED
    BY <2>1, <2>2, <2>3, StepKinds
<1>3. QED
  BY <1>1, <1>2

\* Rows are put into files, queue and partitions when write_event is called with them.
LEMMA RowsAreGivenStep ==
  ASSUME SinkInv, [Next]_vars
  PROVE  RowsAreGiven'
<1> DEFINE G == 1 .. next_row - 1
<1>0. /\ \A n \in DOMAIN files : RowsIn(files[n]) \subseteq G
      /\ \A r \in queue \union wire : r.row \in G
      /\ \A t \in DOMAIN partitions : Stored(t) \subseteq G
  BY DEF SinkInv, RowsAreGiven, RowsOf
<1>1. G \subseteq G'
  BY GivenGrows
<1>2. ParquetWrites \/ KafkaBegins => next_row \in G'
  BY GivenGrows
<1> HIDE DEF G
<1>3. \A n \in DOMAIN files' : RowsIn(files'[n]) \subseteq G'
  <2>1. CASE ParquetWrites
    <3>1. PICK type, columns : WriteOk(type, columns)
      BY <2>1 DEF ParquetWrites
    <3>2. PICK n : WritesFile(n, type)
      BY <3>1, WrittenFile
    <3>3. n \in OpenFiles => n \in DOMAIN files
      BY DEF OpenFiles, SinkInv, WritersAgreeWithFiles
    <3>4. QED
      BY <1>0, <1>1, <1>2, <2>1, <3>2, <3>3 DEF WritesFile
  <2>2. CASE ParquetFails
    <3>1. PICK type, columns : Called /\ WriteEventFails(type, columns)
      BY <2>2 DEF ParquetFails
    <3>2. \/ UNCHANGED files
          \/ \E n : CreatesFile(n, type)
      BY <3>1, FailedWrite DEF Called
    <3>3. QED
      BY <1>0, <1>1, <3>2 DEF CreatesFile
  <2>3. CASE ParquetCloses
    <3>1. PICK closed \in SUBSET DOMAIN writers : DrainWriters(closed)
      BY <2>3, ParquetClosesFacts
    <3>2. /\ files' \in [DOMAIN files -> FileType]
          /\ \A n \in DOMAIN files : RowsIn(files'[n]) = RowsIn(files[n])
      BY <3>1, DrainFacts
    <3>3. QED
      BY <1>0, <1>1, <3>2
  <2>4. CASE ParquetDrops \/ NewProcess \/ SinkIdles
    <3>1. UNCHANGED files
      BY <2>4 DEF ParquetDrops, DropSink, NewProcess, StorageReopen, LaterMillisecond, StorageDrop,
         SinkIdles, parquetVars, Parquet, Kafka
    <3>2. QED
      BY <1>0, <1>1, <3>1
  <2>5. CASE UNCHANGED parquetVars
    BY <1>0, <1>1, <2>5 DEF parquetVars
  <2>6. QED
    BY <2>1, <2>2, <2>3, <2>4, <2>5, KafkaSteps, StepKinds
<1>4. \A r \in queue' \union wire' : r.row \in G'
  <2>1. CASE UNCHANGED kafkaVars
    BY <1>0, <1>1, <2>1 DEF kafkaVars
  <2>2. CASE KafkaBegins
    BY <1>0, <1>1, <1>2, <2>2 DEF KafkaBegins, WriteBegins, Send
  <2>3. CASE SendOk \/ SendError \/ KafkaDrops
    BY <1>0, <1>1, <2>3 DEF SendOk, SendError, KafkaDrops, DropSink, Delivered, GivenUp,
       ProducerDrop, Kafka, Parquet, kafkaVars
  <2>4. CASE Broker
    <3>1. CASE \E m \in queue : Attempt(m)
      <4>1. PICK m \in queue : Attempt(m)
        BY <3>1
      <4>2. m \in [partition : TopicPartitions, row : Nat, attempts : 0 .. MaxAttempts]
        BY DEF SinkInv, SinkTypeOK
      <4>3. [m EXCEPT !.attempts = @ + 1].row = m.row
        BY <4>2
      <4>4. PICK q : q = [m EXCEPT !.attempts = @ + 1]
        OBVIOUS
      <4>5. /\ queue' = (queue \ {m}) \union {q} /\ q.row = m.row
            /\ wire' = wire \union {[partition |-> m.partition, row |-> m.row,
                                     attempt |-> m.attempts]}
        BY <4>1, <4>3, <4>4 DEF Attempt
      <4>6. QED
        BY <1>0, <1>1, <4>5
    <3>2. CASE \E request \in wire : Appended(request) \/ RequestLost(request)
      BY <1>0, <1>1, <3>2 DEF Appended, RequestLost
    <3>3. QED
      BY <2>4, <3>1, <3>2 DEF Broker, BrokerStep
  <2>5. ParquetWrites \/ ParquetFails \/ ParquetCloses \/ ParquetDrops \/ KafkaRefuses
        \/ NewProcess \/ SinkIdles => UNCHANGED kafkaVars
    BY DEF ParquetWrites, WriteOk, ParquetFails, ParquetCloses, ParquetDrops, Parquet,
       KafkaRefuses, NewProcess, SinkIdles
  <2>6. QED
    BY <2>1, <2>2, <2>3, <2>4, <2>5, StepKinds
<1>5. \A t \in DOMAIN partitions' : Stored(t)' \subseteq G'
  <2>1. CASE UNCHANGED partitions
    BY <1>0, <1>1, <2>1 DEF Stored, Partition
  <2>2. CASE \E request \in wire : Appended(request)
    <3>1. PICK request \in wire : Appended(request)
      BY <2>2
    <3>2. PICK t \in TopicPartitions, row \in Nat : TakesRequest(request, t, row)
      BY <3>1, AppendedFacts
    <3>3. row \in G /\ Stored(t) \subseteq G
      BY <1>0, <3>2 DEF Stored, Partition, TakesRequest
    <3>4. \A u \in DOMAIN partitions' : u = t \/ u \in DOMAIN partitions
      BY <3>2 DEF TakesRequest
    <3>5. ASSUME NEW u \in DOMAIN partitions'
          PROVE  Stored(u)' \subseteq G'
      <4>1. CASE u = t
        <5>1. Stored(u)' = Stored(t) \union {row}
          BY <3>2, <4>1 DEF TakesRequest
        <5>2. QED
          BY <1>1, <3>3, <5>1
      <4>2. CASE u # t
        <5>1. Stored(u)' = Stored(u) /\ Stored(u) \subseteq G
          BY <1>0, <3>2, <3>4, <4>2 DEF TakesRequest
        <5>2. QED
          BY <1>1, <5>1
      <4>3. QED
        BY <4>1, <4>2
    <3>6. QED
      BY <3>5
  <2>3. CASE ~\E request \in wire : Appended(request)
    BY <2>1, <2>3, StepKinds DEF ParquetWrites, WriteOk, ParquetFails, ParquetCloses,
       ParquetDrops, Parquet, KafkaRefuses, NewProcess, SinkIdles, kafkaVars, KafkaBegins,
       WriteBegins, Send, SendOk, Delivered, SendError, GivenUp, KafkaDrops, DropSink,
       ProducerDrop, Kafka, Broker, BrokerStep, Attempt, RequestLost
  <2>4. QED
    BY <2>2, <2>3
<1>6. QED
  BY <1>3, <1>4, <1>5 DEF RowsAreGiven, RowsOf, G

LEMMA OneSinkStep ==
  ASSUME SinkInv, [Next]_vars
  PROVE  OneSinkIsUsed'
<1>0. OneSinkIsUsed /\ UNCHANGED options
  BY GivenGrows DEF SinkInv
<1>1. CASE ParquetWrites \/ ParquetFails \/ ParquetCloses
  <2>1. options.sink = "parquet" /\ UNCHANGED kafkaVars
    BY <1>1 DEF ParquetWrites, WriteOk, ParquetFails, ParquetCloses, Parquet
  <2>2. protocol' \in {"open", "done"}
    BY <1>1, ParquetClosesFacts DEF ParquetWrites, WriteOk, ParquetFails, Called
  <2>3. QED
    BY <1>0, <2>1, <2>2 DEF OneSinkIsUsed, kafkaVars
<1>2. CASE ParquetDrops \/ NewProcess
  BY <1>0, <1>2 DEF ParquetDrops, DropSink, StorageDrop, NewProcess, StorageReopen, LaterMillisecond,
     Parquet, Kafka, OneSinkIsUsed, kafkaVars
<1>3. CASE SinkIdles
  BY <1>0, <1>3 DEF SinkIdles, parquetVars, kafkaVars, OneSinkIsUsed
<1>4. CASE KafkaRefuses \/ KafkaBegins \/ SendOk \/ SendError \/ Broker \/ KafkaDrops
  BY <1>0, <1>4, KafkaSteps DEF parquetVars, OneSinkIsUsed
<1>5. QED
  BY <1>1, <1>2, <1>3, <1>4, StepKinds

\* The steps of KafkaStorage meet no file.
LEMMA NoFiles ==
  ASSUME SinkInv,
         KafkaRefuses \/ KafkaBegins \/ SendOk \/ SendError \/ Broker \/ KafkaDrops
  PROVE  files' = EmptyMap /\ writers' = EmptyMap
BY KafkaSteps DEF parquetVars, SinkInv, OneSinkIsUsed

LEMMA WritersAgreeStep ==
  ASSUME SinkInv, [Next]_vars
  PROVE  WritersAgreeWithFiles'
<1> USE DEF WritersAgreeWithFiles
<1>0. WritersAgreeWithFiles
  BY DEF SinkInv
<1>1. CASE ParquetWrites
  <2>1. PICK type, columns : WriteOk(type, columns)
    BY <1>1 DEF ParquetWrites
  <2>2. PICK n : WritesFile(n, type)
    BY <2>1, WrittenFile
  <2>3. QED
    BY <1>0, <2>2 DEF WritesFile
<1>2. CASE ParquetFails
  <2>1. PICK type, columns : Called /\ WriteEventFails(type, columns)
    BY <1>2 DEF ParquetFails
  <2>2. CASE UNCHANGED <<writers, files, clock, file_set_id>>
    BY <1>0, <2>2
  <2>3. CASE UNCHANGED file_set_id /\ \E n : CreatesFile(n, type)
    BY <1>0, <2>3 DEF OpenFiles, CreatesFile
  <2>4. QED
    BY <2>1, <2>2, <2>3, FailedWrite DEF Called
<1>3. CASE ParquetCloses
  BY <1>3, ParquetClosesFacts, DrainFacts DEF EmptyMap
<1>4. CASE ParquetDrops \/ NewProcess
  BY <1>4 DEF ParquetDrops, DropSink, StorageDrop, NewProcess, StorageReopen, LaterMillisecond,
     Parquet, Kafka, EmptyMap
<1>5. CASE SinkIdles
  BY <1>0, <1>5 DEF SinkIdles, parquetVars
<1>6. CASE KafkaRefuses \/ KafkaBegins \/ SendOk \/ SendError \/ Broker \/ KafkaDrops
  BY <1>6, NoFiles DEF EmptyMap
<1>7. QED
  BY <1>1, <1>2, <1>3, <1>4, <1>5, <1>6, StepKinds

LEMMA NamesAreFreshStep ==
  ASSUME SinkInv, [Next]_vars
  PROVE  NamesAreFresh'
<1> USE DEF NamesAreFresh, RowsOf
<1>0. /\ NamesAreFresh /\ clock \in Nat /\ file_set_id \in Nat
      /\ \A n \in DOMAIN files : n.stamp \in Nat /\ n.stamp <= clock /\ n.set \in Nat
      /\ WritersAgreeWithFiles
  BY MaxRotationsAssumption DEF SinkInv, SinkTypeOK
<1>1. CASE ParquetWrites
  <2>1. PICK type, columns : WriteOk(type, columns)
    BY <1>1 DEF ParquetWrites
  <2>2. PICK n : WritesFile(n, type)
    BY <2>1, WrittenFile
  <2>3. OpenFiles' = OpenFiles \union {n}
    BY <2>2 DEF OpenFiles, WritesFile
  <2>4. protocol = "open" /\ clock' \in Nat /\ clock <= clock'
    BY <1>0, <2>1, <2>2, MaxClockAssumption DEF WriteOk, Called, WritesFile
  <2>5. ASSUME NEW m \in DOMAIN files, m # n
        PROVE  /\ m.stamp \in 0 .. clock' /\ m.set \in Nat
               /\ m \notin OpenFiles' => \/ m.stamp < clock'
                                         \/ m.set < file_set_id'
                                         \/ RowsIn(files'[m]) = {} /\ ~files'[m].footer
    BY <1>0, <2>2, <2>3, <2>4, <2>5 DEF WritesFile
  <2>6. QED
    BY <1>0, <2>2, <2>3, <2>5 DEF WritesFile
<1>2. CASE ParquetFails
  <2>1. PICK type, columns : Called /\ WriteEventFails(type, columns)
    BY <1>2 DEF ParquetFails
  <2>2. protocol = "open" /\ UNCHANGED protocol
    BY <1>2 DEF ParquetFails, Called
  <2>3. CASE UNCHANGED <<writers, files, clock, file_set_id>>
    BY <1>0, <2>2, <2>3 DEF OpenFiles
  <2>4. CASE UNCHANGED file_set_id /\ \E n : CreatesFile(n, type)
    <3>1. PICK n : CreatesFile(n, type)
      BY <2>4
    <3>2. OpenFiles \subseteq OpenFiles'
      BY <3>1 DEF OpenFiles, CreatesFile
    <3>3. clock' \in Nat /\ clock <= clock'
      BY <1>0, <3>1, MaxClockAssumption DEF CreatesFile
    <3>4. ASSUME NEW m \in DOMAIN files, m # n
          PROVE  /\ m.stamp \in 0 .. clock' /\ m.set \in Nat
                 /\ m \notin OpenFiles' => \/ m.stamp < clock'
                                           \/ m.set < file_set_id'
                                           \/ RowsIn(files'[m]) = {} /\ ~files'[m].footer
      BY <1>0, <2>2, <2>4, <3>1, <3>2, <3>3, <3>4 DEF CreatesFile
    <3>5. QED
      BY <1>0, <3>1, <3>4 DEF CreatesFile
  <2>5. QED
    BY <2>1, <2>2, <2>3, <2>4, FailedWrite
<1>3. CASE ParquetCloses
  <2>1. PICK closed \in SUBSET DOMAIN writers : DrainWriters(closed)
    BY <1>3, ParquetClosesFacts
  <2>2. /\ files' \in [DOMAIN files -> FileType] /\ UNCHANGED clock
        /\ \A n \in DOMAIN files :
              /\ RowsIn(files'[n]) = RowsIn(files[n])
              /\ files'[n].footer <=> files[n].footer \/ \E t \in closed : writers[t] = n
    BY <2>1, DrainFacts
  <2>3. CASE RotateOk
    <3>1. file_set_id' = file_set_id + 1 /\ protocol = "open"
      BY <1>3, <2>3, ParquetClosesFacts
    <3>2. ASSUME NEW n \in DOMAIN files
          PROVE  \/ n.stamp < clock \/ n.set < file_set_id'
                 \/ RowsIn(files'[n]) = {} /\ ~files'[n].footer
      <4>1. CASE n \in OpenFiles
        BY <1>0, <3>1, <4>1 DEF OpenFiles, WritersAgreeWithFiles
      <4>2. CASE n \notin OpenFiles
        <5>1. ~\E t \in closed : writers[t] = n
          BY <4>2 DEF OpenFiles
        <5>2. \/ n.stamp < clock \/ n.set < file_set_id
              \/ RowsIn(files[n]) = {} /\ ~files[n].footer
          BY <1>0, <3>1, <4>2
        <5>3. QED
          BY <1>0, <2>2, <3>1, <5>1, <5>2
      <4>3. QED
        BY <4>1, <4>2
    <3>3. QED
      BY <1>0, <2>2, <3>2
  <2>4. CASE ~RotateOk
    BY <1>0, <1>3, <2>2, <2>4, ParquetClosesFacts
  <2>5. QED
    BY <2>3, <2>4
<1>4. CASE ParquetDrops
  BY <1>0, <1>4 DEF ParquetDrops, DropSink, StorageDrop, Parquet, Kafka
<1>5. CASE NewProcess
  BY <1>0, <1>5 DEF NewProcess, StorageReopen, LaterMillisecond
<1>6. CASE SinkIdles
  BY <1>0, <1>6 DEF SinkIdles, parquetVars, OpenFiles
<1>7. CASE KafkaRefuses \/ KafkaBegins \/ SendOk \/ SendError \/ Broker \/ KafkaDrops
  BY <1>7, NoFiles DEF EmptyMap
<1>8. QED
  BY <1>1, <1>2, <1>3, <1>4, <1>5, <1>6, <1>7, StepKinds

\* The steps that leave Kafka alone and the rows that are accepted in it.
LEMMA OtherSteps ==
  ASSUME SinkInv, [Next]_vars
  PROVE  \/ UNCHANGED kafkaVars /\ queue = {}
         \/ UNCHANGED <<kafkaVars, protocol, next_row, accepted>>
         \/ KafkaBegins \/ SendOk \/ SendError \/ Broker \/ KafkaDrops
<1>1. CASE ParquetWrites \/ ParquetFails \/ ParquetCloses \/ ParquetDrops
  BY <1>1 DEF ParquetWrites, WriteOk, ParquetFails, ParquetCloses, ParquetDrops, Parquet,
     SinkInv, OneSinkIsUsed
<1>2. CASE KafkaRefuses \/ NewProcess
  BY <1>2 DEF KafkaRefuses, Called, NewProcess, SinkInv, QueueHoldsLastRow
<1>3. CASE SinkIdles
  BY <1>3 DEF SinkIdles, SinkInv, QueueHoldsLastRow, callVars
<1>4. QED
  BY <1>1, <1>2, <1>3, StepKinds

LEMMA QueueStep ==
  ASSUME SinkInv, [Next]_vars
  PROVE  QueueHoldsLastRow'
<1> USE DEF QueueHoldsLastRow
<1>0. /\ QueueHoldsLastRow /\ next_row \in Nat
      /\ \A m \in queue : m \in [partition : TopicPartitions, row : Nat, attempts : 0 .. MaxAttempts]
      /\ accepted \subseteq 1 .. next_row - 1
      /\ \A r \in wire : r.row \in 1 .. next_row - 1
  BY DEF SinkInv, SinkTypeOK, RowsAreGiven
<1>1. CASE \/ UNCHANGED kafkaVars /\ queue = {}
           \/ UNCHANGED <<kafkaVars, protocol, next_row, accepted>>
  BY <1>0, <1>1 DEF kafkaVars
<1>2. CASE KafkaBegins
  <2>1. /\ queue = {} /\ next_row' = next_row + 1 /\ UNCHANGED <<wire, accepted>>
    BY <1>0, <1>2, KafkaSteps
  <2>2. PICK m : \E type \in Types :
          /\ m = [partition |-> PartitionFor(type, TxHash[next_row]),
                  row |-> next_row, attempts |-> 0]
          /\ queue' = {m} /\ protocol' = "sending"
    BY <1>2, <2>1 DEF KafkaBegins, WriteBegins, Send
  <2>3. m.row = next_row /\ next_row \notin 1 .. next_row - 1
    BY <1>0, <2>2
  <2>4. QED
    BY <1>0, <2>1, <2>2, <2>3
<1>3. CASE SendOk \/ SendError
  BY <1>0, <1>3 DEF SendOk, SendError, Delivered, GivenUp
<1>4. CASE KafkaDrops
  BY <1>4, KafkaSteps
<1>5. CASE Broker
  <2>1. UNCHANGED <<protocol, next_row, accepted>>
    BY <1>5, KafkaSteps
  <2>2. CASE \E m \in queue : Attempt(m)
    <3>1. PICK m \in queue : Attempt(m)
      BY <2>2
    <3>2. PICK q, r : /\ q = [m EXCEPT !.attempts = @ + 1]
                      /\ r = [partition |-> m.partition, row |-> m.row, attempt |-> m.attempts]
      OBVIOUS
    <3>3. /\ q.row = m.row /\ q.partition = m.partition /\ r.row = m.row /\ r.partition = m.partition
      BY <1>0, <3>2
    <3>4. queue' = {q} /\ wire' = wire \union {r}
      BY <1>0, <3>1, <3>2 DEF Attempt
    <3>5. protocol = "sending"
      BY <1>0, <3>1
    <3>6. QED
      BY <1>0, <2>1, <3>3, <3>4, <3>5
  <2>3. CASE \E request \in wire : Appended(request) \/ RequestLost(request)
    BY <1>0, <2>1, <2>3 DEF Appended, RequestLost
  <2>4. QED
    BY <1>5, <2>2, <2>3 DEF Broker, BrokerStep
<1>6. QED
  BY <1>1, <1>2, <1>3, <1>4, <1>5, OtherSteps

\* Partitions only grow.
LEMMA StoredGrows ==
  ASSUME SinkInv, NEW request \in wire, Appended(request), NEW t \in DOMAIN partitions
  PROVE  t \in DOMAIN partitions' /\ Stored(t) \subseteq Stored(t)'
<1>1. PICK u \in TopicPartitions, row \in Nat : TakesRequest(request, u, row)
  BY AppendedFacts
<1>2. t \in DOMAIN partitions'
  BY <1>1 DEF TakesRequest
<1>3. Stored(t)' = Stored(t) \union {row} \/ Stored(t)' = Stored(t)
  BY <1>1, <1>2 DEF TakesRequest
<1>4. QED
  BY <1>2, <1>3

\* The key of a message is fixed when write_event makes it.
LEMMA RowsFollowKeysStep ==
  ASSUME SinkInv, [Next]_vars
  PROVE  RowsFollowKeys'
<1> USE DEF RowsFollowKeys
<1>0. /\ RowsFollowKeys
      /\ queue \subseteq [partition : TopicPartitions, row : Nat, attempts : 0 .. MaxAttempts]
  BY DEF SinkInv, SinkTypeOK
<1>1. ASSUME UNCHANGED partitions
      PROVE  \A p \in DOMAIN partitions' : \A i \in Stored(p)' :
               p = PartitionFor(p.topic, TxHash[i])
  BY <1>0, <1>1 DEF Stored, Partition
<1>2. CASE queue' \subseteq queue /\ wire' \subseteq wire /\ UNCHANGED partitions
  BY <1>0, <1>1, <1>2
<1>3. CASE KafkaBegins
  <2>1. PICK type, m :
          /\ m = [partition |-> PartitionFor(type, TxHash[next_row]),
                  row |-> next_row, attempts |-> 0]
          /\ queue' = queue \union {m} /\ UNCHANGED <<wire, partitions>>
    BY <1>3 DEF KafkaBegins, WriteBegins, Send
  <2>2. /\ m.row = next_row /\ m.partition = PartitionFor(type, TxHash[next_row])
        /\ m.partition.topic = type
    BY <2>1 DEF PartitionFor
  <2>3. QED
    BY <1>0, <1>1, <2>1, <2>2
<1>4. CASE Broker
  <2>1. CASE \E m \in queue : Attempt(m)
    <3>1. PICK m \in queue : Attempt(m)
      BY <2>1
    <3>2. PICK q, r : /\ q = [m EXCEPT !.attempts = @ + 1]
                      /\ r = [partition |-> m.partition, row |-> m.row, attempt |-> m.attempts]
      OBVIOUS
    <3>3. q.row = m.row /\ q.partition = m.partition /\ r.row = m.row /\ r.partition = m.partition
      BY <1>0, <3>2
    <3>4. /\ queue' = (queue \ {m}) \union {q} /\ wire' = wire \union {r}
          /\ UNCHANGED partitions
      BY <3>1, <3>2 DEF Attempt
    <3>5. QED
      BY <1>0, <1>1, <3>3, <3>4
  <2>2. CASE \E request \in wire : Appended(request)
    <3>1. PICK request \in wire : Appended(request)
      BY <2>2
    <3>2. PICK u \in TopicPartitions, row \in Nat : TakesRequest(request, u, row)
      BY <3>1, AppendedFacts
    <3>3. u = PartitionFor(u.topic, TxHash[row])
      BY <1>0, <3>2 DEF TakesRequest
    <3>4. ASSUME NEW p \in DOMAIN partitions', NEW i \in Stored(p)'
          PROVE  p = PartitionFor(p.topic, TxHash[i])
      <4>1. (p = u /\ i = row) \/ i \in Stored(p)
        BY <3>2 DEF TakesRequest
      <4>2. i \in Stored(p) => p \in DOMAIN partitions
        BY DEF Stored, Partition
      <4>3. QED
        BY <1>0, <3>3, <4>1, <4>2
    <3>5. UNCHANGED queue /\ wire' \subseteq wire
      BY <3>1 DEF Appended
    <3>6. QED
      BY <1>0, <3>4, <3>5
  <2>3. CASE \E request \in wire : RequestLost(request)
    BY <1>2, <2>3 DEF RequestLost
  <2>4. QED
    BY <1>4, <2>1, <2>2, <2>3 DEF Broker, BrokerStep
<1>5. CASE SendOk \/ SendError
  BY <1>2, <1>5 DEF SendOk, SendError, Delivered, GivenUp
<1>6. CASE KafkaDrops
  BY <1>2, <1>6, KafkaSteps
<1>7. CASE UNCHANGED kafkaVars
  BY <1>2, <1>7 DEF kafkaVars
<1>8. QED
  BY <1>3, <1>4, <1>5, <1>6, <1>7, OtherSteps

LEMMA AcceptedIsStoredStep ==
  ASSUME SinkInv, [Next]_vars
  PROVE  AcceptedIsStored'
<1> USE DEF AcceptedIsStored
<1>0. /\ AcceptedIsStored /\ OneSinkIsUsed /\ UNCHANGED options
      /\ \A t : t \notin DOMAIN partitions => Stored(t) = {}
  BY GivenGrows DEF SinkInv, Stored, Partition
<1>1. CASE UNCHANGED <<kafkaVars, accepted>>
  BY <1>0, <1>1 DEF kafkaVars, StoredRows, Stored, Partition
<1>2. CASE options.sink # "kafka" /\ UNCHANGED kafkaVars
  <2>1. options.sink = "parquet"
    BY <1>2, OptionsAssumption DEF SinkInv, SinkTypeOK
  <2>2. QED
    BY <1>0, <1>2, <2>1 DEF OneSinkIsUsed, kafkaVars
<1>3. CASE KafkaBegins \/ SendError \/ KafkaDrops
  BY <1>0, <1>3, KafkaSteps DEF StoredRows, Stored, Partition
<1>4. CASE SendOk
  <2>1. PICK m \in queue : Delivered(m) /\ accepted' = accepted \union {m.row}
    BY <1>4 DEF SendOk
  <2>2. UNCHANGED <<wire, partitions>> /\ m.row \in Stored(m.partition)
    BY <2>1 DEF Delivered
  <2>3. \A r \in wire : r.row = m.row => r.partition = m.partition
    BY DEF SinkInv, QueueHoldsLastRow
  <2>4. m.row \in StoredRows
    BY <1>0, <2>2 DEF StoredRows
  <2>5. UNCHANGED StoredRows /\ \A t : Stored(t)' = Stored(t)
    BY <2>2 DEF StoredRows, Stored, Partition
  <2>6. \A r \in wire : r.row \in accepted' => r.row \in Stored(r.partition)
    BY <1>0, <2>1, <2>2, <2>3
  <2>7. \A r \in wire' : r.row \in accepted' => r.row \in Stored(r.partition)'
    BY <2>2, <2>5, <2>6
  <2>8. QED
    BY <1>0, <2>1, <2>4, <2>5, <2>7
<1>5. CASE Broker
  <2>1. UNCHANGED accepted
    BY <1>5, KafkaSteps
  <2>2. CASE \E m \in queue : Attempt(m)
    <3>1. PICK m \in queue : Attempt(m)
      BY <2>2
    <3>2. m.row \notin accepted
      BY DEF SinkInv, QueueHoldsLastRow
    <3>3. UNCHANGED StoredRows /\ \A t : Stored(t)' = Stored(t)
      BY <3>1 DEF Attempt, StoredRows, Stored, Partition
    <3>4. \A r \in wire' : r.row \in accepted => r.row \in Stored(r.partition)
      BY <1>0, <3>1, <3>2 DEF Attempt
    <3>5. QED
      BY <1>0, <2>1, <3>3, <3>4
  <2>3. CASE \E request \in wire : Appended(request)
    <3>1. PICK request \in wire : Appended(request)
      BY <2>3
    <3>2. PICK u \in TopicPartitions, row \in Nat : TakesRequest(request, u, row)
      BY <3>1, AppendedFacts
    <3>3. StoredRows \subseteq StoredRows'
      BY <3>2 DEF TakesRequest
    <3>4. ASSUME NEW r \in wire', r.row \in accepted
          PROVE  r.row \in Stored(r.partition)'
      <4>1. r \in wire
        BY <3>1 DEF Appended
      <4>2. PICK t : t = r.partition
        OBVIOUS
      <4>3. r.row \in Stored(t) /\ t \in DOMAIN partitions
        BY <1>0, <3>4, <4>1, <4>2
      <4>4. r.row \in Stored(t)'
        BY <3>1, <4>3, StoredGrows
      <4>5. QED
        BY <4>2, <4>4
    <3>5. QED
      BY <1>0, <2>1, <3>3, <3>4
  <2>4. CASE \E request \in wire : RequestLost(request)
    BY <1>0, <2>1, <2>4 DEF RequestLost, StoredRows, Stored, Partition
  <2>5. QED
    BY <1>5, <2>2, <2>3, <2>4 DEF Broker, BrokerStep
<1>6. ParquetWrites => options.sink # "kafka" /\ UNCHANGED kafkaVars
  BY DEF ParquetWrites, WriteOk, Parquet
<1>7. ParquetFails \/ ParquetCloses \/ ParquetDrops \/ KafkaRefuses \/ NewProcess \/ SinkIdles
        => UNCHANGED <<kafkaVars, accepted>>
  BY ParquetClosesFacts DEF ParquetFails, ParquetDrops, Parquet, KafkaRefuses, NewProcess,
     SinkIdles, DropSink, callVars
<1>8. QED
  BY <1>1, <1>2, <1>3, <1>4, <1>5, <1>6, <1>7, StepKinds

LEMMA AcceptedIsFirstStep ==
  ASSUME SinkInv, [Next]_vars
  PROVE  AcceptedIsFirst'
<1> USE DEF AcceptedIsFirst
<1>0. AcceptedIsFirst
  BY DEF SinkInv
<1>1. CASE UNCHANGED <<partitions, accepted>>
  BY <1>0, <1>1 DEF Stored, Partition
<1>2. CASE partitions' = EmptyMap
  BY <1>2 DEF EmptyMap
<1>3. CASE SendOk
  <2>1. PICK m \in queue : Delivered(m) /\ accepted' = accepted \union {m.row}
    BY <1>3 DEF SendOk
  <2>2. UNCHANGED partitions /\ m.row = next_row - 1 /\ next_row \in Nat
    BY <2>1 DEF Delivered, SinkInv, QueueHoldsLastRow, SinkTypeOK
  <2>3. ASSUME NEW t \in DOMAIN partitions, NEW k \in DOMAIN partitions[t]
        PROVE  partitions[t][k] \in 1 .. next_row - 1
    <3>1. partitions[t][k] \in Stored(t)
      BY DEF Stored, Partition
    <3>2. QED
      BY <3>1 DEF SinkInv, RowsAreGiven
  <2>4. ASSUME NEW t \in DOMAIN partitions, NEW i \in accepted' \intersect Stored(t),
               NEW k \in DOMAIN partitions[t], i < partitions[t][k]
        PROVE  \E l \in 1 .. k - 1 : partitions[t][l] = i
    <3>1. i # m.row
      BY <2>2, <2>3, <2>4
    <3>2. i \in accepted \intersect Stored(t)
      BY <2>1, <3>1
    <3>3. QED
      BY <1>0, <2>4, <3>2
  <2>5. \A t : Stored(t)' = Stored(t)
    BY <2>2 DEF Stored, Partition
  <2>6. QED
    BY <2>2, <2>4, <2>5
<1>4. CASE Broker /\ \E request \in wire : Appended(request)
  <2>1. UNCHANGED accepted
    BY <1>4, KafkaSteps
  <2>2. PICK request \in wire : Appended(request)
    BY <1>4
  <2>3. PICK u \in TopicPartitions, row \in Nat : TakesRequest(request, u, row)
    BY <2>2, AppendedFacts
  <2>4. row \in accepted => row \in Stored(u)
    BY <2>3 DEF SinkInv, AcceptedIsStored, TakesRequest
  <2>5. PICK s : s = Partition(u)
    OBVIOUS
  <2>6. s \in Seq(Nat) /\ partitions'[u] = Append(s, row)
    BY <2>3, <2>5 DEF TakesRequest
  <2>7. /\ DOMAIN s = 1 .. Len(s) /\ Len(s) \in Nat
        /\ DOMAIN Append(s, row) = 1 .. (Len(s) + 1)
        /\ \A k \in 1 .. Len(s) : Append(s, row)[k] = s[k]
        /\ Append(s, row)[Len(s) + 1] = row
    BY <2>6, AppendValues, Zenon
  <2>8. ASSUME NEW i \in accepted, i \in Stored(u)',
               NEW k \in DOMAIN partitions'[u], i < partitions'[u][k]
        PROVE  \E l \in 1 .. k - 1 : partitions'[u][l] = i
    <3>1. u \in DOMAIN partitions'
      BY <2>3 DEF TakesRequest
    <3>2. Stored(u)' = Stored(u) \union {row}
      BY <2>3, <3>1 DEF TakesRequest
    <3>3. i \in Stored(u)
      BY <2>4, <2>8, <3>2
    <3>4. PICK j \in 1 .. Len(s) : s[j] = i
      BY <2>5, <2>7, <3>3 DEF Stored
    <3>5. CASE k = Len(s) + 1
      <4>1. j \in 1 .. k - 1 /\ partitions'[u][j] = i
        BY <2>6, <2>7, <3>4, <3>5
      <4>2. QED
        BY <4>1
    <3>6. CASE k \in 1 .. Len(s)
      <4>1. u \in DOMAIN partitions /\ s = partitions[u]
        BY <2>5, <2>7, <3>6 DEF Partition
      <4>2. i < partitions[u][k] /\ k \in DOMAIN partitions[u]
        BY <2>6, <2>7, <2>8, <3>6, <4>1
      <4>3. PICK l \in 1 .. k - 1 : partitions[u][l] = i
        BY <1>0, <2>8, <3>3, <4>1, <4>2
      <4>4. partitions'[u][l] = i
        BY <2>6, <2>7, <3>6, <4>1, <4>3
      <4>5. QED
        BY <4>3, <4>4
    <3>7. k \in 1 .. (Len(s) + 1)
      BY <2>6, <2>7
    <3>8. QED
      BY <2>7, <3>5, <3>6, <3>7
  <2>9. ASSUME NEW t \in DOMAIN partitions', t # u
        PROVE  t \in DOMAIN partitions /\ partitions'[t] = partitions[t] /\ Stored(t)' = Stored(t)
    BY <2>3, <2>9 DEF TakesRequest
  <2>10. ASSUME NEW t \in DOMAIN partitions', NEW i \in accepted', i \in Stored(t)',
                NEW k \in DOMAIN partitions'[t], i < partitions'[t][k]
         PROVE  \E l \in 1 .. k - 1 : partitions'[t][l] = i
    <3>1. CASE t = u
      BY <2>1, <2>8, <2>10, <3>1
    <3>2. CASE t # u
      <4>1. t \in DOMAIN partitions /\ partitions'[t] = partitions[t] /\ i \in Stored(t)
        BY <2>9, <2>10, <3>2
      <4>2. QED
        BY <1>0, <2>1, <2>10, <4>1
    <3>3. QED
      BY <3>1, <3>2
  <2>11. QED
    BY <2>10
<1>5. CASE KafkaBegins \/ SendError \/ KafkaDrops
  BY <1>1, <1>5, KafkaSteps
<1>6. CASE Broker /\ ~\E request \in wire : Appended(request)
  BY <1>1, <1>6, KafkaSteps DEF Broker, BrokerStep, Attempt, RequestLost
<1>7. ParquetWrites => partitions' = EmptyMap
  BY DEF ParquetWrites, WriteOk, Parquet, SinkInv, OneSinkIsUsed, kafkaVars
<1>8. ParquetFails \/ ParquetCloses \/ ParquetDrops \/ KafkaRefuses \/ NewProcess \/ SinkIdles
        => UNCHANGED <<partitions, accepted>>
  BY ParquetClosesFacts DEF ParquetFails, ParquetDrops, Parquet, KafkaRefuses, NewProcess,
     SinkIdles, DropSink, callVars, kafkaVars
<1>9. QED
  BY <1>1, <1>2, <1>3, <1>4, <1>5, <1>6, <1>7, <1>8, StepKinds

-----------------------------------------------------------------------------
LEMMA InitSinkInv == Init => SinkInv
<1> SUFFICES ASSUME Init PROVE SinkInv
  OBVIOUS
<1> USE DEF Init, StorageInit, KafkaInit, EmptyMap
<1>1. SinkTypeOK
  BY MaxRowsAssumption, MaxRotationsAssumption, MaxClockAssumption DEF SinkTypeOK
<1>2. RowsAreGiven /\ OneSinkIsUsed /\ WritersAgreeWithFiles /\ NamesAreFresh
  BY DEF RowsAreGiven, OneSinkIsUsed, WritersAgreeWithFiles, NamesAreFresh
<1>3. QueueHoldsLastRow /\ RowsFollowKeys /\ AcceptedIsStored /\ AcceptedIsFirst
  BY DEF QueueHoldsLastRow, RowsFollowKeys, AcceptedIsStored, AcceptedIsFirst
<1>4. QED
  BY <1>1, <1>2, <1>3 DEF SinkInv

LEMMA NextSinkInv == SinkInv /\ [Next]_vars => SinkInv'
<1> SUFFICES ASSUME SinkInv, [Next]_vars PROVE SinkInv'
  OBVIOUS
<1>1. QED
  BY SinkTypeStep, RowsAreGivenStep, OneSinkStep, WritersAgreeStep, NamesAreFreshStep,
     QueueStep, RowsFollowKeysStep, AcceptedIsStoredStep, AcceptedIsFirstStep DEF SinkInv

\* The invariant holds of either storage under every caller that keeps the protocol.
THEOREM SinkInvariance == Spec => []SinkInv
<1>1. QED
  BY InitSinkInv, NextSinkInv, PTL DEF Spec

\* Two open ArrowWriters never share a file, and none writes to a closed one.
THEOREM WritersApart == Spec => []WritersAreApart
<1>1. SinkInv => WritersAreApart
  BY DEF SinkInv, WritersAgreeWithFiles, WritersAreApart
<1>2. QED
  BY <1>1, SinkInvariance, PTL

\* Every nonempty set of numbers has a least one.
LEMMA LeastNumber ==
  ASSUME NEW T, T \subseteq Nat, T # {}
  PROVE  \E x \in T : \A y \in T : x <= y
<1>1. PICK R : R = OpToRel(<, Nat)
  OBVIOUS
<1>2. IsWellFoundedOn(R, Nat)
  BY <1>1, NatLessThanWellFounded
<1>3. PICK x \in T : \A y \in T : ~ (<<y, x>> \in R)
  BY <1>2, WFMin
<1>4. ASSUME NEW y \in T, y < x PROVE <<y, x>> \in R
  BY <1>1, <1>4 DEF OpToRel
<1>5. \A y \in T : ~ (y < x)
  BY <1>3, <1>4
<1>6. x \in Nat /\ \A y \in T : y \in Nat
  OBVIOUS
<1>7. \A y \in T : x <= y
  BY <1>5, <1>6
<1>8. QED
  BY <1>7

\* FirstAt is the first place of a row that is stored.
LEMMA FirstAtFacts ==
  ASSUME NEW t, Partition(t) \in Seq(Nat), NEW row \in Stored(t)
  PROVE  /\ FirstAt(t, row) \in DOMAIN Partition(t)
         /\ Partition(t)[FirstAt(t, row)] = row
         /\ \A k \in DOMAIN Partition(t) : Partition(t)[k] = row => FirstAt(t, row) <= k
<1>1. PICK s : s = Partition(t)
  OBVIOUS
<1>2. s \in Seq(Nat) /\ DOMAIN s = 1 .. Len(s) /\ Len(s) \in Nat
  BY <1>1
<1>3. PICK T : T = {k \in DOMAIN s : s[k] = row}
  OBVIOUS
<1>4. T \subseteq Nat /\ T # {}
  BY <1>1, <1>2, <1>3 DEF Stored
<1>5. PICK k \in T : \A j \in T : k <= j
  BY <1>4, LeastNumber
<1>6. k \in DOMAIN s /\ s[k] = row /\ \A i \in 1 .. k - 1 : s[i] # row
  <2>1. k \in DOMAIN s /\ s[k] = row /\ k \in 1 .. Len(s)
    BY <1>2, <1>3
  <2>2. ASSUME NEW i \in 1 .. k - 1 PROVE s[i] # row
    <3>1. i \in DOMAIN s /\ ~(k <= i)
      BY <1>2, <2>1
    <3>2. QED
      BY <1>3, <1>5, <3>1
  <2>3. QED
    BY <2>1, <2>2
<1>7. PICK f : f = FirstAt(t, row)
  OBVIOUS
<1>8. f \in DOMAIN s /\ s[f] = row /\ \A i \in 1 .. f - 1 : s[i] # row
  BY <1>1, <1>6, <1>7 DEF FirstAt
<1>9. ASSUME NEW j \in DOMAIN s, s[j] = row PROVE f <= j
  BY <1>2, <1>8, <1>9
<1>10. QED
  BY <1>1, <1>7, <1>8, <1>9

\* A consumer of a partition that skips repeated rows reads the accepted ones in the
\* order write_event was called, whatever is lost, repeated or late on the wire; and
\* the rows of one type and transaction are in one partition.
THEOREM TransactionsInOrder == Spec => []TransactionsAreInOrder
<1>1. ASSUME SinkInv, NEW t \in DOMAIN partitions, NEW i \in accepted \intersect Stored(t),
             NEW j \in accepted \intersect Stored(t), i < j
      PROVE  FirstAt(t, i) < FirstAt(t, j)
  <2>1. Partition(t) = partitions[t] /\ Partition(t) \in Seq(Nat)
    BY <1>1 DEF Partition, SinkInv, SinkTypeOK
  <2>2. PICK f, g : f = FirstAt(t, i) /\ g = FirstAt(t, j)
    OBVIOUS
  <2>3. /\ f \in DOMAIN partitions[t] /\ g \in DOMAIN partitions[t] /\ partitions[t][g] = j
        /\ \A k \in DOMAIN partitions[t] : partitions[t][k] = i => f <= k
    BY <1>1, <2>1, <2>2, FirstAtFacts
  <2>4. PICK l \in 1 .. g - 1 : partitions[t][l] = i
    BY <1>1, <2>3 DEF SinkInv, AcceptedIsFirst
  <2>5. /\ DOMAIN partitions[t] = 1 .. Len(partitions[t]) /\ Len(partitions[t]) \in Nat
    BY <2>1
  <2>6. l \in DOMAIN partitions[t] /\ l < g /\ l \in Nat /\ f \in Nat /\ g \in Nat
    BY <2>3, <2>5
  <2>7. f <= l
    BY <2>3, <2>4, <2>6
  <2>8. QED
    BY <2>2, <2>6, <2>7
<1>2. ASSUME SinkInv, NEW p \in DOMAIN partitions, NEW q \in DOMAIN partitions,
             NEW i \in Stored(p), NEW j \in Stored(q),
             p.topic = q.topic, TxHash[i] = TxHash[j]
      PROVE  p = q
  <2>1. /\ p = PartitionFor(p.topic, TxHash[i])
        /\ q = PartitionFor(q.topic, TxHash[j])
    BY <1>2 DEF SinkInv, RowsFollowKeys
  <2>2. QED
    BY <1>2, <2>1
<1>3. SinkInv => TransactionsAreInOrder
  BY <1>1, <1>2 DEF TransactionsAreInOrder
<1>4. QED
  BY <1>3, SinkInvariance, PTL

-----------------------------------------------------------------------------
(* The contract of EventSink *)

\* The rows of files that are open or closed follow from these.
LEMMA RowsOfFiles ==
  ASSUME SinkInv
  PROVE  /\ \A n \in OpenFiles : n \in DOMAIN files /\ ~files[n].footer
         /\ ReadableRows \subseteq 1 .. next_row - 1
         /\ StoredRows \subseteq 1 .. next_row - 1
         /\ accepted \subseteq 1 .. next_row - 1
         /\ next_row \in Nat
<1>1. \A n \in OpenFiles : n \in DOMAIN files /\ ~files[n].footer
  BY DEF SinkInv, WritersAgreeWithFiles, OpenFiles
<1>2. ReadableRows \subseteq 1 .. next_row - 1
  BY DEF SinkInv, RowsAreGiven, ReadableRows
<1>3. StoredRows \subseteq 1 .. next_row - 1
  BY DEF SinkInv, RowsAreGiven, StoredRows
<1>4. QED
  BY <1>1, <1>2, <1>3 DEF SinkInv, SinkTypeOK

\* write_event of ParquetStorage accepts its row, which is pending.
LEMMA WritesContract ==
  ASSUME SinkInv, [Next]_vars, ParquetWrites
  PROVE  Contract!SinkNext
<1> USE DEF RowsOf
<1>1. PICK type, columns : WriteOk(type, columns)
  BY DEF ParquetWrites
<1>2. PICK n : WritesFile(n, type)
  BY <1>1, WrittenFile
<1>3. /\ protocol = "open" /\ UNCHANGED <<protocol, partitions>>
      /\ next_row <= MaxRows /\ next_row' = next_row + 1
      /\ accepted' = accepted \union {next_row}
  BY <1>1 DEF WriteOk, Called, Parquet, kafkaVars
<1>4. \A m \in OpenFiles : m \in DOMAIN files /\ ~files[m].footer
  BY RowsOfFiles
<1>5. OpenRows' = OpenRows \union {next_row}
  <2>1. OpenFiles' = OpenFiles \union {n}
    BY <1>2 DEF OpenFiles, WritesFile
  <2>2. \A m \in OpenFiles : m # n => RowsIn(files'[m]) = RowsIn(files[m])
    BY <1>2, <1>4 DEF WritesFile
  <2>3. \/ n \in OpenFiles /\ RowsIn(files'[n]) = RowsIn(files[n]) \union {next_row}
        \/ n \notin OpenFiles /\ RowsIn(files'[n]) = {next_row}
    BY <1>2 DEF WritesFile
  <2>4. QED
    BY <2>1, <2>2, <2>3 DEF OpenRows
<1>6. UNCHANGED ReadableRows
  <2>1. n \in DOMAIN files => ~files[n].footer
    BY <1>2, <1>4 DEF WritesFile
  <2>2. /\ DOMAIN files' = DOMAIN files \union {n} /\ ~files'[n].footer
        /\ \A m \in DOMAIN files : m # n => files'[m] = files[m]
    BY <1>2 DEF WritesFile
  <2>3. {m \in DOMAIN files' : files'[m].footer} = {m \in DOMAIN files : files[m].footer}
    BY <2>1, <2>2
  <2>4. \A m \in DOMAIN files : files[m].footer => files'[m] = files[m]
    BY <2>1, <2>2
  <2>5. QED
    BY <2>3, <2>4 DEF ReadableRows
<1>7. UNCHANGED StoredRows
  BY <1>3 DEF StoredRows, Stored, Partition
<1>8. PICK row : row = next_row
  OBVIOUS
<1>9. /\ row \in 1 .. MaxRows /\ row \notin 1 .. next_row - 1
      /\ 1 .. next_row' - 1 = (1 .. next_row - 1) \union {row}
  BY <1>3, <1>8, MaxRowsAssumption DEF SinkInv, SinkTypeOK
<1>10. row \notin accepted /\ {row} \ (ReadableRows \union StoredRows) = {row}
  BY <1>9, RowsOfFiles
<1>11. Contract!Accept(row)
  BY <1>3, <1>5, <1>6, <1>7, <1>8, <1>9, <1>10 DEF Contract!Accept
<1>12. QED
  BY <1>9, <1>11 DEF Contract!SinkNext

\* A write_event that fails, or that waits for Kafka, was given its row.
LEMMA GivesContract ==
  ASSUME SinkInv, [Next]_vars, ParquetFails \/ KafkaRefuses \/ KafkaBegins
  PROVE  Contract!SinkNext
<1> USE DEF RowsOf
<1>1. /\ protocol = "open" /\ protocol' \in {"open", "sending"}
      /\ UNCHANGED <<partitions, accepted>>
      /\ next_row <= MaxRows /\ next_row' = next_row + 1
  BY DEF ParquetFails, KafkaRefuses, KafkaBegins, Called, Parquet, WriteBegins, Send,
     kafkaVars
<1>2. UNCHANGED <<OpenRows, ReadableRows>>
  <2>1. CASE UNCHANGED <<writers, files>>
    BY <2>1 DEF OpenRows, ReadableRows, OpenFiles
  <2>2. CASE \E type, n : CreatesFile(n, type)
    <3>1. PICK type, n : CreatesFile(n, type)
      BY <2>2
    <3>2. /\ DOMAIN files' = DOMAIN files \union {n} /\ ~files'[n].footer
          /\ \A m \in DOMAIN files : m # n => files'[m] = files[m]
          /\ n \in DOMAIN files => ~files[n].footer
          /\ n \notin OpenFiles /\ RowsIn(files'[n]) = {}
      BY <3>1 DEF CreatesFile
    <3>3. OpenFiles' = OpenFiles \/ OpenFiles' = OpenFiles \union {n}
      BY <3>1 DEF CreatesFile, OpenFiles
    <3>4. \A m \in OpenFiles : RowsIn(files'[m]) = RowsIn(files[m])
      BY <3>2, RowsOfFiles
    <3>5. UNCHANGED OpenRows
      BY <3>2, <3>3, <3>4 DEF OpenRows
    <3>6. {m \in DOMAIN files' : files'[m].footer} = {m \in DOMAIN files : files[m].footer}
      BY <3>2
    <3>7. \A m \in DOMAIN files : files[m].footer => files'[m] = files[m]
      BY <3>2
    <3>8. UNCHANGED ReadableRows
      BY <3>6, <3>7 DEF ReadableRows
    <3>9. QED
      BY <3>5, <3>8
  <2>3. CASE ParquetFails
    BY <1>1, <2>1, <2>2, <2>3, FailedWrite DEF ParquetFails
  <2>4. CASE KafkaRefuses \/ KafkaBegins
    BY <2>1, <2>4, KafkaSteps DEF parquetVars
  <2>5. QED
    BY <2>3, <2>4
<1>3. UNCHANGED StoredRows
  BY <1>1 DEF StoredRows, Stored, Partition
<1>4. PICK row : row = next_row
  OBVIOUS
<1>5. /\ row \in 1 .. MaxRows /\ row \notin 1 .. next_row - 1
      /\ 1 .. next_row' - 1 = (1 .. next_row - 1) \union {row}
  BY <1>1, <1>4, MaxRowsAssumption DEF SinkInv, SinkTypeOK
<1>6. Contract!Give(row)
  BY <1>1, <1>2, <1>3, <1>5 DEF Contract!Give
<1>7. QED
  BY <1>5, <1>6 DEF Contract!SinkNext

\* A rotation or a close of ParquetStorage settles what is pending.
LEMMA ClosesContract ==
  ASSUME SinkInv, [Next]_vars, ParquetCloses
  PROVE  Contract!SinkNext
<1> USE DEF RowsOf
<1>1. /\ protocol = "open" /\ UNCHANGED <<partitions, accepted, next_row>>
      /\ protocol' \in {"open", "done"} /\ (~RotateOk => protocol' = "done")
  BY ParquetClosesFacts DEF callVars, kafkaVars
<1>2. ASSUME NEW closed \in SUBSET DOMAIN writers, DrainWriters(closed)
      PROVE  LET kept == UNION {RowsIn(files[writers[t]]) : t \in closed}
             IN /\ kept \subseteq OpenRows
                /\ ReadableRows' = ReadableRows \union kept
                /\ OpenRows' = {}
  <2> DEFINE kept == UNION {RowsIn(files[writers[t]]) : t \in closed}
  <2>1. /\ DOMAIN files' = DOMAIN files /\ writers' = EmptyMap
        /\ \A n \in DOMAIN files :
             /\ RowsIn(files'[n]) = RowsIn(files[n])
             /\ files'[n].footer <=> files[n].footer \/ \E t \in closed : writers[t] = n
    BY <1>2, DrainFacts
  <2>2. \A t \in closed : writers[t] \in DOMAIN files
    BY DEF SinkInv, WritersAgreeWithFiles
  <2>3. kept \subseteq OpenRows
    BY DEF OpenRows, OpenFiles
  <2>4. ReadableRows' = ReadableRows \union kept
    BY <2>1, <2>2 DEF ReadableRows
  <2>5. OpenRows' = {}
    BY <2>1 DEF OpenRows, OpenFiles, EmptyMap
  <2>6. QED
    BY <2>3, <2>4, <2>5
<1>3. UNCHANGED StoredRows
  BY <1>1 DEF StoredRows, Stored, Partition
<1>4. CASE RotateOk \/ CloseOk
  <2>1. DrainWriters(DOMAIN writers)
    BY <1>4, ParquetClosesFacts
  <2>2. UNION {RowsIn(files[writers[t]]) : t \in DOMAIN writers} = OpenRows
    BY DEF OpenRows, OpenFiles
  <2>3. ReadableRows' = ReadableRows \union OpenRows /\ OpenRows' = {}
    BY <1>2, <2>1, <2>2
  <2>4. (ReadableRows \union StoredRows)' = (ReadableRows \union StoredRows) \union OpenRows
    BY <1>3, <2>3
  <2>5. Contract!Flush
    BY <1>1, <2>3, <2>4 DEF Contract!Flush, Contract!Settle
  <2>6. QED
    BY <2>5 DEF Contract!SinkNext
<1>5. CASE ~(RotateOk \/ CloseOk)
  <2>1. PICK closed \in SUBSET DOMAIN writers : DrainWriters(closed)
    BY ParquetClosesFacts
  <2>2. PICK kept \in SUBSET OpenRows :
          ReadableRows' = ReadableRows \union kept /\ OpenRows' = {}
    BY <1>2, <2>1
  <2>3. (ReadableRows \union StoredRows)' = (ReadableRows \union StoredRows) \union kept
    BY <1>3, <2>2
  <2>4. Contract!FlushFails
    BY <1>1, <1>5, <2>2, <2>3 DEF Contract!FlushFails, Contract!Settle
  <2>5. QED
    BY <2>4 DEF Contract!SinkNext
<1>6. QED
  BY <1>4, <1>5

\* Dropping a sink loses what is pending; a later process opens it again.
LEMMA DropsContract ==
  ASSUME SinkInv, [Next]_vars, ParquetDrops \/ KafkaDrops \/ NewProcess \/ SinkIdles
  PROVE  Contract!SinkNext \/ UNCHANGED Contract!sinkVars
<1> USE DEF RowsOf
<1>1. UNCHANGED <<files, partitions, accepted, next_row>>
  BY KafkaSteps DEF ParquetDrops, DropSink, Parquet, Kafka, StorageDrop, NewProcess,
     StorageReopen, LaterMillisecond, SinkIdles, parquetVars, kafkaVars, callVars
<1>2. UNCHANGED <<ReadableRows, StoredRows>>
  BY <1>1 DEF ReadableRows, StoredRows, Stored, Partition
<1>3. CASE ParquetDrops
  <2>1. writers' = EmptyMap /\ protocol' = "dropped"
    BY <1>3 DEF ParquetDrops, DropSink, Parquet, Kafka, StorageDrop
  <2>2. OpenRows' = {}
    BY <2>1 DEF OpenRows, OpenFiles, EmptyMap
  <2>3. Contract!Drop
    BY <1>1, <1>2, <2>1, <2>2 DEF Contract!Drop, Contract!Settle
  <2>4. QED
    BY <2>3 DEF Contract!SinkNext
<1>4. CASE KafkaDrops
  <2>1. protocol' = "dropped" /\ UNCHANGED writers
    BY <1>4, KafkaSteps DEF parquetVars
  <2>2. UNCHANGED OpenRows
    BY <1>1, <2>1 DEF OpenRows, OpenFiles
  <2>3. Contract!GiveUp
    BY <1>1, <1>2, <2>1, <2>2 DEF Contract!GiveUp
  <2>4. QED
    BY <2>3 DEF Contract!SinkNext
<1>5. CASE NewProcess
  <2>1. protocol = "dropped" /\ protocol' = "start" /\ writers = EmptyMap /\ writers' = EmptyMap
    BY <1>5 DEF NewProcess, StorageReopen, LaterMillisecond, SinkInv, OneSinkIsUsed
  <2>2. OpenRows = {} /\ OpenRows' = {}
    BY <2>1 DEF OpenRows, OpenFiles, EmptyMap
  <2>3. Contract!Reopen
    BY <1>1, <1>2, <2>1, <2>2 DEF Contract!Reopen
  <2>4. QED
    BY <2>3 DEF Contract!SinkNext
<1>6. CASE SinkIdles
  <2>1. UNCHANGED writers
    BY <1>6 DEF SinkIdles, parquetVars
  <2>2. UNCHANGED OpenRows
    BY <1>1, <2>1 DEF OpenRows, OpenFiles
  <2>3. CASE UNCHANGED protocol \/ (protocol = "start" /\ protocol' = "open")
    BY <1>1, <1>2, <2>2, <2>3 DEF Contract!sinkVars
  <2>4. CASE protocol' \in {"dropped", "done"}
    <3>1. Contract!GiveUp
      BY <1>1, <1>2, <2>2, <2>4 DEF Contract!GiveUp
    <3>2. QED
      BY <3>1 DEF Contract!SinkNext
  <2>5. QED
    BY <1>6, <2>3, <2>4 DEF SinkIdles
<1>7. QED
  BY <1>3, <1>4, <1>5, <1>6

\* A delivery report accepts a row that is durable already; what the broker appends
\* is durable when it appears, unless it was there before.
LEMMA KafkaContract ==
  ASSUME SinkInv, [Next]_vars, SendOk \/ SendError \/ Broker
  PROVE  Contract!SinkNext \/ UNCHANGED Contract!sinkVars
<1>1. UNCHANGED <<files, writers, next_row>> /\ options.sink = "kafka"
  BY KafkaSteps DEF parquetVars
<1>2. UNCHANGED <<OpenRows, ReadableRows>>
  BY <1>1 DEF OpenRows, ReadableRows, OpenFiles, RowsOf
<1>3. 1 .. next_row - 1 \subseteq 1 .. MaxRows
  BY MaxRowsAssumption DEF SinkInv, SinkTypeOK
<1>4. CASE SendOk
  <2>1. PICK m \in queue : Delivered(m) /\ accepted' = accepted \union {m.row}
    BY <1>4 DEF SendOk
  <2>2. PICK row : row = m.row
    OBVIOUS
  <2>3. /\ row \in 1 .. next_row - 1 /\ row \notin accepted
        /\ protocol = "sending" /\ protocol' = "open"
    BY <1>4, <2>1, <2>2, KafkaSteps DEF SinkInv, RowsAreGiven, QueueHoldsLastRow
  <2>4. UNCHANGED StoredRows /\ row \in StoredRows
    <3>1. UNCHANGED partitions /\ row \in Stored(m.partition)
      BY <2>1, <2>2 DEF Delivered
    <3>2. m.partition \in DOMAIN partitions
      BY <3>1 DEF Stored, Partition
    <3>3. QED
      BY <3>1, <3>2 DEF StoredRows, Stored, Partition
  <2>5. /\ {row} \ (ReadableRows \union StoredRows) = {}
        /\ 1 .. next_row' - 1 = (1 .. next_row - 1) \union {row}
        /\ row \in 1 .. MaxRows
    BY <1>1, <1>3, <2>3, <2>4
  <2>6. Contract!Accept(row)
    BY <1>2, <2>1, <2>2, <2>3, <2>4, <2>5 DEF Contract!Accept
  <2>7. QED
    BY <2>5, <2>6 DEF Contract!SinkNext
<1>5. CASE SendError
  <2>1. UNCHANGED <<partitions, accepted>> /\ protocol = "sending" /\ protocol' = "open"
    BY <1>5, KafkaSteps
  <2>2. UNCHANGED StoredRows
    BY <2>1 DEF StoredRows, Stored, Partition
  <2>3. QED
    BY <1>1, <1>2, <2>1, <2>2 DEF Contract!sinkVars
<1>6. CASE Broker
  <2>1. UNCHANGED <<protocol, accepted>>
    BY <1>6, KafkaSteps
  <2>2. CASE UNCHANGED partitions
    <3>1. UNCHANGED StoredRows
      BY <2>2 DEF StoredRows, Stored, Partition
    <3>2. QED
      BY <1>1, <1>2, <2>1, <3>1 DEF Contract!sinkVars
  <2>3. CASE \E request \in wire : Appended(request)
    <3>1. PICK request \in wire : Appended(request)
      BY <2>3
    <3>2. PICK t \in TopicPartitions, row \in Nat : TakesRequest(request, t, row)
      BY <3>1, AppendedFacts
    <3>3. StoredRows' = StoredRows \union {row} /\ row \in 1 .. next_row - 1
      BY <3>2 DEF TakesRequest, SinkInv, RowsAreGiven
    <3>4. CASE row \in accepted
      <4>1. row \in StoredRows
        BY <1>1, <3>4 DEF SinkInv, AcceptedIsStored
      <4>2. UNCHANGED StoredRows
        BY <3>3, <4>1
      <4>3. QED
        BY <1>1, <1>2, <2>1, <4>2 DEF Contract!sinkVars
    <3>5. CASE row \notin accepted
      <4>1. Contract!Appear(row)
        <5>1. (ReadableRows \union StoredRows)'
                = (ReadableRows \union StoredRows) \union {row}
          BY <1>2, <3>3
        <5>2. QED
          BY <1>1, <1>2, <2>1, <3>3, <3>5, <5>1 DEF Contract!Appear
      <4>2. row \in 1 .. MaxRows
        BY <1>3, <3>3
      <4>3. QED
        BY <4>1, <4>2 DEF Contract!SinkNext
    <3>6. QED
      BY <3>4, <3>5
  <2>4. QED
    BY <1>6, <2>2, <2>3 DEF Broker, BrokerStep, Attempt, RequestLost
<1>7. QED
  BY <1>4, <1>5, <1>6

\* Either storage implements the contract of EventSink, under every caller that
\* keeps the protocol: a rotation or a close that returns Ok makes every accepted
\* row durable, one that fails or a crash unsettles none that was, and an accepted
\* Kafka row is durable at once.
THEOREM ContractIsKept == Spec => KeepsContract
<1>1. Init => Contract!SinkInit
  <2> SUFFICES ASSUME Init PROVE Contract!SinkInit
    OBVIOUS
  <2> USE DEF Init, StorageInit, KafkaInit, EmptyMap
  <2>1. ReadableRows = {} /\ StoredRows = {} /\ OpenRows = {}
    BY DEF ReadableRows, StoredRows, OpenRows, OpenFiles
  <2>2. 1 .. next_row - 1 = {} /\ protocol = "start" /\ accepted = {}
    OBVIOUS
  <2>3. QED
    BY <2>1, <2>2 DEF Contract!SinkInit
<1>2. SinkInv /\ [Next]_vars => [Contract!SinkNext]_Contract!sinkVars
  BY StepKinds, WritesContract, GivesContract, ClosesContract, DropsContract, KafkaContract
<1>3. QED
  BY <1>1, <1>2, SinkInvariance, PTL DEF Spec, KeepsContract, Contract!SinkSpec
=============================================================================
