--------------------------- MODULE FrontfillProofs ---------------------------
(***************************************************************************)
(* Theorems of Frontfill, for every value of its constants: IndInv is an   *)
(* inductive invariant, so the types are right and the rows of open files  *)
(* stay below the rotation target; and it makes file names fresh, so that  *)
(* no step shortens a file or changes a closed one.                        *)
(***************************************************************************)
EXTENDS FrontfillProperties, TLAPS

-----------------------------------------------------------------------------
(* Operators *)

\* u64::saturating_add stays in u64, and exceeds its first argument unless it
\* saturates or adds nothing.
LEMMA SaturatingAddFacts ==
  ASSUME NEW m \in 0 .. MaxU64, NEW n \in Nat
  PROVE  /\ SaturatingAdd(m, n) \in 0 .. MaxU64
         /\ n > 0 => m < SaturatingAdd(m, n) \/ SaturatingAdd(m, n) = MaxU64
         /\ m + n <= MaxU64 => SaturatingAdd(m, n) = m + n
  BY MaxU64Assumption DEF SaturatingAdd

\* 1 << min(attempt, 5) is at most 32 seconds.
LEMMA ReconnectDelayFacts ==
  ASSUME NEW attempt \in Nat
  PROVE  ReconnectDelay(attempt) \in 1 .. 32
  BY DEF ReconnectDelay

\* Appending a row to a file adds it to the rows of the file.
LEMMA AppendedRow ==
  ASSUME NEW file, NEW file2, NEW row \in Nat, file.rows \in Seq(Nat),
         file2.rows = Append(file.rows, row)
  PROVE  RowsIn(file2) = RowsIn(file) \union {row}
<1> DEFINE rows == file.rows
<1>0. rows \in Seq(Nat) /\ file2.rows = Append(rows, row)
  OBVIOUS
<1> HIDE DEF rows
<1>1. /\ DOMAIN rows = 1 .. Len(rows) /\ Len(rows) \in Nat
      /\ DOMAIN Append(rows, row) = 1 .. (Len(rows) + 1)
      /\ \A k \in 1 .. Len(rows) : Append(rows, row)[k] = rows[k]
      /\ Append(rows, row)[Len(rows) + 1] = row
  BY <1>0
<1>2. \A k \in 1 .. (Len(rows) + 1) : k \in 1 .. Len(rows) \/ k = Len(rows) + 1
  BY <1>1
<1>3. /\ \A k \in 1 .. Len(rows) : k \in 1 .. (Len(rows) + 1)
      /\ Len(rows) + 1 \in 1 .. (Len(rows) + 1)
  BY <1>1
<1>4. QED
  BY <1>0, <1>1, <1>2, <1>3 DEF RowsIn, rows

-----------------------------------------------------------------------------
(* The operations of ParquetStorage preserve its types *)

\* A new file of any rows and footer keeps the directory well typed.
LEMMA NewFileType ==
  ASSUME StorageTypeOK, NEW t \in EventTypes, NEW millis \in clock .. MaxClock,
         NEW file \in FileType
  PROVE  LET name == FileName(t, millis)
             files2 == Insert(files, name, file)
             writers2 == Insert(writers, t, name)
         IN /\ name \in FileNames
            /\ DOMAIN files2 \subseteq FileNames
            /\ files2 \in [DOMAIN files2 -> FileType]
            /\ DOMAIN writers2 \subseteq EventTypes
            /\ writers2 \in [DOMAIN writers2 -> FileNames]
<1> DEFINE name == FileName(t, millis)
<1>1. name \in FileNames
  BY MaxClockAssumption DEF FileName, FileNames, StorageTypeOK
<1>2. /\ DOMAIN files \subseteq FileNames
      /\ files \in [DOMAIN files -> FileType]
      /\ DOMAIN writers \subseteq EventTypes
      /\ writers \in [DOMAIN writers -> FileNames]
  BY DEF StorageTypeOK
<1> HIDE DEF name
<1>3. /\ DOMAIN Insert(files, name, file) \subseteq FileNames
      /\ Insert(files, name, file) \in [DOMAIN Insert(files, name, file) -> FileType]
  BY <1>1, <1>2 DEF Insert
<1>4. /\ DOMAIN Insert(writers, t, name) \subseteq EventTypes
      /\ Insert(writers, t, name) \in [DOMAIN Insert(writers, t, name) -> FileNames]
  BY <1>1, <1>2 DEF Insert
<1>5. QED
  BY <1>1, <1>3, <1>4 DEF name

\* The schema cache learns the columns of the type, whatever was in it.
LEMMA CachedSchemaType ==
  ASSUME StorageTypeOK, NEW t \in EventTypes
  PROVE  LET schemas2 == Insert(schemas, t, Columns[t])
         IN /\ DOMAIN schemas2 \subseteq EventTypes
            /\ \A u \in DOMAIN schemas2 : schemas2[u] = Columns[u]
  BY DEF StorageTypeOK, Insert

\* write_event, Ok.
LEMMA WriteEventType ==
  ASSUME StorageTypeOK, NEW t \in EventTypes, NEW row \in Nat,
         WriteEvent(t, Columns[t], row)
  PROVE  StorageTypeOK'
<1>1. /\ DOMAIN schemas' \subseteq EventTypes
      /\ \A u \in DOMAIN schemas' : schemas'[u] = Columns[u]
      /\ file_set_id' \in 0 .. MaxU64
  BY CachedSchemaType DEF WriteEvent, StorageTypeOK
<1>2. CASE /\ t \in DOMAIN writers
           /\ files' = [files EXCEPT ![writers[t]].rows = Append(@, row)]
           /\ UNCHANGED <<writers, clock>>
  <2>1. ASSUME NEW n \in DOMAIN files
        PROVE  [files[n] EXCEPT !.rows = Append(@, row)] \in FileType
    <3>1. files[n] \in [rows : Seq(Nat), footer : BOOLEAN]
      BY DEF StorageTypeOK, FileType
    <3>2. Append(files[n].rows, row) \in Seq(Nat)
      BY <3>1
    <3>3. QED
      BY <3>1, <3>2 DEF FileType
  <2>2. QED
    BY <1>1, <1>2, <2>1 DEF StorageTypeOK
<1>3. CASE \E millis \in clock .. MaxClock :
             /\ clock' = millis
             /\ writers' = Insert(writers, t, FileName(t, millis))
             /\ files' = Insert(files, FileName(t, millis),
                                [rows |-> <<row>>, footer |-> FALSE])
  <2>1. [rows |-> <<row>>, footer |-> FALSE] \in FileType
    BY DEF FileType
  <2>2. PICK millis \in clock .. MaxClock :
             /\ clock' = millis
             /\ writers' = Insert(writers, t, FileName(t, millis))
             /\ files' = Insert(files, FileName(t, millis),
                                [rows |-> <<row>>, footer |-> FALSE])
    BY <1>3
  <2>3. clock' \in 0 .. MaxClock
    BY <2>2, MaxClockAssumption DEF StorageTypeOK
  <2>4. QED
    BY <1>1, <2>1, <2>2, <2>3, NewFileType DEF StorageTypeOK
<1>4. QED
  BY <1>2, <1>3 DEF WriteEvent

\* write_event, Err.
LEMMA WriteEventFailsType ==
  ASSUME StorageTypeOK, NEW t \in EventTypes, WriteEventFails(t, Columns[t])
  PROVE  StorageTypeOK'
<1>1. CASE UNCHANGED <<writers, schemas, files, clock>>
  BY <1>1 DEF StorageTypeOK, WriteEventFails
<1>2. CASE /\ schemas' = Insert(schemas, t, Columns[t])
           /\ UNCHANGED <<writers, files, clock>>
  BY <1>2, CachedSchemaType DEF StorageTypeOK, WriteEventFails
<1>3. CASE /\ schemas' = Insert(schemas, t, Columns[t])
           /\ \E millis \in clock .. MaxClock :
                /\ clock' = millis
                /\ files' = Created(FileName(t, millis))
                /\ \/ UNCHANGED writers
                   \/ writers' = Insert(writers, t, FileName(t, millis))
  <2>1. [rows |-> <<>>, footer |-> FALSE] \in FileType
    BY DEF FileType
  <2>2. PICK millis \in clock .. MaxClock :
             /\ clock' = millis
             /\ files' = Created(FileName(t, millis))
             /\ \/ UNCHANGED writers
                \/ writers' = Insert(writers, t, FileName(t, millis))
    BY <1>3
  <2>3. clock' \in 0 .. MaxClock
    BY <2>2, MaxClockAssumption DEF StorageTypeOK
  <2>4. QED
    BY <1>3, <2>1, <2>2, <2>3, NewFileType, CachedSchemaType
    DEF StorageTypeOK, WriteEventFails, Created
<1>4. QED
  BY <1>1, <1>2, <1>3 DEF WriteEventFails

\* close_writers, whichever of the writers it gets to close.
LEMMA DrainWritersType ==
  ASSUME StorageTypeOK, NEW closed \in SUBSET DOMAIN writers,
         DrainWriters(closed), file_set_id' \in 0 .. MaxU64
  PROVE  StorageTypeOK'
<1>1. \A n \in DOMAIN files : [files[n] EXCEPT !.footer = TRUE] \in FileType
  BY DEF StorageTypeOK, FileType
<1>2. DOMAIN files' = DOMAIN files /\ files' \in [DOMAIN files -> FileType]
  BY <1>1 DEF StorageTypeOK, DrainWriters
<1>3. QED
  BY <1>2 DEF StorageTypeOK, DrainWriters, EmptyMap

-----------------------------------------------------------------------------
(* The types of run() *)

\* The log in hand is one that the provider may deliver.
LEMMA LogInHandType ==
  ASSUME RunTypeOK, LogInHandIsBelowTarget, InHand
  PROVE  log \in LogType
<1>1. Len(delivered) \in 1 .. Len(delivered)
  BY DEF RunTypeOK, LogInHandIsBelowTarget
<1>2. log \in Logs
  BY <1>1 DEF RunTypeOK, log
<1>3. QED
  BY <1>2, LogsAssumption

\* Every update that is made to the metrics keeps them well typed.
LEMMA MetricsFacts ==
  /\ RegisteredMetrics \in MetricsType
  /\ \A m \in MetricsType :
       /\ \A b \in 0 .. MaxU64 : ObserveLog(m, b) \in MetricsType
       /\ \A t \in EventTypes : ObserveDecodedType(m, t) \in MetricsType
       /\ \A v \in {0, 1} : [m EXCEPT !.ws_connected = v] \in MetricsType
       /\ [m EXCEPT !.decode_errors_total = @ + 1] \in MetricsType
       /\ [m EXCEPT !.write_errors_total = @ + 1] \in MetricsType
       /\ [m EXCEPT !.missing_metadata_total = @ + 1] \in MetricsType
       /\ [m EXCEPT !.rotate_total = @ + 1] \in MetricsType
       /\ [m EXCEPT !.shutdown_total = @ + 1] \in MetricsType
<1>1. RegisteredMetrics \in MetricsType
  BY MaxU64Assumption DEF RegisteredMetrics, MetricsType
<1>2. ASSUME NEW m \in MetricsType
      PROVE  /\ \A b \in 0 .. MaxU64 : ObserveLog(m, b) \in MetricsType
             /\ \A v \in {0, 1} : [m EXCEPT !.ws_connected = v] \in MetricsType
             /\ [m EXCEPT !.decode_errors_total = @ + 1] \in MetricsType
             /\ [m EXCEPT !.write_errors_total = @ + 1] \in MetricsType
             /\ [m EXCEPT !.missing_metadata_total = @ + 1] \in MetricsType
             /\ [m EXCEPT !.rotate_total = @ + 1] \in MetricsType
             /\ [m EXCEPT !.shutdown_total = @ + 1] \in MetricsType
  <2>1. ASSUME NEW b \in 0 .. MaxU64
        PROVE  ObserveLog(m, b) \in MetricsType
    <3>1. m.logs_total + 1 \in Nat
      BY DEF MetricsType
    <3>2. QED
      BY <3>1 DEF MetricsType, ObserveLog
  <2>0. \A v \in {0, 1} : [m EXCEPT !.ws_connected = v] \in MetricsType
    BY DEF MetricsType
  <2>2. /\ [m EXCEPT !.decode_errors_total = @ + 1] \in MetricsType
        /\ [m EXCEPT !.write_errors_total = @ + 1] \in MetricsType
        /\ [m EXCEPT !.missing_metadata_total = @ + 1] \in MetricsType
    BY DEF MetricsType
  <2>3. /\ [m EXCEPT !.rotate_total = @ + 1] \in MetricsType
        /\ [m EXCEPT !.shutdown_total = @ + 1] \in MetricsType
    BY DEF MetricsType
  <2>4. QED
    BY <2>0, <2>1, <2>2, <2>3
<1>3. ASSUME NEW m \in MetricsType, NEW t \in EventTypes
      PROVE  ObserveDecodedType(m, t) \in MetricsType
  <2>1. m.logs_by_type_total \in [EventTypes -> Nat]
    BY DEF MetricsType
  <2>2. [m.logs_by_type_total EXCEPT ![t] = @ + 1] \in [EventTypes -> Nat]
    BY <2>1
  <2>3. QED
    BY <2>2 DEF MetricsType, ObserveDecodedType
<1>4. QED
  BY <1>1, <1>2, <1>3

\* A saturating backoff step.
LEMMA SleepType ==
  ASSUME RunTypeOK, SleepBeforeReconnecting
  PROVE  reconnect_attempt' \in 0 .. MaxU32 /\ delay' \in 0 .. 32
BY ReconnectDelayFacts, MaxU32Assumption DEF RunTypeOK, SleepBeforeReconnecting

\* Start-up, connecting and sleeping.
LEMMA ConnectingType ==
  ASSUME RunTypeOK, Connecting
  PROVE  RunTypeOK'
<1>1. CASE StartRejected \/ Start \/ ConnectRejected \/ ConnectOk \/ BackoffElapsed
  BY <1>1 DEF RunTypeOK, StartRejected, Start, ConnectRejected, ConnectOk,
              BackoffElapsed, ReturnError, retryVars, signalVars, metricsVars,
              historyVars
<1>2. CASE ConnectFails \/ SubscribeFails
  BY <1>2, SleepType DEF RunTypeOK, ConnectFails, SubscribeFails,
     SleepBeforeReconnecting, signalVars, metricsVars, historyVars
<1>3. CASE SubscribeOk
  <2>1. [metrics EXCEPT !.ws_connected = 1] \in MetricsType
    BY MetricsFacts DEF RunTypeOK
  <2>2. metrics' \in MetricsType
    BY <1>3, <2>1 DEF RunTypeOK, SubscribeOk, Observe
  <2>3. QED
    BY <1>3, <2>2, MaxU32Assumption
    DEF RunTypeOK, SubscribeOk, signalVars, historyVars
<1>4. QED
  BY <1>1, <1>2, <1>3 DEF Connecting

\* The select! of the inner loop.
LEMMA SelectingType ==
  ASSUME RunTypeOK, Selecting
  PROVE  RunTypeOK'
<1>1. CASE Listen \/ ListenFails \/ InterruptedCloseFails
  BY <1>1 DEF RunTypeOK, Listen, ListenFails, InterruptedCloseFails,
              ReturnError, retryVars, signalVars, metricsVars, historyVars
<1>2. CASE \E l \in Logs : Receive(l)
  <2>1. PICK l \in Logs : Receive(l)
    BY <1>2
  <2>2. /\ delivered' \in Seq(Logs)
        /\ Len(delivered') = Len(delivered) + 1
    BY <2>1 DEF RunTypeOK, Receive
  <2>3. /\ Len(delivered') <= MaxLogs
        /\ run_start' \in 0 .. Len(delivered')
    BY <2>1, <2>2, MaxLogsAssumption DEF RunTypeOK, Receive
  <2>4. QED
    BY <2>1, <2>2, <2>3 DEF RunTypeOK, Receive, retryVars, metricsVars
<1>3. CASE StreamEnds
  BY <1>3, SleepType, MetricsFacts
  DEF RunTypeOK, StreamEnds, SleepBeforeReconnecting, Observe, historyVars
<1>4. CASE Interrupted
  <2>1. [[metrics EXCEPT !.shutdown_total = @ + 1] EXCEPT !.ws_connected = 0]
          \in MetricsType
    BY MetricsFacts DEF RunTypeOK
  <2>2. QED
    BY <1>4, <2>1 DEF RunTypeOK, Interrupted, StopMetrics, Observe, retryVars,
                      signalVars, historyVars
<1>5. QED
  BY <1>1, <1>2, <1>3, <1>4 DEF Selecting

\* The steps that take one log through the loop.
LEMMA ProcessingType ==
  ASSUME RunTypeOK, LogInHandIsBelowTarget, Processing
  PROVE  RunTypeOK'
<1> USE DEF InHand, retryVars, signalVars, metricsVars, historyVars
<1>1. InHand => log.block \in 0 .. MaxU64
  BY LogInHandType DEF LogType
<1>2. config.flush_blocks \in Nat
  BY ConfigsAssumption DEF RunTypeOK, ConfigType
<1>3. \A m \in MetricsType : [m EXCEPT !.ws_connected = 0] \in MetricsType
  BY MetricsFacts
<1>4. CASE NoRotation \/ DecodeIgnored \/ Write \/ RotateFails
  BY <1>4 DEF RunTypeOK, NoRotation, DecodeIgnored, Write, RotateFails, ReturnError
<1>5. CASE MissingMetadata \/ DecodeFails \/ WriteFails
  <2>1. /\ [metrics EXCEPT !.missing_metadata_total = @ + 1] \in MetricsType
        /\ [metrics EXCEPT !.decode_errors_total = @ + 1] \in MetricsType
        /\ [metrics EXCEPT !.write_errors_total = @ + 1] \in MetricsType
    BY MetricsFacts DEF RunTypeOK
  <2>2. /\ metrics' \in MetricsType
        /\ runtime' \in {"off", "on", "stopping", "stopped", "dropped"}
    BY <1>5, <1>3, <2>1 DEF RunTypeOK, MissingMetadata, DecodeFails, WriteFails,
                            StopMetrics, Observe
  <2>3. QED
    BY <1>5, <2>2 DEF RunTypeOK, MissingMetadata, DecodeFails, WriteFails,
                      StopMetrics
<1>6. CASE Validate
  <2>1. ObserveLog(metrics, log.block) \in MetricsType
    BY <1>1, <1>6, MetricsFacts DEF RunTypeOK, Validate
  <2>2. QED
    BY <1>6, <2>1 DEF RunTypeOK, Validate, Observe
<1>7. CASE FirstTarget \/ Rotate
  <2>1. next_rotation_block' \in 0 .. MaxU64
    BY <1>1, <1>2, <1>7, SaturatingAddFacts DEF FirstTarget, Rotate, ArmRotation
  <2>2. metrics' \in MetricsType
    BY <1>7, MetricsFacts DEF RunTypeOK, FirstTarget, Rotate, Observe
  <2>3. QED
    BY <1>7, <2>1, <2>2 DEF RunTypeOK, FirstTarget, Rotate
<1>8. CASE DecodeEvent
  <2>1. ObserveDecodedType(metrics, log.topic0) \in MetricsType
    BY <1>8, MetricsFacts DEF RunTypeOK, DecodeEvent, Decoded
  <2>2. QED
    BY <1>8, <2>1 DEF RunTypeOK, DecodeEvent, Observe
<1>9. QED
  BY <1>4, <1>5, <1>6, <1>7, <1>8 DEF Processing

\* Returning, signals, crashes and restarts.
LEMMA EndingType ==
  ASSUME RunTypeOK, Return \/ Environment
  PROVE  RunTypeOK'
<1> USE DEF retryVars, signalVars, metricsVars, historyVars
<1>1. CASE Return \/ Crash \/ SigintKills
  BY <1>1 DEF RunTypeOK, Return, Crash, SigintKills, Die
<1>2. CASE SigintSeen \/ SigintLost
  BY <1>2 DEF RunTypeOK, SigintSeen, SigintLost, Signalled
<1>3. CASE Restart
  <2>1. /\ run_start' \in 0 .. Len(delivered')
        /\ reconnect_attempt' \in 0 .. MaxU32
        /\ metrics' \in MetricsType
    BY <1>3, MetricsFacts, MaxU32Assumption DEF RunTypeOK, Restart
  <2>2. /\ pc' = "start" /\ runtime' = "off"
        /\ delay' \in 0 .. 32
        /\ next_rotation_block' \in 0 .. MaxU64 \union {None}
        /\ result' \in {None, "ok", "err"}
    BY <1>3 DEF Restart
  <2>0. /\ handler' \in BOOLEAN
        /\ notified' \in BOOLEAN
        /\ interrupted' \in BOOLEAN
    BY <1>3, Zenon DEF Restart
  <2>3. /\ config' \in Configs
        /\ delivered' \in Seq(Logs)
        /\ Len(delivered') <= MaxLogs
    BY <1>3 DEF RunTypeOK, Restart
  <2>4. QED
    BY <2>0, <2>1, <2>2, <2>3 DEF RunTypeOK
<1>4. QED
  BY <1>1, <1>2, <1>3 DEF Environment

-----------------------------------------------------------------------------
(* What each step of run() does to the storage *)

\* The steps that leave the storage alone.
QuietStep ==
  \/ StartRejected \/ Start \/ ConnectOk \/ ConnectFails
  \/ SubscribeOk \/ SubscribeFails \/ BackoffElapsed
  \/ Listen \/ (\E l \in Logs : Receive(l)) \/ StreamEnds
  \/ MissingMetadata \/ Validate \/ FirstTarget \/ NoRotation
  \/ DecodeIgnored \/ DecodeFails \/ DecodeEvent
  \/ SigintSeen \/ SigintLost

\* The steps that drop it, and those that close its writers.
DroppingStep == ConnectRejected \/ ListenFails \/ Return \/ Crash \/ SigintKills

ClosingStep == Interrupted \/ InterruptedCloseFails \/ RotateFails

\* Every step of the process is of one of these kinds.
LEMMA StepKinds ==
  Next => \/ QuietStep \/ DroppingStep \/ ClosingStep
          \/ Rotate \/ Write \/ WriteFails \/ Restart
          \/ UNCHANGED vars
BY DEF Next, Connecting, Selecting, Processing, Environment, Ended,
       QuietStep, DroppingStep, ClosingStep

\* Quiet steps do not touch the storage, and a process that is not running does
\* not start to.
LEMMA QuietFacts ==
  ASSUME QuietStep
  PROVE  /\ UNCHANGED storageVars
         /\ Running' => Running
<1>1. CASE StartRejected \/ Start \/ ConnectOk \/ ConnectFails \/ SubscribeOk
           \/ SubscribeFails \/ BackoffElapsed
  BY <1>1 DEF StartRejected, Start, ConnectOk, ConnectFails, SubscribeOk,
              SubscribeFails, BackoffElapsed, Running, Alive
<1>2. CASE Listen \/ (\E l \in Logs : Receive(l)) \/ StreamEnds \/ SigintSeen \/ SigintLost
  BY <1>2 DEF Listen, Receive, StreamEnds, SigintSeen, SigintLost, Signalled,
              Running, Alive
<1>3. CASE MissingMetadata \/ Validate \/ FirstTarget \/ NoRotation
           \/ DecodeIgnored \/ DecodeFails \/ DecodeEvent
  BY <1>3 DEF MissingMetadata, Validate, FirstTarget, NoRotation,
              DecodeIgnored, DecodeFails, DecodeEvent, Running, Alive
<1>4. QED
  BY <1>1, <1>2, <1>3 DEF QuietStep

\* A step that drops the storage ends the process or returns from run().
LEMMA DroppingFacts ==
  ASSUME DroppingStep
  PROVE  StorageDrop /\ ~Running'
BY DEF DroppingStep, ConnectRejected, ListenFails, Return, Crash, SigintKills,
       Die, ReturnError, Running, Alive

\* So does a step that closes writers without rotating.
LEMMA ClosingFacts ==
  ASSUME ClosingStep
  PROVE  /\ \E closed \in SUBSET DOMAIN writers : DrainWriters(closed)
         /\ UNCHANGED file_set_id
         /\ ~Running'
BY DEF ClosingStep, Interrupted, InterruptedCloseFails, RotateFails,
       CloseWriters, CloseWritersFails, RotateWritersFails, ReturnError,
       StopMetrics, Running, Alive

\* A rotation closes every writer and moves on to the next set.
LEMMA RotateFacts ==
  ASSUME IndInv, Rotate
  PROVE  /\ DrainWriters(DOMAIN writers)
         /\ writers' = EmptyMap
         /\ file_set_id' = file_set_id + 1
         /\ file_set_id' \in 0 .. MaxU64
<1>1. file_set_id + 1 <= MaxU64
  BY MaxLogsAssumption, MaxU64Assumption
  DEF IndInv, TypeOK, StorageTypeOK, RunTypeOK, SetsAreFewerThanLogs, Rotate
<1>2. file_set_id' = file_set_id + 1
  BY <1>1, SaturatingAddFacts
  DEF IndInv, TypeOK, StorageTypeOK, Rotate, RotateWriters
<1>3. QED
  BY <1>1, <1>2, MaxU64Assumption
  DEF IndInv, TypeOK, StorageTypeOK, Rotate, RotateWriters, DrainWriters

\* The name of a new file is not in the directory.
LEMMA FreshName ==
  ASSUME IndInv, Running, NEW t \in EventTypes, t \notin DOMAIN writers,
         NEW millis \in clock .. MaxClock
  PROVE  FileName(t, millis) \notin DOMAIN files
<1> DEFINE name == FileName(t, millis)
<1>1. name.type = t /\ name.stamp = millis /\ name.set = file_set_id
  BY DEF FileName
<1> HIDE DEF name
<1>2. name \notin OpenFiles
  BY <1>1 DEF IndInv, WritersAgreeWithFiles, OpenFiles
<1>3. /\ clock \in Nat /\ millis \in Nat /\ clock <= millis /\ file_set_id \in Nat
  BY MaxClockAssumption, MaxU64Assumption DEF IndInv, TypeOK, StorageTypeOK
<1>4. name \notin DOMAIN files
  BY <1>1, <1>2, <1>3 DEF IndInv, OtherFilesArePast
<1>5. QED
  BY <1>4 DEF name

-----------------------------------------------------------------------------
(* Types *)

\* No step makes a variable lose its type.
LEMMA TypeStep ==
  ASSUME IndInv, Next
  PROVE  TypeOK'
<1> USE DEF IndInv, TypeOK
<1>1. RunTypeOK'
  <2>1. CASE UNCHANGED vars
    BY <2>1 DEF RunTypeOK, vars, retryVars, signalVars, metricsVars, historyVars
  <2>2. QED
    BY <2>1, ConnectingType, SelectingType, ProcessingType, EndingType
    DEF Next, Ended
<1>2. StorageTypeOK'
  <2>1. CASE QuietStep \/ UNCHANGED vars
    BY <2>1, QuietFacts DEF vars, storageVars, StorageTypeOK
  <2>2. CASE DroppingStep
    BY <2>2, DroppingFacts DEF StorageDrop, StorageTypeOK, EmptyMap
  <2>3. CASE ClosingStep
    BY <2>3, ClosingFacts, DrainWritersType DEF StorageTypeOK
  <2>4. CASE Rotate
    BY <2>4, RotateFacts, DrainWritersType
  <2>5. CASE Write
    BY <2>5, WriteEventType DEF Write, RunTypeOK, LogInHandIsBelowTarget
  <2>6. CASE WriteFails
    BY <2>6, WriteEventFailsType DEF WriteFails, LogInHandIsBelowTarget
  <2>7. CASE Restart
    BY <2>7, MaxU64Assumption, MaxClockAssumption
    DEF Restart, StorageReopen, LaterMillisecond, StorageTypeOK, EmptyMap
  <2>8. QED
    BY <2>1, <2>2, <2>3, <2>4, <2>5, <2>6, <2>7, StepKinds
<1>3. QED
  BY <1>1, <1>2

-----------------------------------------------------------------------------
(* Files only grow *)

\* Closing writers adds footers to files that had none, and nothing else.
LEMMA DrainGrows ==
  ASSUME IndInv, NEW closed \in SUBSET DOMAIN writers, DrainWriters(closed)
  PROVE  /\ FilesGrow
         /\ DOMAIN files' = DOMAIN files
         /\ \A n \in DOMAIN files : files'[n].rows = files[n].rows
         /\ writers' = EmptyMap
<1> USE DEF IndInv, TypeOK, StorageTypeOK, FileType
<1>1. \A t \in closed : ~files[writers[t]].footer
  BY DEF WritersAgreeWithFiles
<1>2. /\ DOMAIN files' = DOMAIN files
      /\ writers' = EmptyMap
  BY DEF DrainWriters
<1>3. ASSUME NEW n \in DOMAIN files
      PROVE  /\ files'[n].rows = files[n].rows
             /\ files[n].footer => files'[n] = files[n]
  BY <1>1 DEF DrainWriters
<1>4. \A n \in DOMAIN files : Len(files[n].rows) \in Nat
  OBVIOUS
<1>5. QED
  BY <1>2, <1>3, <1>4 DEF FilesGrow

\* A row that is written goes to the end of the open file of its type, or into a
\* new file; no other file is touched.
LEMMA WriteGrows ==
  ASSUME IndInv, Write
  PROVE  /\ FilesGrow
         /\ \E t \in EventTypes, n \in FileNames :
              /\ t = log.topic0
              /\ DOMAIN writers' = DOMAIN writers \union {t}
              /\ \A u \in DOMAIN writers : writers'[u] = writers[u]
              /\ writers'[t] = n
              /\ n.type = t /\ n.set = file_set_id /\ n.stamp <= clock'
              /\ DOMAIN files' = DOMAIN files \union {n}
              /\ ~files'[n].footer
              /\ \/ /\ t \in DOMAIN writers /\ n = writers[t] /\ n \in DOMAIN files
                    /\ RowsIn(files'[n]) = RowsIn(files[n]) \union {Len(delivered)}
                 \/ /\ t \notin DOMAIN writers /\ n \notin DOMAIN files
                    /\ RowsIn(files'[n]) = {Len(delivered)}
              /\ \A m \in DOMAIN files : m # n => files'[m] = files[m]
              /\ clock <= clock'
              /\ UNCHANGED file_set_id
<1> USE DEF IndInv, TypeOK, StorageTypeOK, FileType
<1>1. PICK t, row : t = log.topic0 /\ row = Len(delivered)
  OBVIOUS
<1>2. /\ t \in EventTypes /\ row \in Nat
      /\ clock \in Nat /\ Running
      /\ WriteEvent(t, Columns[t], row)
  BY <1>1, MaxClockAssumption
  DEF Write, LogInHandIsBelowTarget, RunTypeOK, Running, Alive
<1>3. CASE /\ t \in DOMAIN writers
           /\ files' = [files EXCEPT ![writers[t]].rows = Append(@, row)]
           /\ UNCHANGED <<writers, clock>>
  <2>1. PICK n \in FileNames : n = writers[t]
    BY <1>3
  <2>2. /\ n \in DOMAIN files /\ ~files[n].footer
        /\ n.type = t /\ n.set = file_set_id /\ n.stamp <= clock
    BY <1>3, <2>1 DEF WritersAgreeWithFiles, OtherFilesArePast
  <2>3. /\ files[n].rows \in Seq(Nat)
        /\ \A m \in DOMAIN files : Len(files[m].rows) \in Nat
    BY <2>2
  <2>4. /\ DOMAIN files' = DOMAIN files
        /\ \A m \in DOMAIN files : m # n => files'[m] = files[m]
        /\ files'[n].rows = Append(files[n].rows, row)
        /\ ~files'[n].footer
    BY <1>3, <2>1, <2>2
  <2>5. RowsIn(files'[n]) = RowsIn(files[n]) \union {row}
    <3>1. PICK file, file2 : file = files[n] /\ file2 = files'[n]
      OBVIOUS
    <3>2. file.rows \in Seq(Nat) /\ row \in Nat /\ file2.rows = Append(file.rows, row)
      BY <1>2, <2>3, <2>4, <3>1
    <3>3. RowsIn(file2) = RowsIn(file) \union {row}
      BY <3>2, AppendedRow
    <3>4. QED
      BY <3>1, <3>3
  <2>6. Len(files[n].rows) <= Len(files'[n].rows)
    BY <1>2, <2>3, <2>4
  <2>7. FilesGrow
    BY <2>2, <2>3, <2>4, <2>6 DEF FilesGrow
  <2>8. /\ DOMAIN writers' = DOMAIN writers \union {t}
        /\ \A u \in DOMAIN writers : writers'[u] = writers[u]
        /\ writers'[t] = n
        /\ DOMAIN files' = DOMAIN files \union {n}
        /\ clock' = clock
    <3>1. writers' = writers /\ clock' = clock /\ t \in DOMAIN writers
      BY <1>3
    <3>2. DOMAIN files' = DOMAIN files \union {n}
      BY <2>2, <2>4
    <3>3. QED
      BY <2>1, <3>1, <3>2
  <2>9. UNCHANGED file_set_id
    BY <1>2 DEF WriteEvent
  <2>10. n.stamp <= clock' /\ clock <= clock'
    BY <1>2, <2>2, <2>8
  <2>11. t \in EventTypes /\ n \in FileNames
    BY <1>2, <2>1
  <2>12. QED
    BY <1>1, <1>3, <2>2, <2>4, <2>5, <2>7, <2>8, <2>9, <2>10, <2>11
<1>4. CASE /\ t \notin DOMAIN writers
           /\ \E millis \in clock .. MaxClock :
                /\ clock' = millis
                /\ writers' = Insert(writers, t, FileName(t, millis))
                /\ files' = Insert(files, FileName(t, millis),
                                   [rows |-> <<row>>, footer |-> FALSE])
  <2>1. PICK millis \in clock .. MaxClock :
                /\ clock' = millis
                /\ writers' = Insert(writers, t, FileName(t, millis))
                /\ files' = Insert(files, FileName(t, millis),
                                   [rows |-> <<row>>, footer |-> FALSE])
    BY <1>4
  <2>2. PICK n, file : /\ n = FileName(t, millis)
                       /\ file = [rows |-> <<row>>, footer |-> FALSE]
    OBVIOUS
  <2>3. n.type = t /\ n.set = file_set_id /\ n.stamp = millis
    BY <2>2 DEF FileName
  <2>4. n \in FileNames /\ n \notin DOMAIN files
    BY <1>2, <1>4, <2>2, FreshName, MaxClockAssumption DEF FileNames, FileName
  <2>5. ~file.footer /\ RowsIn(file) = {row}
    BY <2>2 DEF RowsIn
  <2>6. /\ DOMAIN writers' = DOMAIN writers \union {t}
        /\ writers'[t] = n
        /\ \A u \in DOMAIN writers : writers'[u] = writers[u]
    BY <1>4, <2>1, <2>2 DEF Insert
  <2>7. /\ DOMAIN files' = DOMAIN files \union {n}
        /\ files'[n] = file
        /\ \A m \in DOMAIN files : files'[m] = files[m]
    BY <2>1, <2>2, <2>4 DEF Insert
  <2>8. FilesGrow
    BY <2>7 DEF FilesGrow
  <2>9. clock <= clock' /\ n.stamp <= clock' /\ UNCHANGED file_set_id
    BY <1>2, <2>1, <2>3, MaxClockAssumption DEF WriteEvent
  <2>10. QED
    BY <1>1, <1>2, <1>4, <2>3, <2>4, <2>5, <2>6, <2>7, <2>8, <2>9
<1>5. QED
  BY <1>2, <1>3, <1>4 DEF WriteEvent

\* A write that fails may leave a new file, with no rows, and its writer.
LEMMA WriteFailsGrows ==
  ASSUME IndInv, WriteFails
  PROVE  /\ FilesGrow
         /\ \A m \in DOMAIN files : files'[m] = files[m]
         /\ \A m \in DOMAIN files' \ DOMAIN files :
              /\ m.type = log.topic0 /\ m.set = file_set_id /\ m.stamp = clock'
              /\ RowsIn(files'[m]) = {} /\ ~files'[m].footer
         /\ \A u \in DOMAIN writers : u \in DOMAIN writers' /\ writers'[u] = writers[u]
         /\ \A u \in DOMAIN writers' \ DOMAIN writers :
              u = log.topic0 /\ writers'[u] \in DOMAIN files' \ DOMAIN files
         /\ clock <= clock'
         /\ UNCHANGED file_set_id
<1> USE DEF IndInv, TypeOK, StorageTypeOK, FileType
<1>1. PICK t : t = log.topic0
  OBVIOUS
<1>2. /\ t \in EventTypes
      /\ clock \in Nat /\ Running
      /\ WriteEventFails(t, Columns[t])
  BY <1>1, MaxClockAssumption
  DEF WriteFails, LogInHandIsBelowTarget, Running, Alive
<1>3. UNCHANGED file_set_id
  BY <1>2 DEF WriteEventFails
<1>4. CASE UNCHANGED <<writers, files, clock>>
  <2>1. \A n \in DOMAIN files : Len(files[n].rows) \in Nat
    OBVIOUS
  <2>2. FilesGrow
    BY <1>4, <2>1 DEF FilesGrow
  <2>3. QED
    BY <1>2, <1>3, <1>4, <2>2
<1>5. CASE /\ t \notin DOMAIN writers
           /\ \E millis \in clock .. MaxClock :
                /\ clock' = millis
                /\ files' = Created(FileName(t, millis))
                /\ \/ UNCHANGED writers
                   \/ writers' = Insert(writers, t, FileName(t, millis))
  <2>1. PICK millis \in clock .. MaxClock :
                /\ clock' = millis
                /\ files' = Created(FileName(t, millis))
                /\ \/ UNCHANGED writers
                   \/ writers' = Insert(writers, t, FileName(t, millis))
    BY <1>5
  <2>2. PICK n, file : /\ n = FileName(t, millis)
                       /\ file = [rows |-> <<>>, footer |-> FALSE]
    OBVIOUS
  <2>3. n.type = t /\ n.set = file_set_id /\ n.stamp = millis
    BY <2>2 DEF FileName
  <2>4. n \notin DOMAIN files
    BY <1>2, <1>5, <2>2, FreshName
  <2>5. ~file.footer /\ RowsIn(file) = {}
    BY <2>2 DEF RowsIn
  <2>6. /\ \A u \in DOMAIN writers : u \in DOMAIN writers' /\ writers'[u] = writers[u]
        /\ \A u \in DOMAIN writers' \ DOMAIN writers : u = t /\ writers'[u] = n
    BY <1>5, <2>1, <2>2 DEF Insert
  <2>7. files' = Insert(files, n, file)
    BY <2>1, <2>2 DEF Created
  <2>8. /\ DOMAIN files' = DOMAIN files \union {n}
        /\ files'[n] = file
        /\ \A m \in DOMAIN files : files'[m] = files[m]
    BY <2>4, <2>7 DEF Insert
  <2>9. FilesGrow
    BY <2>8 DEF FilesGrow
  <2>10. clock <= clock'
    BY <1>2, <2>1, MaxClockAssumption
  <2>11. QED
    BY <1>1, <1>3, <2>1, <2>3, <2>4, <2>5, <2>6, <2>8, <2>9, <2>10
<1>6. QED
  BY <1>2, <1>4, <1>5 DEF WriteEventFails

\* No step shortens a file or changes a closed one.
LEMMA FilesGrowStep ==
  ASSUME IndInv, Next
  PROVE  FilesGrow
<1>1. \A n \in DOMAIN files : Len(files[n].rows) \in Nat
  BY DEF IndInv, TypeOK, StorageTypeOK, FileType
<1>2. CASE UNCHANGED files
  BY <1>1, <1>2 DEF FilesGrow
<1>3. CASE ClosingStep
  BY <1>3, ClosingFacts, DrainGrows
<1>4. CASE Rotate
  BY <1>4, RotateFacts, DrainGrows
<1>5. CASE QuietStep \/ DroppingStep \/ Restart \/ UNCHANGED vars
  BY <1>2, <1>5, QuietFacts, DroppingFacts
  DEF storageVars, StorageDrop, Restart, StorageReopen, LaterMillisecond, vars
<1>6. QED
  BY <1>3, <1>4, <1>5, StepKinds, WriteGrows, WriteFailsGrows

-----------------------------------------------------------------------------
(* The parts of the inductive invariant *)

\* Writers and files go on agreeing.
LEMMA WritersAgreeStep ==
  ASSUME IndInv, Next
  PROVE  WritersAgreeWithFiles'
<1> USE DEF IndInv, WritersAgreeWithFiles
<1>1. CASE QuietStep \/ UNCHANGED vars
  BY <1>1, QuietFacts DEF vars, storageVars
<1>2. CASE DroppingStep \/ ClosingStep \/ Rotate \/ Restart
  <2>1. writers' = EmptyMap
    BY <1>2, DroppingFacts, ClosingFacts, RotateFacts
    DEF StorageDrop, DrainWriters, Restart, StorageReopen, LaterMillisecond
  <2>2. QED
    BY <2>1 DEF EmptyMap
<1>3. CASE Write
  <2>1. PICK t \in EventTypes, n \in FileNames :
          /\ DOMAIN writers' = DOMAIN writers \union {t}
          /\ \A u \in DOMAIN writers : writers'[u] = writers[u]
          /\ writers'[t] = n
          /\ n.type = t /\ n.set = file_set_id
          /\ DOMAIN files' = DOMAIN files \union {n}
          /\ ~files'[n].footer
          /\ \A m \in DOMAIN files : m # n => files'[m] = files[m]
          /\ UNCHANGED file_set_id
    BY <1>3, WriteGrows
  <2>2. ASSUME NEW u \in DOMAIN writers, u # t
        PROVE  /\ writers'[u] \in DOMAIN files'
               /\ ~files'[writers'[u]].footer
               /\ writers'[u].type = u
               /\ writers'[u].set = file_set_id'
    <3>1. writers'[u] = writers[u] /\ writers[u] # n
      BY <2>1, <2>2
    <3>2. QED
      BY <2>1, <2>2, <3>1
  <2>3. QED
    BY <2>1, <2>2
<1>4. CASE WriteFails
  <2>1. \A u \in DOMAIN writers : files'[writers'[u]] = files[writers[u]]
                                  /\ writers'[u] \in DOMAIN files'
    BY <1>4, WriteFailsGrows DEF FilesGrow
  <2>2. QED
    BY <1>4, <2>1, WriteFailsGrows
<1>5. QED
  BY <1>1, <1>2, <1>3, <1>4, StepKinds

\* Files that have no writer stay in the past.
LEMMA OtherFilesStep ==
  ASSUME IndInv, Next
  PROVE  OtherFilesArePast'
<1> USE DEF IndInv, OtherFilesArePast
<1>0. /\ clock \in Nat /\ file_set_id \in Nat
      /\ \A n \in DOMAIN files : n.stamp \in Nat /\ n.set \in Nat
  BY MaxClockAssumption, MaxU64Assumption DEF TypeOK, StorageTypeOK, FileNames
<1>1. CASE QuietStep \/ UNCHANGED vars
  <2>1. UNCHANGED storageVars /\ (Running' => Running)
    BY <1>1, QuietFacts DEF vars, Running, Alive
  <2>2. QED
    BY <2>1 DEF storageVars, OpenFiles
<1>2. CASE DroppingStep
  BY <1>2, DroppingFacts DEF StorageDrop
<1>3. CASE ClosingStep
  BY <1>3, ClosingFacts DEF DrainWriters
<1>4. CASE Rotate
  <2>1. /\ DOMAIN files' = DOMAIN files /\ UNCHANGED clock
        /\ file_set_id' = file_set_id + 1
    BY <1>4, RotateFacts DEF DrainWriters
  <2>2. Running
    BY <1>4 DEF Rotate, Running, Alive
  <2>3. ASSUME NEW n \in DOMAIN files
        PROVE  n.stamp < clock \/ (n.stamp = clock /\ n.set < file_set_id + 1)
    <3>1. CASE n \in OpenFiles
      <4>1. n.set = file_set_id /\ n.stamp <= clock
        BY <3>1 DEF OpenFiles, WritersAgreeWithFiles
      <4>2. QED
        BY <4>1, <1>0
    <3>2. CASE n \notin OpenFiles
      BY <3>2, <2>2, <1>0
    <3>3. QED
      BY <3>1, <3>2
  <2>4. QED
    BY <2>1, <2>3
<1>5. CASE Write
  <2>1. PICK t \in EventTypes, n \in FileNames :
          /\ DOMAIN writers' = DOMAIN writers \union {t}
          /\ \A u \in DOMAIN writers : writers'[u] = writers[u]
          /\ writers'[t] = n
          /\ n.stamp <= clock'
          /\ DOMAIN files' = DOMAIN files \union {n}
          /\ clock <= clock'
          /\ UNCHANGED file_set_id
    BY <1>5, WriteGrows
  <2>2. OpenFiles \union {n} \subseteq OpenFiles'
    BY <2>1 DEF OpenFiles
  <2>3. clock' \in Nat /\ Running
    BY <1>5, TypeStep, MaxClockAssumption
    DEF TypeOK, StorageTypeOK, Write, Running, Alive
  <2>4. QED
    BY <1>0, <2>1, <2>2, <2>3
<1>6. CASE WriteFails
  <2>1. clock' \in Nat
    BY <1>6, TypeStep, MaxClockAssumption DEF TypeOK, StorageTypeOK
  <2>2. ~Running'
    BY <1>6 DEF WriteFails, StopMetrics, Running, Alive
  <2>3. QED
    BY <1>0, <1>6, <2>1, <2>2, WriteFailsGrows
<1>7. CASE Restart
  <2>1. clock' = clock + 1 /\ UNCHANGED files
    BY <1>7 DEF Restart, StorageReopen, LaterMillisecond
  <2>2. QED
    BY <1>0, <2>1
<1>8. QED
  BY <1>1, <1>2, <1>3, <1>4, <1>5, <1>6, <1>7, StepKinds

\* One log brings at most one rotation.
LEMMA FewSetsStep ==
  ASSUME IndInv, Next
  PROVE  SetsAreFewerThanLogs'
<1> USE DEF IndInv, SetsAreFewerThanLogs
<1>0. /\ file_set_id \in Nat /\ run_start \in Nat /\ Len(delivered) \in Nat
      /\ run_start <= Len(delivered)
  BY MaxU64Assumption DEF TypeOK, StorageTypeOK, RunTypeOK
<1>1. CASE UNCHANGED vars
  BY <1>1 DEF vars, storageVars, historyVars
<1>2. CASE \E l \in Logs : Receive(l)
  <2>1. PICK l \in Logs : Receive(l)
    BY <1>2
  <2>2. Len(delivered') = Len(delivered) + 1
    BY <2>1 DEF Receive, TypeOK, RunTypeOK
  <2>3. /\ pc \notin {"validate", "rotate"} /\ pc' = "validate"
        /\ UNCHANGED <<file_set_id, run_start>>
    BY <2>1 DEF Receive, storageVars
  <2>4. QED
    BY <1>0, <2>2, <2>3
<1>3. CASE Rotate
  BY <1>0, <1>3, RotateFacts DEF Rotate, historyVars
<1>4. CASE Validate
  BY <1>0, <1>4 DEF Validate, historyVars, storageVars
<1>5. CASE Restart
  BY <1>0, <1>5 DEF Restart, StorageReopen, LaterMillisecond
<1>6. CASE Write \/ WriteFails
  <2>1. UNCHANGED <<file_set_id, delivered, run_start>>
    BY <1>6 DEF Write, WriteFails, WriteEvent, WriteEventFails, historyVars
  <2>2. pc' \notin {"validate", "rotate"} /\ pc \notin {"validate", "rotate"}
    BY <1>6 DEF Write, WriteFails, StopMetrics
  <2>3. QED
    BY <1>0, <2>1, <2>2
<1>7. CASE DroppingStep \/ ClosingStep
  <2>1. /\ UNCHANGED <<file_set_id, delivered, run_start>>
        /\ pc' \notin {"validate", "rotate"}
    BY <1>7 DEF DroppingStep, ClosingStep, ConnectRejected, ListenFails, Return,
         Crash, SigintKills, Die, ReturnError, StorageDrop, Interrupted,
         InterruptedCloseFails, RotateFails, CloseWriters, CloseWritersFails,
         RotateWritersFails, StopMetrics, historyVars
  <2>2. QED
    BY <1>0, <2>1
<1>8. CASE QuietStep /\ ~(\E l \in Logs : Receive(l)) /\ ~Validate
  <2>1. UNCHANGED <<file_set_id, delivered, run_start>>
    BY <1>8 DEF QuietStep, StartRejected, Start, ConnectOk, ConnectFails,
         SubscribeOk, SubscribeFails, BackoffElapsed, Listen, StreamEnds,
         MissingMetadata, FirstTarget, NoRotation, DecodeIgnored, DecodeFails,
         DecodeEvent, SigintSeen, SigintLost, Signalled, storageVars, historyVars
  <2>2. pc' \in {"validate", "rotate"} => pc \in {"validate", "rotate"}
    BY <1>8 DEF QuietStep, StartRejected, Start, ConnectOk, ConnectFails,
         SubscribeOk, SubscribeFails, BackoffElapsed, Listen, StreamEnds,
         MissingMetadata, FirstTarget, NoRotation, DecodeIgnored, DecodeFails,
         DecodeEvent, SigintSeen, SigintLost, Signalled, ReturnError,
         SleepBeforeReconnecting, StopMetrics
  <2>3. QED
    BY <1>0, <2>1, <2>2
<1>9. QED
  BY <1>1, <1>2, <1>3, <1>4, <1>5, <1>6, <1>7, <1>8, StepKinds

\* Rows are numbers of logs that were delivered.
LEMMA RowsDeliveredStep ==
  ASSUME IndInv, Next
  PROVE  RowsAreDelivered'
<1> USE DEF IndInv, RowsAreDelivered, RowsOf
<1>0. Len(delivered) \in Nat
  BY DEF TypeOK, RunTypeOK
<1>1. Len(delivered') \in Nat /\ Len(delivered') >= Len(delivered)
  <2>1. CASE \E l \in Logs : Receive(l)
    <3>1. PICK l \in Logs : delivered' = Append(delivered, l)
      BY <2>1 DEF Receive
    <3>2. QED
      BY <3>1 DEF TypeOK, RunTypeOK
  <2>2. CASE UNCHANGED delivered
    BY <1>0, <2>2
  <2>3. CASE Next /\ ~(\E l \in Logs : Receive(l))
    <3>1. UNCHANGED delivered
      BY <2>3 DEF Next, Connecting, Selecting, Processing, Environment, Ended,
           StartRejected, Start, ConnectRejected, ConnectOk, ConnectFails,
           SubscribeOk, SubscribeFails, BackoffElapsed, Listen, ListenFails,
           StreamEnds, Interrupted, InterruptedCloseFails, MissingMetadata,
           Validate, FirstTarget, NoRotation, Rotate, RotateFails,
           DecodeIgnored, DecodeFails, DecodeEvent, Write, WriteFails, Return,
           Crash, SigintKills, SigintSeen, SigintLost, Die, Signalled, Restart,
           historyVars, vars
    <3>2. QED
      BY <2>2, <3>1
  <2>4. QED
    BY <2>1, <2>3
<1>2. CASE UNCHANGED files
  BY <1>0, <1>1, <1>2
<1>3. CASE ClosingStep \/ Rotate
  <2>1. /\ DOMAIN files' = DOMAIN files
        /\ \A n \in DOMAIN files : files'[n].rows = files[n].rows
    BY <1>3, ClosingFacts, RotateFacts, DrainGrows
  <2>2. QED
    BY <1>0, <1>1, <2>1 DEF RowsIn
<1>4. CASE Write
  <2>1. PICK n \in FileNames :
          /\ DOMAIN files' = DOMAIN files \union {n}
          /\ \/ /\ n \in DOMAIN files
                /\ RowsIn(files'[n]) \subseteq RowsIn(files[n]) \union {Len(delivered)}
             \/ RowsIn(files'[n]) \subseteq {Len(delivered)}
          /\ \A m \in DOMAIN files : m # n => files'[m] = files[m]
    BY <1>4, WriteGrows
  <2>2. Len(delivered) \in 1 .. Len(delivered')
    BY <1>0, <1>1, <1>4
    DEF Write, LogInHandIsBelowTarget, InHand, TypeOK, RunTypeOK
  <2>3. QED
    BY <1>0, <1>1, <2>1, <2>2
<1>5. CASE WriteFails
  <2>1. \A n \in DOMAIN files' : \/ RowsIn(files'[n]) = {}
                                 \/ n \in DOMAIN files /\ files'[n] = files[n]
    BY <1>5, WriteFailsGrows
  <2>2. QED
    BY <1>0, <1>1, <2>1
<1>6. CASE QuietStep \/ DroppingStep \/ Restart \/ UNCHANGED vars
  BY <1>2, <1>6, QuietFacts, DroppingFacts
  DEF storageVars, StorageDrop, Restart, StorageReopen, LaterMillisecond, vars
<1>7. QED
  BY <1>3, <1>4, <1>5, <1>6, StepKinds

\* After arming, the log in hand is below the target.
LEMMA ArmedFacts ==
  ASSUME IndInv, InHand, ArmRotation
  PROVE  /\ next_rotation_block' # None
         /\ log.block < next_rotation_block' \/ next_rotation_block' = MaxU64
<1>1. log.block \in 0 .. MaxU64
  BY LogInHandType DEF IndInv, TypeOK, LogType
<1>2. config.flush_blocks \in Nat /\ config.flush_blocks > 0
  BY ConfigsAssumption
  DEF IndInv, TypeOK, RunTypeOK, ConfigType, StartedWithFlushBlocks, InHand
<1>3. /\ next_rotation_block' \in 0 .. MaxU64
      /\ log.block < next_rotation_block' \/ next_rotation_block' = MaxU64
  BY <1>1, <1>2, SaturatingAddFacts DEF ArmRotation
<1>4. next_rotation_block' # None
  BY <1>3, NoneAssumption, MaxU64Assumption
<1>5. QED
  BY <1>3, <1>4

\* Only Start leaves pc = "start" for a running process, and it has checked.
LEMMA StartedStep ==
  ASSUME IndInv, Next
  PROVE  StartedWithFlushBlocks'
<1> USE DEF IndInv, StartedWithFlushBlocks
<1>1. CASE UNCHANGED vars
  BY <1>1 DEF vars
<1>2. CASE Start
  BY <1>2, ConfigsAssumption DEF Start, TypeOK, RunTypeOK, ConfigType
<1>3. CASE Next /\ ~Start /\ ~Ended
  <2>1. /\ UNCHANGED config
        /\ pc' \in {"start", "exited", "dead"} \/ pc \notin {"start", "exited", "dead"}
    BY <1>3 DEF Next, Connecting, Selecting, Processing, Environment,
       StartRejected, ConnectRejected, ConnectOk, ConnectFails,
       SubscribeOk, SubscribeFails, BackoffElapsed, Listen, ListenFails, Receive,
       StreamEnds, Interrupted, InterruptedCloseFails, MissingMetadata,
       Validate, FirstTarget, NoRotation, Rotate, RotateFails,
       DecodeIgnored, DecodeFails, DecodeEvent, Write, WriteFails, Return,
       Crash, SigintKills, SigintSeen, SigintLost, Die, Signalled, Restart,
       ReturnError, StopMetrics, SleepBeforeReconnecting, Alive
  <2>2. QED
    BY <1>3, <2>1
<1>4. QED
  BY <1>1, <1>2, <1>3 DEF Ended

\* The log in hand is compared with the target, and re-arms it, before it is
\* written.
LEMMA LogInHandStep ==
  ASSUME IndInv, Next
  PROVE  LogInHandIsBelowTarget'
<1> USE DEF IndInv, LogInHandIsBelowTarget, InHand, historyVars
<1>0. /\ Len(delivered) \in Nat /\ run_start \in Nat /\ run_start <= Len(delivered)
      /\ next_rotation_block \in Nat \/ next_rotation_block = None
  BY MaxU64Assumption DEF TypeOK, RunTypeOK
<1>1. CASE UNCHANGED vars
  BY <1>1 DEF vars, log
<1>2. CASE \E l \in Logs : Receive(l)
  <2>1. PICK l \in Logs : Receive(l)
    BY <1>2
  <2>2. Len(delivered') = Len(delivered) + 1
    BY <2>1 DEF Receive, TypeOK, RunTypeOK
  <2>3. QED
    BY <1>0, <2>1, <2>2 DEF Receive
<1>3. CASE Validate
  BY <1>3 DEF Validate
<1>4. CASE FirstTarget \/ Rotate
  <2>1. /\ next_rotation_block' # None
        /\ log.block < next_rotation_block' \/ next_rotation_block' = MaxU64
    BY <1>4, ArmedFacts DEF FirstTarget, Rotate
  <2>2. UNCHANGED <<delivered, run_start>> /\ pc' = "decode" /\ pc = "rotate"
    BY <1>4 DEF FirstTarget, Rotate
  <2>3. QED
    BY <2>1, <2>2 DEF log
<1>5. CASE NoRotation
  <2>1. /\ next_rotation_block # None
        /\ log.block < next_rotation_block
    <3>1. log.block \in Nat
      BY <1>5, LogInHandType, MaxU64Assumption DEF TypeOK, LogType, NoRotation
    <3>2. QED
      BY <1>0, <1>5, <3>1 DEF NoRotation, RotationDue
  <2>2. QED
    BY <1>5, <2>1 DEF NoRotation, log
<1>6. CASE DecodeEvent
  BY <1>6 DEF DecodeEvent, Decoded, log
<1>7. CASE SigintLost
  BY <1>7 DEF SigintLost, Signalled, log
<1>8. CASE Next /\ ~(\E l \in Logs : Receive(l)) /\ ~Validate /\ ~FirstTarget
           /\ ~Rotate /\ ~NoRotation /\ ~DecodeEvent /\ ~SigintLost /\ ~Ended
  <2>1. pc' \notin {"validate", "rotate", "decode", "write"}
    BY <1>8 DEF Next, Connecting, Selecting, Processing, Environment,
       StartRejected, Start, ConnectRejected, ConnectOk, ConnectFails,
       SubscribeOk, SubscribeFails, BackoffElapsed, Listen, ListenFails,
       StreamEnds, Interrupted, InterruptedCloseFails, MissingMetadata,
       RotateFails, DecodeIgnored, DecodeFails, Write, WriteFails, Return,
       Crash, SigintKills, SigintSeen, Die, Signalled, Restart,
       ReturnError, StopMetrics, SleepBeforeReconnecting
  <2>2. QED
    BY <2>1
<1>9. QED
  BY <1>1, <1>2, <1>3, <1>4, <1>5, <1>6, <1>7, <1>8 DEF Ended

\* A row enters an open file only below the target, and the target moves only
\* when no file is open.
LEMMA OpenRowsStep ==
  ASSUME IndInv, Next
  PROVE  OpenRowsBelowTarget'
<1> USE DEF IndInv, OpenRowsBelowTarget, OpenFiles, RowsOf
<1>0. \A t \in DOMAIN writers : RowsIn(files[writers[t]]) \subseteq DOMAIN delivered
  BY DEF WritersAgreeWithFiles, RowsAreDelivered, TypeOK, RunTypeOK
<1>1. CASE DroppingStep \/ ClosingStep \/ Rotate \/ Restart
  <2>1. writers' = EmptyMap
    BY <1>1, DroppingFacts, ClosingFacts, RotateFacts
    DEF StorageDrop, DrainWriters, Restart, StorageReopen, LaterMillisecond
  <2>2. QED
    BY <2>1 DEF EmptyMap
<1>2. CASE FirstTarget
  <2>1. \A t \in DOMAIN writers : RowsIn(files[writers[t]]) = {}
    BY <1>2 DEF FirstTarget
  <2>2. QED
    BY <1>2, <2>1 DEF FirstTarget, storageVars
<1>3. CASE \E l \in Logs : Receive(l)
  <2>1. PICK l \in Logs : Receive(l)
    BY <1>3
  <2>2. \A i \in DOMAIN delivered : delivered'[i] = delivered[i]
    BY <2>1 DEF Receive, TypeOK, RunTypeOK
  <2>3. QED
    BY <1>0, <2>1, <2>2 DEF Receive, storageVars
<1>4. CASE Write
  <2>1. PICK t \in EventTypes, n \in FileNames :
          /\ DOMAIN writers' = DOMAIN writers \union {t}
          /\ \A u \in DOMAIN writers : writers'[u] = writers[u]
          /\ writers'[t] = n
          /\ n.type = t
          /\ \/ /\ t \in DOMAIN writers
                /\ RowsIn(files'[n]) \subseteq RowsIn(files[n]) \union {Len(delivered)}
             \/ RowsIn(files'[n]) \subseteq {Len(delivered)}
          /\ \A m \in DOMAIN files : m # n => files'[m] = files[m]
    BY <1>4, WriteGrows
  <2>2. UNCHANGED <<delivered, next_rotation_block>>
    BY <1>4 DEF Write, historyVars
  <2>3. /\ next_rotation_block # None
        /\ \/ delivered[Len(delivered)].block < next_rotation_block
           \/ next_rotation_block = MaxU64
    BY <1>4 DEF Write, LogInHandIsBelowTarget, log
  <2>4. ASSUME NEW u \in DOMAIN writers', NEW i \in RowsIn(files'[writers'[u]])
        PROVE  delivered[i].block < next_rotation_block \/ next_rotation_block = MaxU64
    <3>1. CASE u = t
      BY <2>1, <2>3, <2>4, <3>1
    <3>2. CASE u # t
      <4>1. u \in DOMAIN writers /\ writers'[u] = writers[u] /\ writers[u] # n
        BY <2>1, <3>2 DEF WritersAgreeWithFiles
      <4>2. files'[writers[u]] = files[writers[u]]
        BY <2>1, <4>1 DEF WritersAgreeWithFiles
      <4>3. QED
        BY <2>4, <4>1, <4>2
    <3>3. QED
      BY <3>1, <3>2
  <2>5. QED
    BY <2>2, <2>3, <2>4
<1>5. CASE WriteFails
  <2>1. UNCHANGED <<delivered, next_rotation_block>>
    BY <1>5 DEF WriteFails, historyVars
  <2>2. \A u \in DOMAIN writers' :
          \/ RowsIn(files'[writers'[u]]) = {}
          \/ u \in DOMAIN writers /\ files'[writers'[u]] = files[writers[u]]
    BY <1>5, WriteFailsGrows DEF WritersAgreeWithFiles
  <2>3. QED
    BY <2>1, <2>2
<1>6. CASE UNCHANGED vars
  BY <1>6 DEF vars, storageVars, historyVars
<1>7. CASE QuietStep /\ ~FirstTarget /\ ~(\E l \in Logs : Receive(l))
  <2>1. UNCHANGED <<next_rotation_block, delivered>>
    BY <1>7 DEF QuietStep, StartRejected, Start, ConnectOk, ConnectFails,
         SubscribeOk, SubscribeFails, BackoffElapsed, Listen, StreamEnds,
         MissingMetadata, Validate, NoRotation, DecodeIgnored, DecodeFails,
         DecodeEvent, SigintSeen, SigintLost, Signalled, historyVars
  <2>2. UNCHANGED <<writers, files>>
    BY <1>7, QuietFacts DEF storageVars
  <2>3. QED
    BY <2>1, <2>2
<1>8. QED
  BY <1>1, <1>2, <1>3, <1>4, <1>5, <1>6, <1>7, StepKinds

-----------------------------------------------------------------------------
(* Theorems *)

\* The invariant holds when the first process starts.
LEMMA InitIndInv == Init => IndInv
<1> SUFFICES ASSUME Init PROVE IndInv
  OBVIOUS
<1> USE DEF Init, StorageInit, EmptyMap
<1>1. StorageTypeOK
  BY MaxU64Assumption, MaxClockAssumption DEF StorageTypeOK
<1>2. RunTypeOK
  <2>1. /\ next_rotation_block \in 0 .. MaxU64 \union {None}
        /\ result \in {None, "ok", "err"}
        /\ metrics \in MetricsType
    BY MetricsFacts
  <2>2. handler \in BOOLEAN /\ notified \in BOOLEAN /\ interrupted \in BOOLEAN
    BY Zenon
  <2>3. /\ delivered \in Seq(Logs) /\ Len(delivered) = 0
        /\ reconnect_attempt \in 0 .. MaxU32
    BY MaxU32Assumption
  <2>4. Len(delivered) <= MaxLogs /\ run_start \in 0 .. Len(delivered)
    BY <2>3, MaxLogsAssumption
  <2>5. QED
    BY <2>1, <2>2, <2>3, <2>4 DEF RunTypeOK
<1>3. /\ WritersAgreeWithFiles /\ OtherFilesArePast /\ RowsAreDelivered
      /\ OpenRowsBelowTarget /\ StartedWithFlushBlocks
  BY DEF WritersAgreeWithFiles, OtherFilesArePast, RowsAreDelivered,
         OpenRowsBelowTarget, StartedWithFlushBlocks, OpenFiles
<1>4. SetsAreFewerThanLogs /\ LogInHandIsBelowTarget
  BY DEF SetsAreFewerThanLogs, LogInHandIsBelowTarget, InHand
<1>5. QED
  BY <1>1, <1>2, <1>3, <1>4 DEF IndInv, TypeOK

\* Every step preserves it.
LEMMA NextIndInv == IndInv /\ [Next]_vars => IndInv'
<1>1. ASSUME IndInv, Next
      PROVE  IndInv'
  BY <1>1, TypeStep, WritersAgreeStep, OtherFilesStep, FewSetsStep,
     RowsDeliveredStep, StartedStep, LogInHandStep, OpenRowsStep DEF IndInv
<1>2. ASSUME IndInv, UNCHANGED vars
      PROVE  IndInv'
  <2>1. TypeOK'
    BY <1>2 DEF IndInv, TypeOK, StorageTypeOK, RunTypeOK, vars, storageVars,
                retryVars, signalVars, metricsVars, historyVars
  <2>2. /\ WritersAgreeWithFiles' /\ OtherFilesArePast' /\ SetsAreFewerThanLogs'
        /\ RowsAreDelivered' /\ StartedWithFlushBlocks'
    BY <1>2 DEF IndInv, WritersAgreeWithFiles, OtherFilesArePast, RowsAreDelivered,
       SetsAreFewerThanLogs, StartedWithFlushBlocks, Running, Alive, OpenFiles,
       RowsOf, vars, storageVars, historyVars
  <2>3. LogInHandIsBelowTarget' /\ OpenRowsBelowTarget'
    BY <1>2 DEF IndInv, LogInHandIsBelowTarget, InHand, OpenRowsBelowTarget,
       OpenFiles, RowsOf, log, vars, storageVars, historyVars
  <2>4. QED
    BY <2>1, <2>2, <2>3 DEF IndInv
<1>3. QED
  BY <1>1, <1>2

\* The inductive invariant: whatever the provider delivers, whatever fails and
\* however often the process is stopped and started.
THEOREM Invariance == Spec => []IndInv
<1>1. QED
  BY InitIndInv, NextIndInv, PTL DEF Spec

\* Type correctness of run(), its storage and its metrics.
THEOREM TypeCorrect == Spec => []TypeOK
<1>1. IndInv => TypeOK
  BY DEF IndInv
<1>2. QED
  BY <1>1, Invariance, PTL

\* Rows outside closed files are always of blocks before the rotation target.
THEOREM RotationBoundsOpenRows == Spec => []OpenRowsBelowTarget
<1>1. IndInv => OpenRowsBelowTarget
  BY DEF IndInv
<1>2. QED
  BY <1>1, Invariance, PTL

\* No step of any process truncates a file, removes one or changes a closed one.
THEOREM AppendOnly == Spec => FilesAreAppendOnly
<1>1. IndInv /\ [Next]_vars => [FilesGrow]_vars
  BY FilesGrowStep
<1>2. QED
  BY <1>1, Invariance, PTL DEF Spec, FilesAreAppendOnly
=============================================================================
