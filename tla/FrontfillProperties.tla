------------------------- MODULE FrontfillProperties -------------------------
(***************************************************************************)
(* What the frontfill process promises of the rows it was given, of the    *)
(* metrics it exports and of the way it reconnects and stops.              *)
(***************************************************************************)
EXTENDS Frontfill, FiniteSets

LogType == [topic0 : STRING, well_formed : BOOLEAN, block : 0 .. MaxU64,
            index : Nat, has_metadata : BOOLEAN]

ConfigType == [flush_blocks : Nat, metrics_enabled : BOOLEAN,
               bind_ok : BOOLEAN, auth_key : {"none", "empty", "given"},
               auth_header : {"authorization", "other"}]

ASSUME LogsAssumption    == Logs \subseteq LogType
ASSUME ConfigsAssumption == Configs \subseteq ConfigType
ASSUME MaxU32Assumption  == MaxU32 \in Nat

\* 2^64 - 1 logs are out of reach, and with them as many rotations.
ASSUME MaxLogsAssumption == MaxLogs \in Nat /\ MaxLogs < MaxU64

ASSUME NoneAssumption == None \notin Nat \union {"ok", "err"}

-----------------------------------------------------------------------------
FileNames == [type : EventTypes, stamp : 0 .. MaxClock, set : 0 .. MaxU64]
FileType  == [rows : Seq(Nat), footer : BOOLEAN]

MetricsType ==
  [ws_connected : {0, 1}, current_block_number : 0 .. MaxU64,
   logs_total : Nat, logs_by_type_total : [EventTypes -> Nat],
   decode_errors_total : Nat, write_errors_total : Nat,
   missing_metadata_total : Nat, rotate_total : Nat, shutdown_total : Nat]

StorageTypeOK ==
  /\ DOMAIN writers \subseteq EventTypes
  /\ writers \in [DOMAIN writers -> FileNames]
  /\ DOMAIN schemas \subseteq EventTypes
  /\ \A t \in DOMAIN schemas : schemas[t] = Columns[t]
  /\ file_set_id \in 0 .. MaxU64
  /\ DOMAIN files \subseteq FileNames
  /\ files \in [DOMAIN files -> FileType]
  /\ clock \in 0 .. MaxClock

RunTypeOK ==
  /\ config \in Configs
  /\ pc \in {"start", "connect", "subscribe", "backoff", "loop", "select",
             "validate", "rotate", "decode", "write", "stopping", "exited",
             "dead"}
  /\ next_rotation_block \in 0 .. MaxU64 \union {None}
  /\ reconnect_attempt \in 0 .. MaxU32
  /\ delay \in 0 .. 32
  /\ handler \in BOOLEAN
  /\ notified \in BOOLEAN
  /\ interrupted \in BOOLEAN
  /\ runtime \in {"off", "on", "stopping", "stopped", "dropped"}
  /\ metrics \in MetricsType
  /\ result \in {None, "ok", "err"}
  /\ delivered \in Seq(Logs)
  /\ Len(delivered) <= MaxLogs
  /\ run_start \in 0 .. Len(delivered)

\* The types of the variables: ParquetStorage's, then those of run().
TypeOK == StorageTypeOK /\ RunTypeOK

-----------------------------------------------------------------------------
(* Rows *)

InHand == pc \in {"validate", "rotate", "decode", "write"}

Streaming == InHand \/ pc \in {"loop", "select"}

Running == Alive /\ pc # "stopping"

\* The rows of this process that write_event should have accepted by now: all
\* the decodable logs it was given, but the one in hand.
DueRows == {i \in (run_start + 1) .. Len(delivered) :
              Decoded(delivered[i]) /\ ~(InHand /\ i = Len(delivered))}

\* The files that can be read, or will be when their open writer is closed.
KeptFiles == {n \in DOMAIN files : files[n].footer \/ n \in OpenFiles}

\* While run() is going, every log it was given and could decode is a row of
\* exactly one file that is closed or will be: nothing is lost by a rotation, a
\* reconnection or a file of the same name, and nothing is written twice.
EveryRowIsKeptOnce ==
  Running => \A i \in DueRows :
               \E n \in KeptFiles :
                 /\ i \in RowsOf(n)
                 /\ \A m \in DOMAIN files : i \in RowsOf(m) => m = n

\* When run() returns Ok, every such row can be read back from the directory.
GracefulExitKeepsEveryRow ==
  result = "ok" => DueRows \subseteq ReadableRows

\* Rows that are not on disk in a closed file are of blocks before the rotation
\* target, whatever order blocks arrive in: only such rows can be lost in a crash.
\* A target that saturated at u64::MAX no longer bounds.
OpenRowsBelowTarget ==
  \A n \in OpenFiles : \A i \in RowsOf(n) :
    /\ next_rotation_block # None
    /\ delivered[i].block < next_rotation_block \/ next_rotation_block = MaxU64

InOrder == \A i, j \in DOMAIN delivered :
             i < j => delivered[i].block <= delivered[j].block

\* What flush_blocks means to its user: as long as blocks have arrived in
\* order, the rows of one file are less than flush_blocks blocks apart.
FilesSpanFlushBlocks ==
  InOrder => \A n \in DOMAIN files : \A i, j \in RowsOf(n) :
               delivered[i].block < delivered[j].block + config.flush_blocks

FilesGrow ==
  \A n \in DOMAIN files :
    /\ n \in DOMAIN files'
    /\ files[n].footer => files'[n] = files[n]
    /\ Len(files[n].rows) <= Len(files'[n].rows)

\* No step shortens a file or touches one that has a footer, in this process or
\* one that starts in a later millisecond: File::create never meets a name that
\* was used before.  When the process "restarts within the same millisecond" as the
\* last file of the one before it, "files may collide", as
\* spec/CODE_REVIEW_20260216.md:194-196 says: LaterMillisecond leaves that out.
FilesAreAppendOnly == [][FilesGrow]_vars

\* run() is a caller that keeps the protocol of EventSink, and so has what the
\* contract of the trait promises: it stops at the first error of the sink, and
\* no order of logs, rotations, signals, crashes and restarts unsettles a row
\* that could be read.
Sink == INSTANCE EventSink WITH
  Rows     <- 1 .. MaxLogs,
  status   <- IF Running THEN "open" ELSE "done",
  given    <- 1 .. Len(delivered),
  accepted <- UNION {RowsOf(n) : n \in DOMAIN files},
  pending  <- UNION {RowsOf(n) : n \in OpenFiles},
  durable  <- ReadableRows

KeepsSinkContract == Sink!SinkSpec

-----------------------------------------------------------------------------
(* The invariant that makes the properties of files inductive *)

\* An open writer has a file of its type and of the current set, without footer.
WritersAgreeWithFiles ==
  \A t \in DOMAIN writers :
    /\ writers[t] \in DOMAIN files
    /\ ~files[writers[t]].footer
    /\ writers[t].type = t
    /\ writers[t].set = file_set_id

\* No file was created later than the last reading of the clock, and no file
\* without a writer can have the name of the next one.
OtherFilesArePast ==
  \A n \in DOMAIN files :
    /\ n.stamp <= clock
    /\ Running /\ n \notin OpenFiles =>
         n.stamp < clock \/ (n.stamp = clock /\ n.set < file_set_id)

\* Each log rotates at most once, so the file-set number never saturates.
SetsAreFewerThanLogs ==
  file_set_id <= Len(delivered) - run_start
                   - (IF pc \in {"validate", "rotate"} THEN 1 ELSE 0)

RowsAreDelivered == \A n \in DOMAIN files : RowsOf(n) \subseteq 1 .. Len(delivered)

\* run() does not get past its first check with flush_blocks = 0.
StartedWithFlushBlocks ==
  pc \notin {"start", "exited", "dead"} => config.flush_blocks > 0

\* The log that is about to be written is below the target.
LogInHandIsBelowTarget ==
  /\ InHand => Len(delivered) > run_start
  /\ pc = "write" => log.topic0 \in EventTypes
  /\ pc \in {"decode", "write"} =>
       /\ next_rotation_block # None
       /\ log.block < next_rotation_block \/ next_rotation_block = MaxU64

IndInv ==
  /\ TypeOK
  /\ WritersAgreeWithFiles
  /\ OtherFilesArePast
  /\ SetsAreFewerThanLogs
  /\ RowsAreDelivered
  /\ StartedWithFlushBlocks
  /\ LogInHandIsBelowTarget
  /\ OpenRowsBelowTarget

-----------------------------------------------------------------------------
(* What makes the properties of rows inductive, besides IndInv *)

\* The log in hand is not a row yet.
LogInHandIsNoRow ==
  InHand => \A n \in DOMAIN files : Len(delivered) \notin RowsOf(n)

\* run() has a result when it has left its loop, and only then.
ResultIsLast == result # None => ~Running

\* A process that has ended, or that starts, holds no writer.
IdleHasNoWriter == ~Alive \/ pc = "start" => writers = EmptyMap

KeepInv ==
  /\ EveryRowIsKeptOnce
  /\ GracefulExitKeepsEveryRow
  /\ LogInHandIsNoRow
  /\ ResultIsLast
  /\ IdleHasNoWriter

\* As long as blocks arrive in order, the target is at most flush_blocks after
\* the block of the last log and of each row of an open file: the log that armed
\* it came first.  The log about to be written is below it, or it is a
\* saturated target that has just been armed and no open file has a row.
TargetIsNear ==
  (InOrder /\ next_rotation_block # None) =>
    /\ Len(delivered) > run_start
    /\ next_rotation_block <= log.block + config.flush_blocks
    /\ \A n \in OpenFiles : \A i \in RowsOf(n) :
         next_rotation_block <= delivered[i].block + config.flush_blocks
    /\ pc \in {"decode", "write"} =>
         log.block < next_rotation_block \/ \A n \in OpenFiles : RowsOf(n) = {}

SpanInv == FilesSpanFlushBlocks /\ TargetIsNear

-----------------------------------------------------------------------------
(* Metrics *)

\* The ws_connected gauge follows the stream while the runtime is in place, and
\* is 0 once the runtime is being shut down.
GaugeFollowsStream ==
  /\ runtime = "on" => (metrics.ws_connected = 1 <=> Streaming)
  /\ runtime \in {"stopping", "stopped"} => metrics.ws_connected = 0

RowsOfType(t) == {i \in (run_start + 1) .. Len(delivered) :
                    /\ delivered[i].topic0 = t
                    /\ \E n \in DOMAIN files : i \in RowsOf(n)}

\* The per-type counters are the rows in the files, except for one event that
\* was counted and is not yet, or could not be, written.
TypeCountersMatchRows ==
  runtime # "off" =>
    LET counted(t) == metrics.logs_by_type_total[t]
        written(t) == Cardinality(RowsOfType(t))
        unwritten  == {t \in EventTypes : counted(t) # written(t)}
    IN /\ \A t \in unwritten : counted(t) = written(t) + 1 /\ t = log.topic0
       /\ unwritten # {} => pc \in {"write", "dead"} \/ metrics.write_errors_total = 1

\* Every log that was delivered is counted by exactly one of: logs_total, or
\* missing_metadata_total; and rotate_total is the file-set number.
LogCountersMatchDeliveries ==
  (runtime # "off" /\ pc \notin {"validate", "dead"}) =>
    /\ metrics.logs_total + metrics.missing_metadata_total
         = Len(delivered) - run_start
    /\ metrics.rotate_total = file_set_id

\* What makes these three inductive: the runtime is in place exactly while run()
\* is in its loop, and the updates that one log makes are made in order.
RuntimeFollowsRun ==
  /\ pc = "start" => /\ runtime = "off" /\ metrics = RegisteredMetrics
                     /\ Len(delivered) = run_start /\ file_set_id = 0
  /\ Running => runtime \in {"off", "on"}
  /\ pc = "stopping" => runtime \in {"off", "stopping"}
  /\ ~Alive => runtime \in {"off", "stopped", "dropped"}

LogInHandIsUncounted ==
  (runtime = "on" /\ pc = "validate") =>
    /\ metrics.logs_total + metrics.missing_metadata_total + 1
         = Len(delivered) - run_start
    /\ metrics.rotate_total = file_set_id

\* The event that its type's counter is ahead of the rows by.
CountedIsUnwritten ==
  runtime # "off" => \A t \in EventTypes :
    LET ahead == metrics.logs_by_type_total[t] - Cardinality(RowsOfType(t)) IN
    /\ ahead \in {0, 1}
    /\ runtime = "on" => metrics.write_errors_total = 0
    /\ runtime = "on" => (ahead = 1 <=> pc = "write" /\ t = log.topic0)
    /\ ahead = 1 => /\ Len(delivered) > run_start /\ t = log.topic0
                    /\ pc \in {"write", "dead"} \/ metrics.write_errors_total = 1

CountInv ==
  /\ GaugeFollowsStream
  /\ LogCountersMatchDeliveries
  /\ RuntimeFollowsRun
  /\ LogInHandIsUncounted
  /\ CountedIsUnwritten

-----------------------------------------------------------------------------
(* Reconnecting and stopping *)

\* Each failure since the last successful subscription doubles the sleep, up to
\* 32 seconds, however many there are; the first sleep after it is 1 second.
BackoffDoubles ==
  [][delay' # 0 /\ pc' = "backoff" /\ pc # "backoff" =>
       delay' = (IF delay = 0 THEN 1 ELSE IF delay >= 16 THEN 32 ELSE 2 * delay)]_vars

\* What makes it inductive: the last sleep is that of the attempt before, or the
\* attempts have saturated at the longest one.
DelayFollowsAttempts ==
  \/ reconnect_attempt = 0 /\ delay = 0
  \/ reconnect_attempt > 0 /\ delay = ReconnectDelay(reconnect_attempt - 1)
  \/ reconnect_attempt = MaxU32 /\ delay = 32

\* Under a provider that accepts again and again, a process that lost its
\* stream has one again, or ends.
Reconnects == pc = "backoff" ~> (Streaming \/ ~Alive)

\* A process that was sent SIGINT ends: spec/0010_frontfill-prometheus-metrics.md:107
\* has it stop "On shutdown signal", which takes one to be enough.
SigintStops == interrupted ~> ~Alive

\* The same line has the shutdown counter incremented: a process that leaves its
\* loop because of the signal has counted it.
ShutdownSignalIsCounted ==
  [][(pc = "select" /\ notified /\ pc' \in {"stopping", "exited"} /\ runtime = "on")
       => metrics'.shutdown_total = 1]_vars

-----------------------------------------------------------------------------
(* Fairness.  Steps of run() that wait only for the machine are taken: the     *)
(* executor polls the task and a sleep ends.  What waits for the provider or   *)
(* for the operator has an assumption of its own.                              *)

MachineStep == \/ StartRejected \/ Start \/ ConnectRejected
               \/ BackoffElapsed
               \/ Interrupted \/ InterruptedCloseFails
               \/ Processing \/ Return

Connects    == ConnectOk \/ ConnectFails
Subscribes  == SubscribeOk \/ SubscribeFails

\* An attempt to connect or to subscribe is answered, one way or the other.
Answered == WF_vars(Connects) /\ WF_vars(Subscribes) /\ WF_vars(Listen)

FairSpec == Spec /\ WF_vars(MachineStep) /\ Answered

\* A provider that is there again and again, and is sometimes quiet.
RecoveringProvider == SF_vars(ConnectOk) /\ SF_vars(SubscribeOk) /\ SF_vars(Listen)

RecoveringSpec == FairSpec /\ RecoveringProvider

\* An operator who repeats the signal, and a select! that does not always
\* choose the stream.
PersistentOperator ==
  SF_vars(SigintSeen) /\ SF_vars(Interrupted \/ InterruptedCloseFails)

\* An operator who sends SIGINT again and again ends the process, if its provider is
\* there again and again too, as in RecoveringSpec.  Of FairSpec it does not hold:
\* a provider that stays down keeps run() between connecting and sleeping, outside
\* select!, where every signal is lost.
RepeatedSigintStops == PersistentOperator => (interrupted ~> ~Alive)
=============================================================================
