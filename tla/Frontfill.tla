------------------------------ MODULE Frontfill ------------------------------
(***************************************************************************)
(* frontfill::run of src/frontfill.rs with its ParquetStorage and its      *)
(* metrics: one process that connects to a WebSocket provider, subscribes, *)
(* and writes every decoded log, until it is told to stop, meets an error, *)
(* or is killed; and the processes that are started after it over the same *)
(* directory.                                                              *)
(*                                                                         *)
(* The provider and the operator are the environment.  It may refuse a     *)
(* connection or a subscription, deliver any log of Logs, or end the       *)
(* stream.  A SIGINT is modelled at the moment it takes effect: it kills   *)
(* the process while no tokio handler is installed, and otherwise tokio    *)
(* tells the ctrl_c() future that is registered at that moment, if there   *)
(* is one.  The first ctrl_c() that is polled installs the handler for the *)
(* rest of the process; each select! makes a new future.                   *)
(*                                                                         *)
(* A definition marked Mutant is not part of the model: it is a bug, put   *)
(* in the place of the definition after it to see a property fail.         *)
(***************************************************************************)
EXTENDS ParquetStorage, FrontfillMetrics

CONSTANTS
  Logs,      \* the logs a provider may deliver, see Decode
  Configs,   \* FrontfillConfig: [flush_blocks, metrics_enabled, bind_ok,
             \* auth_key, auth_header]
  MaxU32,    \* u32::MAX, where reconnect_attempt saturates
  MaxLogs,   \* bound of the model: logs delivered, over all processes
  None       \* Option::None

VARIABLES
  config,               \* the parameters of run(), fixed
  pc,                   \* where run() is
  next_rotation_block,  \* Option<u64>
  reconnect_attempt,    \* u32
  delay,                \* the last sleep, in seconds; 0 since the last subscription
  handler,              \* tokio's SIGINT handler is installed
  notified,             \* the registered ctrl_c() future is ready
  interrupted,          \* history: a SIGINT was sent to this process
  runtime,              \* metrics_runtime: off, on, stopping, stopped, dropped
  metrics,              \* FrontfillMetrics
  result,               \* what run() returned: None, ok, err
  delivered,            \* history: every log taken from a stream
  run_start             \* history: Len(delivered) when this process started

signalVars  == <<handler, notified, interrupted>>
retryVars   == <<reconnect_attempt, delay>>
metricsVars == <<runtime, metrics>>
historyVars == <<delivered, run_start>>
vars == <<storageVars, config, pc, next_rotation_block, retryVars,
          signalVars, metricsVars, result, historyVars>>

-----------------------------------------------------------------------------
Init ==
  /\ StorageInit
  /\ config \in Configs
  /\ pc = "start"
  /\ next_rotation_block = None
  /\ reconnect_attempt = 0
  /\ delay = 0
  /\ handler = FALSE
  /\ notified = FALSE
  /\ interrupted = FALSE
  /\ runtime = "off"
  /\ metrics = RegisteredMetrics
  /\ result = None
  /\ delivered = <<>>
  /\ run_start = 0

\* `metrics_runtime.as_ref()': an update made only when there is a runtime.
Observe(m) == metrics' = IF runtime = "on" THEN m ELSE metrics

\* An error return that leaves metrics_runtime in place, to be dropped.
ReturnError ==
  /\ pc' = "exited"
  /\ result' = "err"
  /\ runtime' = IF runtime = "on" THEN "dropped" ELSE runtime

\* `metrics_runtime.take()': the gauge is cleared and the runtime is shut down
\* before run() returns r.
StopMetrics(m, r) ==
  /\ pc' = "stopping"
  /\ result' = r
  /\ runtime' = IF runtime = "on" THEN "stopping" ELSE runtime
  /\ Observe([m EXCEPT !.ws_connected = 0])

-----------------------------------------------------------------------------
(* Starting up and connecting *)

StartRejected ==
  /\ pc = "start"
  /\ config.flush_blocks = 0 \/ (config.metrics_enabled /\ ~config.bind_ok)
  /\ ReturnError
  /\ UNCHANGED <<storageVars, config, next_rotation_block, retryVars,
                 signalVars, metrics, historyVars>>

Start ==
  /\ pc = "start"
  /\ config.flush_blocks > 0
  /\ config.metrics_enabled => config.bind_ok
  /\ pc' = "connect"
  /\ runtime' = IF config.metrics_enabled THEN "on" ELSE "off"
  /\ UNCHANGED <<storageVars, config, next_rotation_block, retryVars,
                 signalVars, metrics, result, historyVars>>

\* build_ws_auth: a key, if there is one, goes into the Authorization header
\* under whatever scheme.
WsAuthIsSupported ==
  config.auth_key = "given" => config.auth_header = "authorization"

\* build_ws_connect returns an error.
ConnectRejected ==
  /\ pc = "connect"
  /\ ~WsAuthIsSupported
  /\ StorageDrop
  /\ ReturnError
  /\ UNCHANGED <<config, next_rotation_block, retryVars, signalVars,
                 metrics, historyVars>>

\* Mutant: the attempts start again before anything is subscribed.
ConnectOkResets ==
  /\ pc = "connect"
  /\ WsAuthIsSupported
  /\ pc' = "subscribe"
  /\ reconnect_attempt' = 0
  /\ UNCHANGED <<storageVars, config, next_rotation_block, delay, signalVars,
                 metricsVars, result, historyVars>>

ConnectOk ==
  /\ pc = "connect"
  /\ WsAuthIsSupported
  /\ pc' = "subscribe"
  /\ UNCHANGED <<storageVars, config, next_rotation_block, retryVars,
                 signalVars, metricsVars, result, historyVars>>

\* 1 << attempt.min(5)
ReconnectDelay(attempt) ==
  <<1, 2, 4, 8, 16, 32>>[IF attempt > 5 THEN 6 ELSE attempt + 1]

SleepBeforeReconnecting ==
  /\ pc' = "backoff"
  /\ delay' = ReconnectDelay(reconnect_attempt)
  /\ reconnect_attempt' =
       IF reconnect_attempt = MaxU32 THEN MaxU32 ELSE reconnect_attempt + 1

ConnectFails ==
  /\ pc = "connect"
  /\ WsAuthIsSupported
  /\ SleepBeforeReconnecting
  /\ UNCHANGED <<storageVars, config, next_rotation_block, signalVars,
                 metricsVars, result, historyVars>>

SubscribeOk ==
  /\ pc = "subscribe"
  /\ pc' = "loop"
  /\ reconnect_attempt' = 0
  /\ delay' = 0
  /\ Observe([metrics EXCEPT !.ws_connected = 1])
  /\ UNCHANGED <<storageVars, config, next_rotation_block, signalVars,
                 runtime, result, historyVars>>

SubscribeFails ==
  /\ pc = "subscribe"
  /\ SleepBeforeReconnecting
  /\ UNCHANGED <<storageVars, config, next_rotation_block, signalVars,
                 metricsVars, result, historyVars>>

\* Mutant: the process gives up after five attempts.
BackoffGivesUp ==
  /\ pc = "backoff"
  /\ reconnect_attempt <= 5
  /\ pc' = "connect"
  /\ UNCHANGED <<storageVars, config, next_rotation_block, retryVars,
                 signalVars, metricsVars, result, historyVars>>

BackoffElapsed ==
  /\ pc = "backoff"
  /\ pc' = "connect"
  /\ UNCHANGED <<storageVars, config, next_rotation_block, retryVars,
                 signalVars, metricsVars, result, historyVars>>

-----------------------------------------------------------------------------
(* The select! of the inner loop *)

\* The stream has nothing yet, so ctrl_c() is polled and registers.
Listen ==
  /\ pc = "loop"
  /\ pc' = "select"
  /\ handler' = TRUE
  /\ notified' = FALSE
  /\ UNCHANGED <<storageVars, config, next_rotation_block, retryVars,
                 interrupted, metricsVars, result, historyVars>>

\* ctrl_c() cannot install its handler, and `result?' returns the error.
ListenFails ==
  /\ pc = "loop"
  /\ ~handler
  /\ StorageDrop
  /\ ReturnError
  /\ UNCHANGED <<config, next_rotation_block, retryVars, signalVars,
                 metrics, historyVars>>

\* The stream is ready.  select! polls its branches in a random order, so it
\* may take the log when ctrl_c() is ready too, or was never polled.
Receive(l) ==
  /\ pc \in {"loop", "select"}
  /\ Len(delivered) < MaxLogs
  /\ delivered' = Append(delivered, l)
  /\ notified' = FALSE
  /\ pc' = "validate"
  /\ UNCHANGED <<storageVars, config, next_rotation_block, retryVars, handler,
                 interrupted, metricsVars, result, run_start>>

\* Mutant: the gauge is not cleared.
StreamEndsConnected ==
  /\ pc \in {"loop", "select"}
  /\ notified' = FALSE
  /\ SleepBeforeReconnecting
  /\ UNCHANGED <<storageVars, config, next_rotation_block, handler,
                 interrupted, metricsVars, result, historyVars>>

StreamEnds ==
  /\ pc \in {"loop", "select"}
  /\ notified' = FALSE
  /\ Observe([metrics EXCEPT !.ws_connected = 0])
  /\ SleepBeforeReconnecting
  /\ UNCHANGED <<storageVars, config, next_rotation_block, handler,
                 interrupted, runtime, result, historyVars>>

\* Mutant: the storage is closed and the loop goes on.
InterruptedGoesOn ==
  /\ pc = "select"
  /\ notified
  /\ CloseWriters
  /\ pc' = "loop"
  /\ UNCHANGED <<config, next_rotation_block, retryVars, signalVars, metricsVars,
                 result, historyVars>>

Interrupted ==
  /\ pc = "select"
  /\ notified
  /\ CloseWriters
  /\ StopMetrics([metrics EXCEPT !.shutdown_total = @ + 1], "ok")
  /\ UNCHANGED <<config, next_rotation_block, retryVars, signalVars,
                 historyVars>>

InterruptedCloseFails ==
  /\ pc = "select"
  /\ notified
  /\ CloseWritersFails
  /\ ReturnError
  /\ UNCHANGED <<config, next_rotation_block, retryVars, signalVars,
                 metrics, historyVars>>

-----------------------------------------------------------------------------
(* One log, the last that was delivered *)

log == delivered[Len(delivered)]

MissingMetadata ==
  /\ pc = "validate"
  /\ ~log.has_metadata
  /\ StopMetrics([metrics EXCEPT !.missing_metadata_total = @ + 1], "err")
  /\ UNCHANGED <<storageVars, config, next_rotation_block, retryVars,
                 signalVars, historyVars>>

Validate ==
  /\ pc = "validate"
  /\ log.has_metadata
  /\ Observe(ObserveLog(metrics, log.block))
  /\ pc' = "rotate"
  /\ UNCHANGED <<storageVars, config, next_rotation_block, retryVars,
                 signalVars, runtime, result, historyVars>>

\* Mutant: off by one.
RotationOverdue == next_rotation_block # None /\ log.block > next_rotation_block

RotationDue == next_rotation_block # None /\ log.block >= next_rotation_block

ArmRotation ==
  next_rotation_block' = SaturatingAdd(log.block, config.flush_blocks)

\* The first log of the process only sets the target.
FirstTarget ==
  /\ pc = "rotate"
  /\ next_rotation_block = None
  /\ ArmRotation
  /\ pc' = "decode"
  /\ UNCHANGED <<storageVars, config, retryVars, signalVars, metricsVars,
                 result, historyVars>>

\* Mutant: every log moves the target.
NoRotationRearms ==
  /\ pc = "rotate"
  /\ next_rotation_block # None
  /\ ~RotationDue
  /\ ArmRotation
  /\ pc' = "decode"
  /\ UNCHANGED <<storageVars, config, retryVars, signalVars, metricsVars,
                 result, historyVars>>

NoRotation ==
  /\ pc = "rotate"
  /\ next_rotation_block # None
  /\ ~RotationDue
  /\ pc' = "decode"
  /\ UNCHANGED <<storageVars, config, next_rotation_block, retryVars,
                 signalVars, metricsVars, result, historyVars>>

Rotate ==
  /\ pc = "rotate"
  /\ RotationDue
  /\ RotateWriters
  /\ Observe([metrics EXCEPT !.rotate_total = @ + 1])
  /\ ArmRotation
  /\ pc' = "decode"
  /\ UNCHANGED <<config, retryVars, signalVars, runtime, result,
                 historyVars>>

\* Mutant: a rotation that fails is ignored.
RotateFailsIgnored ==
  /\ pc = "rotate"
  /\ RotationDue
  /\ RotateWritersFails
  /\ ArmRotation
  /\ pc' = "decode"
  /\ UNCHANGED <<config, retryVars, signalVars, metricsVars, result,
                 historyVars>>

RotateFails ==
  /\ pc = "rotate"
  /\ RotationDue
  /\ RotateWritersFails
  /\ ReturnError
  /\ UNCHANGED <<config, next_rotation_block, retryVars, signalVars,
                 metrics, historyVars>>

DecodeIgnored ==
  /\ pc = "decode"
  /\ Ignored(log)
  /\ pc' = "loop"
  /\ UNCHANGED <<storageVars, config, next_rotation_block, retryVars,
                 signalVars, metricsVars, result, historyVars>>

DecodeFails ==
  /\ pc = "decode"
  /\ DecodeError(log)
  /\ StopMetrics([metrics EXCEPT !.decode_errors_total = @ + 1], "err")
  /\ UNCHANGED <<storageVars, config, next_rotation_block, retryVars,
                 signalVars, historyVars>>

\* The type is counted before the row is written.
DecodeEvent ==
  /\ pc = "decode"
  /\ Decoded(log)
  /\ Observe(ObserveDecodedType(metrics, log.topic0))
  /\ pc' = "write"
  /\ UNCHANGED <<storageVars, config, next_rotation_block, retryVars,
                 signalVars, runtime, result, historyVars>>

Write ==
  /\ pc = "write"
  /\ WriteEvent(log.topic0, Columns[log.topic0], Len(delivered))
  /\ pc' = "loop"
  /\ UNCHANGED <<config, next_rotation_block, retryVars, signalVars,
                 metricsVars, result, historyVars>>

\* Mutant: the error is not counted.
WriteFailsUncounted ==
  /\ pc = "write"
  /\ WriteEventFails(log.topic0, Columns[log.topic0])
  /\ StopMetrics(metrics, "err")
  /\ UNCHANGED <<config, next_rotation_block, retryVars, signalVars,
                 historyVars>>

WriteFails ==
  /\ pc = "write"
  /\ WriteEventFails(log.topic0, Columns[log.topic0])
  /\ StopMetrics([metrics EXCEPT !.write_errors_total = @ + 1], "err")
  /\ UNCHANGED <<config, next_rotation_block, retryVars, signalVars,
                 historyVars>>

-----------------------------------------------------------------------------
(* Stopping, signals, crashes and the next process *)

Alive == pc \notin {"exited", "dead"}

\* The metrics runtime has shut down, and run() returns and drops the storage.
Return ==
  /\ pc = "stopping"
  /\ pc' = "exited"
  /\ runtime' = IF runtime = "stopping" THEN "stopped" ELSE runtime
  /\ StorageDrop
  /\ UNCHANGED <<config, next_rotation_block, retryVars, signalVars,
                 metrics, result, historyVars>>

Die ==
  /\ pc' = "dead"
  /\ runtime' = IF runtime \in {"on", "stopping"} THEN "dropped" ELSE runtime
  /\ StorageDrop
  /\ UNCHANGED <<config, next_rotation_block, retryVars, handler,
                 notified, metrics, result, historyVars>>

\* A panic, SIGKILL or SIGTERM.
Crash == Alive /\ Die /\ UNCHANGED interrupted

SigintKills == Alive /\ ~handler /\ Die /\ interrupted' = TRUE

Signalled ==
  /\ interrupted' = TRUE
  /\ UNCHANGED <<storageVars, config, pc, next_rotation_block, retryVars,
                 handler, metricsVars, result, historyVars>>

SigintSeen == Alive /\ handler /\ pc = "select" /\ notified' = TRUE /\ Signalled

\* No ctrl_c() future is registered: tokio tells nobody.
SigintLost == Alive /\ handler /\ pc # "select" /\ UNCHANGED notified /\ Signalled

Restart ==
  /\ ~Alive
  /\ StorageReopen
  /\ LaterMillisecond
  /\ pc' = "start"
  /\ next_rotation_block' = None
  /\ reconnect_attempt' = 0
  /\ delay' = 0
  /\ handler' = FALSE
  /\ notified' = FALSE
  /\ interrupted' = FALSE
  /\ runtime' = "off"
  /\ metrics' = RegisteredMetrics
  /\ result' = None
  /\ run_start' = Len(delivered)
  /\ UNCHANGED <<config, delivered>>

\* Nobody starts another process.
Ended == ~Alive /\ UNCHANGED vars

-----------------------------------------------------------------------------
Connecting == \/ StartRejected \/ Start
              \/ ConnectRejected \/ ConnectOk \/ ConnectFails
              \/ SubscribeOk \/ SubscribeFails
              \/ BackoffElapsed

Selecting == \/ Listen \/ ListenFails
             \/ \E l \in Logs : Receive(l)
             \/ StreamEnds
             \/ Interrupted \/ InterruptedCloseFails

Processing == \/ MissingMetadata \/ Validate
              \/ FirstTarget \/ NoRotation \/ Rotate \/ RotateFails
              \/ DecodeIgnored \/ DecodeFails \/ DecodeEvent
              \/ Write \/ WriteFails

Environment == Crash \/ SigintKills \/ SigintSeen \/ SigintLost \/ Restart

Next == Connecting \/ Selecting \/ Processing \/ Return \/ Environment \/ Ended

Spec == Init /\ [][Next]_vars
=============================================================================
