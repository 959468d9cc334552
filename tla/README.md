# polymarket-indexer in TLA+

A TLA+ verification project for the indexer: models of its two runtimes, the
TLC instances that check them, and TLAPS proofs of the properties that matter
most. Paths such as `src/frontfill.rs:204` are relative to the repository.

Contents: [the system](#the-system) ·
[modules](#modules) ·
[how the models correspond to the code](#how-the-models-correspond-to-the-code) ·
[properties](#properties) · [runs](#runs) · [fairness](#fairness) ·
[proofs](#proofs) · [findings](#findings) · [assumptions](#assumptions) ·
[what is not modelled](#what-is-not-modelled) · [plan](#plan)

## The system

The indexer turns the logs of a few Polygon contracts into rows of Parquet
files, or of Kafka topics. It has two programs over one library.

- **frontfill** (`src/frontfill.rs`, started by `src/main.rs`) is a process that
  runs until it is stopped: it connects to a WebSocket provider, subscribes to
  logs, and gives each one that it can decode to a sink.
- **backfill** (`src/backfill.rs`, started by `src/bin/backfill.rs`) is a run over
  a range of blocks: it cuts them into chunks, fetches the chunks over HTTP, a
  few at a time and under a rate limit, and writes one file per chunk and type
  of event.

| Component | State it keeps | Operations | Talks to |
|---|---|---|---|
| Frontfill runtime, `run()` | the rotation target, the attempt counter, the place in its two nested loops | connect, subscribe, back off, `select!` over stream and `ctrl_c()`, handle one log, shut down | provider (stream), operator (signals), sink (calls under a mutex), metrics (shared handles) |
| EventSink / ParquetStorage, `src/storage.rs` | one open writer per event type, a schema cache, the file-set number; the directory | `write_event`, `rotate`, `close`, drop | the file system, the wall clock (file names) |
| KafkaStorage, `src/storage.rs` | a schema cache, a producer | the same three | a broker |
| Decoding, `src/decode.rs`, `src/contracts.rs` | none | route by topic0, decode, make columns | called by both runtimes |
| Frontfill metrics, `src/metrics.rs` | counters, gauges, a histogram, rolling 60 s windows | observe calls; a task that trims the windows; render | the loop (updates), HTTP handlers (reads) |
| Metrics server, `src/metrics.rs` | a listening task, a shutdown channel | `/metrics`, `/health`, `/ready`, graceful shutdown | the loop (shutdown), clients |
| Backfill runtime, `run()` | futures of the chunks in flight, the list of failures; the directory | validate, fetch, decode and group, write a file, report | provider (requests), rate limiter, file system |
| Chunking, `chunk_ranges` | a cursor | the loop | called by Backfill |
| Rate limiter | a semaphore | `acquire`, the refill task | futures of Backfill, tokio's interval |
| Command lines | none | parse arguments | start `run()` |

What is hard in it:

- **Signals.** `ctrl_c()` is one branch of one `select!`; whether a signal is
  seen depends on where the process is when it comes.
- **Rotation against arrival order.** Rows become readable when a log of a high
  enough block arrives; logs of several contracts and of a reconnected stream do
  not arrive in order.
- **Partial failure of closing.** `close_writers` drains a map and returns at the
  first error; the writers it did not get to are dropped.
- **File names.** A name is a type, a millisecond and a set number; `File::create`
  truncates. Restarts begin again at set 0 in the same directory.
- **Reconnection.** An attempt counter, doubled sleeps with a cap, counters and a
  gauge that are set by hand on each way out of the stream.
- **Backfill under partial failure.** One chunk, or one type of one chunk, fails
  and the others go on; the result and the failures have to tell the truth about
  the directory, also when a run is repeated over what an earlier one left.
- **The refill.** It reads the permits and adds the difference in two steps, while
  futures on other threads take permits; ticks that are late come in bursts.
- **A broker in between.** A Kafka send that failed may have been received, or be
  received later, also after the process is gone; the producer repeats requests.
- **Threads over gauges.** The loop, the updater of the rolling windows and the
  HTTP handlers share gauges and windows; `/health` reads three things at three
  moments; the shutdown awaits one task after the other.
- **The handoff.** A subscription starts where its filter says, whatever was
  received before: what lies between a backfill and frontfill, or between two
  streams, may be missing or double.
- **u64 edges** in `chunk_ranges` and in the rotation target.

`PROJECT.json` lists each hazard at its line with the properties that cover it.

## Modules

```
                       SchemaCache
                       /         \
 Decode FrontfillMetrics ParquetStorage KafkaStorage  RateLimiter       Chunks
    \        |              /      \        /            /     \         /   \
     +--- Frontfill -------+      SharedSink    RateWindow  Backfill   ChunkRanges
              |                     : |             |      (+Decode)       |
              |              EventSink |      RateWindowProofs  |   ChunkRangesProofs
     FrontfillProperties ......:      |                  BackfillProofs
        /           \          SharedSinkProofs
 FrontfillProofs     \                        MetricsRuntime
        |             \                             |
 FrontfillRowsProofs   Handoff               MetricsRuntimeProofs
         \            /
          HandoffProofs
```

A line is EXTENDS; a dotted line is an `INSTANCE ... WITH` refinement.

| Module | What it is |
|---|---|
| `Decode` | the three results of `decode_log` and the columns of each event |
| `FrontfillMetrics` | the metrics record and the two observe calls |
| `SchemaCache` | the maps of both storages and their schema cache |
| `ParquetStorage` | ParquetStorage: variables, and an action for each call and each way it fails |
| `EventSink` | the abstract specification of the sink trait: what `Ok` and an error promise of the rows |
| `KafkaStorage` | KafkaStorage, its producer and the broker |
| `SharedSink` | the choice of a sink, and either one under any caller that keeps the protocol; refines `EventSink` |
| `MetricsRuntime` | the rolling windows, their updater, the HTTP server with its health checks, and the shutdown of both |
| `Handoff` | `Frontfill` over a chain, with the filter of each subscription, beside a backfill |
| `Frontfill` | `run()` with its storage, its metrics, its environment and the processes after it |
| `FrontfillProperties` | the properties, the inductive invariant and the fairness of `Frontfill`; refines `EventSink` |
| `Chunks` | the chunks of a request, as a set |
| `ChunkRanges` | the loop of `chunk_ranges` in u64 arithmetic; returns the set of `Chunks` |
| `RateLimiter` | the semaphore and the two steps of a refill |
| `RateWindow` | the rate limiter over time, with greedy callers |
| `Backfill` | `run()` of the backfill: chunks, permits, files, failures, crashes and reruns |
| `MC*` | the instances for TLC |
| `*Proofs` | the theorems |

A definition under a comment that says *Mutant* is not part of the model. It is
the operator after it with one plausible bug; putting it in that operator's place
makes the property that guards it fail, which shows that the property says
something about the code. `PROJECT.json` names the mutant of each property.

## How the models correspond to the code

### Frontfill

`pc` is where `run()` is; each value lies between two points at which something
else can happen or a call returns.

| `pc` | In `src/frontfill.rs` |
|---|---|
| `start` | before the checks and the start of the metrics runtime (130-155) |
| `connect`, `subscribe` | the top of the outer loop, and after a connection (156-194) |
| `backoff` | in one of the three sleeps (171, 182, 351) |
| `loop`, `select` | before the inner `select!`, and in it with `ctrl_c()` registered (196-219) |
| `validate`, `rotate`, `decode`, `write` | the handling of one log, at its four parts (220-342) |
| `stopping` | awaiting the shutdown of the metrics runtime, result decided |
| `exited`, `dead` | `run()` has returned; the process was killed |

`next_rotation_block`, `reconnect_attempt` and the storage's `writers`,
`schemas`, `file_set_id` are the code's variables. `files` is the directory: a
file has rows and, once `ArrowWriter::close` has returned, a footer. A row is the
position in `delivered` of the log it was made from, so that a row says which log
it is and in which order it came. `delivered`, `run_start` and `interrupted` are
history. `runtime` is `Option<MetricsRuntime>` with what becomes of it.

Each action is one path through the code between two values of `pc`, with all it
calls: `Rotate` is the guard, `rotate()`, the counter and the new target, and
`RotateFails` is the `?` on the same call. Every `return` is an action of its own,
and which of them shut the metrics runtime down (`StopMetrics`) and which leave it
to be dropped (`ReturnError`) is as in the code.

`select!` polls its branches in random order. So a log may be taken although
`ctrl_c()` is ready (`Receive` from `select`), and without `ctrl_c()` having been
polled at all (`Receive` from `loop`). A SIGINT is modelled at the moment it takes
effect: `SigintKills` when tokio's handler is not installed yet, `SigintSeen` when
a `ctrl_c()` future is registered, `SigintLost` otherwise.

### ParquetStorage

The calls are synchronous and made under the sink's mutex, so each is one action.
A call that can fail at several points has one failure action with a disjunct for
each state it can leave behind: `WriteEventFails` may leave the schema cached, a
new empty file, or a new writer; `CloseWritersFails` closes any proper subset of
the writers, in the arbitrary order of the map, and drops the others.

KafkaStorage's `write_event` is two steps, with the producer's thread and the
broker between them: `Send` puts the message in the producer's `queue`, and the
call returns when there is a report, `Delivered` or `GivenUp`. The producer may
make several requests for a message (`Attempt`); each is on the `wire` until the
broker appends it or it is lost, whatever becomes of the message or the process.
`Delivered` needs the row in its partition; `GivenUp` may come at any time. The key
of a message is its transaction hash, and the key chooses the partition of the topic
(`PartitionFor`, with the producer's partitioner as the constant `PartitionOf`). Each
partition is a sequence of rows; between two there is no order. `TxHash` gives the
transaction of each row that a caller of `SharedSink` may write.

Both are driven by `SharedSink`, which has the trait's calls and the checks of
`main` and `build_storage` before them. `EventSink` is their contract: an accepted
row is pending until a flush that returns Ok makes it durable, or durable at once,
which is what Kafka does; a row that was not accepted may turn up all the same.

Time is read only in file names. `clock` is the last reading; a new one is any
value that is not smaller. `StorageReopen` is `ParquetStorage::new` and does not
look at the time; that a later process starts at least one millisecond after the last
file of the one before is `LaterMillisecond`, an assumption that `Frontfill.Restart`
and `SharedSink.NewProcess` add to it. `spec/CODE_REVIEW_20260216.md:194-196` names
the restart "within the same millisecond" as a risk of "data loss on file
overwrite", and rightly so: with `UNCHANGED clock` in place of `LaterMillisecond`, TLC
finds a second process that truncates a closed file of the first.

### MetricsRuntime

The gauges, windows and tasks of `src/metrics.rs`, with the steps of the loop that
reach them. Nothing is awaited while the mutex of the windows is held, so
`PushLog`, `PushType` and `Tick` are one step each; what `observe_log` does before
it takes the lock is another. `is_healthy` is three: `ReadConnected`,
`ReadLastLog`, `ReadAge`. A client's `request` goes from `connected` through `log`
and `age` to its answer. `updater` and `server` are the two tasks: `told` is a sent
oneshot, and `draining` a server that takes no new request and finishes those it
has. `Stop` stands for the returns of `run()` that take the runtime and
`ReturnWithout` for those that do not, the `?` of `build_ws_connect`, of a rotation and
of the close after the signal, with which the process ends.

Time is `now`, in instants of which a second has `Second`; the gauge of the last
log and the staleness are in whole seconds, as in the code. The updater's
interval makes up for late ticks, and a tick is at most `MaxDelay` late.

### Handoff

The steps of the process are those of `Frontfill`, but what the stream delivers is
the next log of `Chain` after `cursor`. `Subscribe` puts `cursor` where
`build_filter` says: before the first log of the start block, or after what is
mined for Latest. Whether a provider replays old blocks to a new subscription is
not the code's to decide: `replays` is either. `Resubscribe` and `Lag` are what
alloy 0.5 does without telling the loop. `BackfillReturns` stands for a run of
`Backfill` with its `OkMeansComplete`, by an operator who waits until the blocks
are mined.

### Backfill

A chunk's future goes through `queued`, `acquiring`, `fetching`, `writing`,
`done`, the stages between its awaits. `for_each_concurrent` polls all of them on
one task: while `write_parquet_file`, which has no await, is between
`File::create` and `close` (`writing # None`) no other chunk moves, but the
process may die and the refill task, on another thread, may run. `groups` is
`by_event` with the sorted rows, `missing` stands for `missing_metadata_count`,
and `failures` has a record where the code has a text. `Rerun` is the operator
who runs the program again, with the same parameters or others, over the same
directory.

### ChunkRanges, RateLimiter, RateWindow

One step of `ChunkRanges` is one iteration of the loop. `request.overflow_checks`
is the build: additions wrap in release and panic in debug. `RateLimiter` has the
two steps of a refill, `available_permits()` and `add_permits()`, because permits
can be taken between them. `RateWindow` adds time, the interval (first tick at
once, `MissedTickBehavior::Burst`) and callers that call whenever they can.

## Properties

**Rows** (`FrontfillProperties`)

- `EveryRowIsKeptOnce`: while `run()` goes on, every log it was given and could
  decode is a row of exactly one file that is closed or will be.
- `GracefulExitKeepsEveryRow`: an `Ok` return leaves each of them readable.
- `OpenRowsBelowTarget`: what is not yet in a closed file is of blocks below the
  rotation target, in whatever order blocks come. This is what a crash can cost.
- `FilesSpanFlushBlocks`: as long as blocks come in order, a file's rows are less
  than `flush_blocks` blocks apart.
- `FilesAreAppendOnly`: no step, of this process or of one that starts in a later
  millisecond, shortens a file or changes one with a footer. It does not speak of a
  restart within the same millisecond, which
  `spec/CODE_REVIEW_20260216.md:194-196` says may collide.
- `KeepsSinkContract`: `run()` and its storage implement `EventSink`. In
  particular `run()` does not go on after a failed `rotate` or `close`.

**Metrics**

- `GaugeFollowsStream`: `ws_connected` is 1 exactly while there is a stream, and 0
  once the runtime is shutting down.
- `TypeCountersMatchRows`: the per-type counters are the rows in the files, but
  for one row that is being, or could not be, written.
- `LogCountersMatchDeliveries`: each log is counted once, as a log or as one
  without metadata; `rotate_total` is the file-set number.

**Reconnecting and stopping**

- `BackoffDoubles`: the sleeps double to 32 s and start again at 1 s only after a
  subscription, also when the attempt counter has saturated.
- `Reconnects`: with a provider that recovers, a lost stream is replaced.
- `RepeatedSigintStops`: with a provider that recovers, an operator who repeats
  SIGINT ends the process.
  It does not hold while the provider stays down. `SigintStops`, for one signal, does
  not hold at all, nor does `ShutdownSignalIsCounted`: see the findings.

**The rolling windows, health and shutdown** (`MetricsRuntime`)

- `RatesAreOfLastMinute`: a rate gauge counts every log of the last window, and
  none that is older by more than a tick and its delay; whoever set it last, and
  also when no log comes.
- `OkIsOfOneMoment`: an `ok` is true of one moment between the request and its
  answer, although it was put together from three.
- `ShutdownEnds`: a shutdown of the runtime ends.

**Storage alone** (`SharedSink`)

- `KeepsContract`: either sink implements `EventSink` under any caller. For Parquet,
  a flush that returns Ok leaves every accepted row readable, and one that fails
  loses none that was readable; for Kafka, an accepted row is in its topic.
- `TransactionsAreInOrder`: the first copies of accepted rows are in a partition in
  the order in which they were given, although requests are repeated and late; and
  the rows of one type and transaction are in one partition.
- `WritersAreApart`: two writers never have the same file.

**Handoff**

- `HandoffIsComplete`: with a start block after the backfill's end and a provider
  that replays, each decodable log up to where the stream is, but those that it
  skipped, is in a file of the backfill or in one that frontfill has closed or
  will: also after crashes that lost the rows of open files. It says nothing of logs
  that alloy skipped, nor of a backfill whose end block was not mined yet.
- `RepeatsAreOfReplays`: no log is in the files of both; in frontfill's it is at most
  once, or once for each subscription that replayed it.

**Backfill**

- `FailuresNameEveryGap`: each decodable log of a chunk that is over is on disk, or a
  failure tells of it: that of the chunk's fetch, that of its own type's write, or
  missing metadata if it lacks them. No other failure and no file of an earlier run
  hides a gap.
- `OkMeansComplete`: after `Ok`, every decodable log of the requested blocks is in
  a readable file, of exactly one of this run's chunks.
- `ReadableFilesAreExact`: a readable file has exactly the rows of its type in the
  blocks of its name, in order, whatever crashed or was run before.
- `RunEnds`: a run returns.

**Chunking**: `LoopInv` (the loop's invariant), `ReturnsPartition` (the ranges
partition the request), `ReturnsChunks` (they are the chunks `Backfill` uses),
`OrdinaryRequestsReturn` (no panic, and an end). These are of *ordinary*
requests, `end + size <= u64::MAX`. `RangesAreOfRequest`, of all requests, does
not hold.

**Rate limiter**: `PermitsComeFromTicks` (no interleaving of a refill with
`acquire` makes a permit), `AverageIsCapped` (over the whole run, at most two
seconds' permits more than the rate), `WindowIsBounded` (the calls in one second,
given how late ticks are). `EverySecondIsCapped` does not hold.

## Runs

| Run | Instance and why it is enough | Result |
|---|---|---|
| `frontfill_safety` | 7 logs: two types over blocks 1, 2, 3, 5, an unknown topic, one that cannot be decoded and one without metadata; 4 delivered over two processes; `flush_blocks` 2; u64::MAX = 5; each configuration that is rejected. Blocks skip ahead, come back after a rotation, meet the target exactly (3 after 1), and saturate it (5 + 2). Two instants, so that a set is told apart by its number and a process by its time | pass, 1.05 M states |
| `shared_sink` | both sinks, and Kafka without brokers and without its feature; 2 types, one of them with a topic of two partitions, 2 column lists, 3 rows of two transactions, 1 rotation, two processes, 2 requests for a message: a rotation between two rows of the same type in the same millisecond, a failed write before another, every subset of writers that closes, a request that arrives after a later row or in the next process | pass, 788 k states |
| `metrics_runtime` | two instants a second, a window of one second and three of them, ticks up to one instant late; one event type, 2 logs, one client: a log observed at each place of a second, a window that empties with and without a log, each order of a request's reads and the loop's updates | pass, 265 k states |
| `handoff` | a chain of 4 logs over 3 blocks, two of them of one type in one block, which is on the far side of one boundary; 5 delivered, by 3 subscriptions of two processes: a reconnection and a restart that replay from the boundary, each with rows of open files lost | pass, 1.05 M states |
| `frontfill_stream` | u32::MAX = 7: past the cap of 32 s and up to saturation; 2 logs, with and without metrics | pass, 804 states |
| `frontfill_one_sigint` | one log | `SigintStops` violated |
| `frontfill_shutdown_count` | one log, metrics on | `ShutdownSignalIsCounted` violated |
| `chunk_ranges` | every request of a four-bit u64, both builds; at most 16 ranges, the most that an ordinary request has | pass, 22,922 states |
| `chunk_overflow` | the same requests | `RangesAreOfRequest` violated |
| `rate_limit` | 2 permits a second, two instants a second, ticks up to 3 instants late: one tick may be so late that the next is due; 7 instants | pass, 153,041 states |
| `rate_burst` | the same, every tick on time | `EverySecondIsCapped` violated |
| `backfill_runs` | blocks 1 to 3 with rows of two types and a log of each kind that is not a row; as three chunks for two places and one permit, and as two chunks; blocks 1 and 2 alone, which lack no metadata, as two chunks and as one, so that a run may return Ok; and four refused requests; any sequence of runs | pass, 190,971 states |

The bounds are `MaxLogs` and `MaxClock` (`Frontfill`), `MaxRows`, `MaxRotations`,
`MaxAttempts` and `MaxClock` (`SharedSink`), `MaxNow` and `MaxLogs`
(`MetricsRuntime`), `MaxHead` and `MaxSubscriptions` (`Handoff`), `MaxRanges`
(`ChunkRanges`) and `MaxNow` (`RateWindow`). `MaxU64` and `MaxU32` are the code's own limits made
small. `Backfill` needs no bound: its directory and its requests are finite.
`Ended`, `Finished`, the last disjunct of `MetricsRuntime` and `RunEnds` of
`RateWindow` are steps in which nobody does
anything more, so that TLC's deadlock check stays on: any other state without a
successor is reported. No instance uses symmetry.

## Fairness

Safety is checked of `Spec`, which has none. For liveness:

- `WF(MachineStep)` in `Frontfill`: a step that waits for nobody is taken. The
  executor polls the task, sleeps end, file-system calls return, and the metrics
  server's shutdown ends.
- `WF` of connecting, subscribing and listening (`Answered`): an attempt is
  answered one way or the other.
- `SF` of `ConnectOk`, `SubscribeOk` and `Listen` (`RecoveringProvider`): a provider
  that, asked again and again, accepts at some point, and is not so busy that the
  `select!` always finds a log at its first poll. `Reconnects` needs the first
  two, `RepeatedSigintStops` all three, and fails without them. `select!` is fair at
  random, which makes the last a matter of probability 1.
- `PersistentOperator` is a hypothesis of the property `RepeatedSigintStops` and
  not of the specification: a signal that can be seen again and again is seen,
  and a `select!` with both branches ready does not always take the stream.
- `Backfill`: `WF` of the task (a request is answered or refused, and the executor
  polls) and of the refill task (the interval ticks). The first is an assumption
  about the provider: the HTTP client of the code has no timeout.
- `MetricsRuntime`: `WF` of the steps of the shutdown, of the updater's end, of the
  server's and of a handler, which are tasks that the executor polls; and `WF` of
  `Answered`, a client that has asked takes its answer. The last is an assumption
  about clients: without it `ShutdownEnds` does not hold, since the server waits for
  them and has no timeout.
- `ChunkRanges`: `WF(Next)`, a loop that runs.

## Proofs

Each theorem is for all values of the constants that satisfy the named
assumptions of the modules.

| Module | Theorem | Property |
|---|---|---|
| `FrontfillProofs` | `Invariance` | `IndInv` |
| | `TypeCorrect` | `TypeOK` |
| | `RotationBoundsOpenRows` | `OpenRowsBelowTarget` |
| | `AppendOnly` | `FilesAreAppendOnly` |
| `FrontfillRowsProofs` | `RowsAreKeptOnce` | `EveryRowIsKeptOnce` |
| | `GracefulExit` | `GracefulExitKeepsEveryRow` |
| | `FilesSpanLess` | `FilesSpanFlushBlocks` |
| | `KeepsContract` | `KeepsSinkContract`, a refinement |
| | `GaugeCorrect` | `GaugeFollowsStream` |
| | `LogCountersCorrect` | `LogCountersMatchDeliveries` |
| | `TypeCountersCorrect` | `TypeCountersMatchRows` |
| | `BackoffCorrect` | `BackoffDoubles`, if `MaxU32 >= 5` |
| `SharedSinkProofs` | `SinkInvariance` | `SinkInv` |
| | `WritersApart` | `WritersAreApart` |
| | `TransactionsInOrder` | `TransactionsAreInOrder` |
| | `ContractIsKept` | `KeepsContract`, a refinement |
| `BackfillProofs` | `BackfillInvariance` | `BackfillInv` |
| | `BackfillTypeCorrect` | `TypeOK` |
| | `GapsAreNamed` | `FailuresNameEveryGap` |
| | `FilesExact` | `ReadableFilesAreExact` |
| | `OkIsComplete` | `OkMeansComplete` |
| `ChunkRangesProofs` | `LoopInvariance` | `LoopInv` |
| | `Partition` | `ReturnsPartition` |
| | `ChunkTypeCorrect` | `TypeOK` |
| | `ChunksReturned` | `ReturnsChunks` |
| `RateWindowProofs` | `PermitsConserved` | `PermitsComeFromTicks` |
| | `AverageCapped` | `AverageIsCapped` |
| | `RateTypeCorrect` | `TypeOK` |
| | `WindowBounded` | `WindowIsBounded` |
| `MetricsRuntimeProofs` | `RuntimeInvariance` | `RuntimeInv` |
| | `RuntimeTypeCorrect` | `TypeOK` |
| | `OkMoment` | `OkIsOfOneMoment` |
| | `RatesCorrect` | `RatesAreOfLastMinute` |
| `HandoffProofs` | `HandoffInvariance` | `HandoffInv` |
| | `HandoffComplete` | `HandoffIsComplete` |
| | `RepeatsAreReplays` | `RepeatsAreOfReplays` |

Every safety property of a passing run is stated by a theorem. An inductive
invariant stands at the end of the module it is about, after the properties, under
a heading that says so; TLC finds no violation of any of them on the instance of
the module's run, which is how each was found before it was proved. `IndInv` and
`LoopInv` are among the properties of their runs; the others add nothing for a
reader that their properties do not say.

**Frontfill: files.** That files are append-only comes down to one fact: `File::create`
never meets a name in use (lemma `FreshName`). A name has a type, an instant and a
set number. The invariant therefore says that the file of an open writer is of
its type and of the current set and has no footer (`WritersAgreeWithFiles`), and
that every other file is older than the clock, or of the same instant and an
earlier set (`OtherFilesArePast`). The set number advances by `saturating_add`, so
"earlier set" needs that it never saturates: there are no more rotations than logs
(`SetsAreFewerThanLogs`), and fewer logs than u64::MAX is the assumption
`MaxLogsAssumption`. A restart is in a later millisecond (`LaterMillisecond`), which is
where the second process's set 0 is told apart from the first one's: the theorem
claims nothing of another. That open rows are below the target
needs to know that rows are delivered logs (`RowsAreDelivered`), that a log has
passed the rotation check before it is written (`LogInHandIsBelowTarget`), and
that `run()` has rejected `flush_blocks = 0` (`StartedWithFlushBlocks`), without
which a new target need not lie above the log that set it. `IndInv` is the
conjunction; the proof of each conjunct goes by kinds of step (quiet, dropping,
closing, rotating, writing) after one lemma that sorts the actions into them.

**Frontfill: rows.** `KeepInv` adds to `EveryRowIsKeptOnce` what tells a row that is
due from the log in hand: that log is in no file yet (`LogInHandIsNoRow`), so `Write`
cannot make a second row of it. For the exit it adds that a result is set only when
the loop is left, and that a process that has ended or not begun holds no writer.
`SpanInv` adds to `FilesSpanFlushBlocks` where the target is: as long as blocks come
in order it is at most `flush_blocks` after every row of an open file, because the
log that armed it came first (`TargetIsNear`). The edge is a target that saturates:
a log at u64::MAX is then not below it, and the proof needs that it was armed a moment
ago, so no open file has a row. The refinement `KeepsSinkContract` takes the same
kinds of step to the actions of `EventSink`: a quiet step stutters, gives a row or
gives the sink up; `DrainWriters` is `Flush` or `FlushFails`; `Write` is `Accept`,
where `LogInHandIsNoRow` is what makes the row new.

**Frontfill: metrics.** `CountInv` says at which point of a log's way each counter is
ahead of the others: the log in hand is not counted at `validate`, the type's counter
is one ahead at `write`, and after an error only if the error was counted too. It
needs that the runtime is in place exactly while `run()` is in its loop
(`RuntimeFollowsRun`), since a counter is only touched then. `BackoffDoubles` needs
`DelayFollowsAttempts`: the last sleep is that of the attempt before, or the counter
has saturated, where the sleep has long been 32 seconds. That is the hypothesis
`MaxU32 >= 5`, of which u32::MAX is in no doubt.

**SharedSink.** A storage alone is called by anybody who keeps the protocol, and a
failed `write_event` may be followed by more calls. A failed creation leaves an empty
file behind whose name the next writer may get, so the names are fresh or those of
files without rows (`NamesAreFresh`), which is what "never truncates a row" comes to.
For Kafka the order of a partition rests on one message at a time: the queue holds the
row whose `write_event` has not returned and no other (`QueueHoldsLastRow`), so when a
row is accepted it is stored before any later one was sent; late requests for it
only repeat it (`AcceptedIsStored`, `AcceptedIsFirst`). That the first copies are in
order then takes the first place of a row in its partition, by the lemma `LeastNumber`.
That a transaction is in one partition is carried from the key of the message through
queue and wire to the broker (`RowsFollowKeys`).

**Backfill.** A type of a chunk is in hand, or readable, or named by a write failure
of that chunk and type, at each moment between the fetch and the end of the chunk
(`TypesAreAccountedFor`); the file being written has its rows still in hand
(`OpenFileIsInHand`), so a crash in between or a rerun that truncates a file of an
earlier run cannot make a gap that nobody names. What is in hand is sorted and of its
type (`GroupsAreSorted`), from which files are exact. `OkMeansComplete` follows from
`FailuresNameEveryGap` and the partition of the blocks by the chunks; that every
block has exactly one chunk is arithmetic of `Chunks`, proved first, for every size.

**ChunkRanges.** `LoopInv` says that the ranges so far cover exactly the blocks
before `current`, disjointly and in order; the strengthening in the proof module
adds the types. `Partition` is its value at the end of the loop. `ChunksReturned`
adds that each iteration starts a multiple of `size` after `start`
(`RangesAreChunks`): the loop computes the closed form from which `Backfill` starts,
so that what is proved of `Backfill` is of the chunks this code makes.

**RateWindow.** `PermitsComeFromTicks` counts: calls and permits together are at
most a second's worth for the start and for each finished tick, and a refill under
way has read at least the permits that are left, since callers only take. A tick
is not before its time, so `AverageIsCapped` follows. `WindowIsBounded` counts from
every call instead of from the start: the calls since then and the permits there are
come from at most `max_per_second` permits at that call and from the ticks after it
(`PermitsSinceCalls`).

**MetricsRuntime.** An `ok` is true of one moment because of what the handler can
have found when no moment of its request was healthy (`HandlersFindStale`): it found
the loop connected, so the last log was too old at that moment, and it can only grow
older, for `observe_log` makes the process healthy in the step in which it sets a new
one. `RatesAreOfLastMinute` needs that a window is all stamps but some first ones,
each too old now, and that none of the kept ones was too old at the last tick
(`WindowsFollowLogs`), with the time since that tick bounded by its deadline and delay
(`TimesAgree`). Pruning looks only at the front of a window; that this drops every old
entry needs that stamps never decrease, which holds as one task takes them.

**Handoff.** The process is `Frontfill`, so `IndInv` and `KeepInv` hold of it and
`EveryRowIsKeptOnce` carries a row that is due into a file. What is left is the stream:
each place it has passed and not skipped is a row that is due, or of a block of the
backfill, since a subscription starts after exactly the logs before its filter
(`PassedLogsAreDue`; the lemma `BeforeFacts` has that those are the first ones of
the chain). The chain is ordered by block and log index, so that two places never
hold the same log (`PlacesDiffer`), also when a block has several of one type. A log that the stream has still to pass has been delivered fewer times
than there were subscriptions, or not at all without replay, when a stream starts no
earlier than the last block mined (`DeliveriesAreFew`).

The provers have no induction over data. Where an argument needs one it is by a
least element: `LeastNumber`, from the well-foundedness of `<` in the library, gives
the first entry that is not too old, the first copy of a row, the first log of a
block.

What stays with TLC: liveness (`Reconnects`, `RepeatedSigintStops`, `ShutdownEnds`,
`OrdinaryRequestsReturn`, `RunEnds`), which with fairness and ENABLED is out of the
prover's reach; and the four properties that do not hold.

## Findings

1. **One SIGINT can be lost** (`frontfill_one_sigint`). `ctrl_c()` exists only
   inside the `select!` (`src/frontfill.rs:204`). Once the first `select!` has
   installed tokio's handler, a SIGINT during a backoff sleep, a connection
   attempt or the handling of a log finds no registered future and has no effect.
   `spec/0010_frontfill-prometheus-metrics.md:107` has the process stop "On
   shutdown signal". While the provider stays down it is worse: `run()` goes round
   between `on_ws` (164) and the backoff sleep, comes to no `select!`, and loses every
   SIGINT, however often it is sent; only SIGTERM or SIGKILL ends it.
   `RepeatedSigintStops` holds with a provider that comes back again and again
   (`RecoveringSpec`). Of `FairSpec`, which has no such assumption, it fails; with the
   outage itself as a hypothesis, `<>[][~ConnectOk]_vars`, TLC's trace is a process that
   goes from the backoff to a failed connection and back for ever.
2. **A shutdown whose close fails is not counted** (`frontfill_shutdown_count`).
   The `?` at `src/frontfill.rs:208` returns before the shutdown counter, the gauge
   and the shutdown of the metrics runtime.
3. **`chunk_ranges` overflows** (`chunk_overflow`). For a size that takes
   `current + size` past u64::MAX a release build returns ranges that end before
   they start, or are of blocks nobody asked for; a debug build panics.
   `ReturnsPartition` holds of every other request.
4. **A second may have more calls than the limit** (`rate_burst`). The semaphore
   starts full and the first tick is immediate; the permits left before a tick add
   to those after it. `AverageIsCapped` and `WindowIsBounded` are what does hold.

## Assumptions

- `Utc::now()` does not go back, and a process starts at least a millisecond after
  the last file of the one before it was created. The code does not see to that, and
  `spec/CODE_REVIEW_20260216.md:194-196` lists it as a risk. Two processes over one directory at a time are not
  considered, for either program.
- tokio's signals: the first poll of a `ctrl_c()` installs a handler that stays;
  a new future sees only later signals; only futures registered at the time are
  told.
- A crash is the death of the process (panic, SIGKILL, SIGTERM), not of the
  machine: what a returned `close` has written is on disk.
- A Parquet file without footer cannot be read; dropping an `ArrowWriter` writes
  none.
- Fewer logs than u64::MAX are delivered, and fewer rotations made.
- Two logs of a block have different log indices, and there are finitely many of
  them.
- The time is at least one second after the epoch: a `last_log_unix_seconds` of 0
  means that there was no log.
- `SystemTime` and `Instant` advance together and do not go back.
- A broker that has answered keeps the row, and a topic loses none. The producer's
  partitioner goes by topic and key alone, and the number of partitions of a topic
  does not change.
- A chain does not reorganise; alloy's stream skips what it lagged behind, and
  subscribes again by itself after a lost connection.
- In `Frontfill` the provider may deliver any log of the set at any time, in any
  order and repeatedly; in `Handoff` it follows the chain. The backfill provider
  returns exactly the chain's logs in the blocks it was asked for, in any order, or an
  error.

## What is not modelled

- **Command lines** (`src/main.rs`, `src/bin/backfill.rs`) but for the choice of the
  sink and the start block: parsing, defaults and logging; the configurations they
  can produce are the constants `Configs` and `Options`.
- **ABI decoding, addresses and the values of columns**: a log is its topic, its
  block, whether it decodes and whether it has its metadata. Arrow encoding, log
  messages and the texts of errors are left out.
- **URLs and header values**: whether they are accepted is a field of the
  configuration; which key and header need to be is modelled.
- **The histogram of write times and `/metrics`**: what is rendered has no effect.
- **A client that never takes its answer**: it would keep a process that is shutting
  down alive. No document says otherwise.
- **Logs that a reorganisation removed**: the code writes them like any other.
- **A supervisor that restarts into the same log**: with a start block, a log that
  cannot be decoded ends each process that it is replayed to. Each such process is
  in the model; that none gets past the log is not a property of it.

## Plan

The model and its proofs are complete in the sense that every safety property of a
passing run is proved. Order of work, all done but the last:

1. Frontfill with ParquetStorage and its counters; EventSink; chunking; rate
   limiter; Backfill.
2. The metrics runtime; KafkaStorage as a second implementation of `EventSink`;
   the handoff over one chain.
3. Proofs of the safety properties and of the two refinements.
4. A proof that a chunk of a whole `Backfill` run under its rate limiter keeps
   `PermitsComeFromTicks`, which is now proved of the limiter under greedy callers;
   and the contract of `EventSink` itself (what is durable stays so, pending and
   durable rows are apart) as theorems of the abstract specification.
