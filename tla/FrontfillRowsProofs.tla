------------------------- MODULE FrontfillRowsProofs -------------------------
(***************************************************************************)
(* Theorems of Frontfill about its rows and its counters, for every value  *)
(* of its constants: no row is lost or written twice while run() is going, *)
(* none is lost when it returns Ok, a file spans less than flush_blocks    *)
(* blocks, run() keeps the contract of EventSink, and the metrics agree    *)
(* with what was delivered and written.  IndInv of FrontfillProofs says    *)
(* where a row goes; the invariants here say which rows there are.         *)
(***************************************************************************)
EXTENDS FrontfillProofs, FiniteSetTheorems

-----------------------------------------------------------------------------
(* Steps, by what they do to the logs and to the rows *)

Received == \E l \in Logs : Receive(l)

\* A log that is received is the next one, and it is in hand.
LEMMA ReceivedFacts ==
  ASSUME IndInv, Received
  PROVE  /\ delivered' \in Seq(Logs)
         /\ Len(delivered') = Len(delivered) + 1
         /\ Len(delivered') <= MaxLogs
         /\ \A i \in DOMAIN delivered : delivered'[i] = delivered[i]
         /\ DOMAIN delivered = 1 .. Len(delivered) /\ Len(delivered) \in Nat
         /\ pc \in {"loop", "select"} /\ pc' = "validate"
         /\ UNCHANGED <<storageVars, config, next_rotation_block, metricsVars,
                        result, run_start>>
<1>1. PICK l \in Logs : Receive(l)
  BY DEF Received
<1>2. delivered \in Seq(Logs)
  BY DEF IndInv, TypeOK, RunTypeOK
<1>3. delivered' = Append(delivered, l) /\ Len(delivered) < MaxLogs
  BY <1>1 DEF Receive
<1>4. /\ delivered' \in Seq(Logs) /\ Len(delivered') = Len(delivered) + 1
      /\ \A i \in DOMAIN delivered : delivered'[i] = delivered[i]
      /\ DOMAIN delivered = 1 .. Len(delivered) /\ Len(delivered) \in Nat
  BY <1>2, <1>3
<1>5. Len(delivered') <= MaxLogs
  BY <1>3, <1>4, MaxLogsAssumption
<1>6. QED
  BY <1>1, <1>4, <1>5 DEF Receive

\* Every other step leaves the logs, and only Restart starts a new count of them.
LEMMA LogsAreFixed ==
  ASSUME Next, ~Received
  PROVE  /\ UNCHANGED <<delivered, config>>
         /\ ~Restart => UNCHANGED run_start
<1>1. CASE Connecting \/ Selecting
  BY <1>1 DEF Connecting, Selecting, Received, StartRejected, Start,
     ConnectRejected, ConnectOk, ConnectFails, SubscribeOk, SubscribeFails,
     BackoffElapsed, Listen, ListenFails, StreamEnds, Interrupted,
     InterruptedCloseFails, historyVars
<1>2. CASE Processing
  BY <1>2 DEF Processing, MissingMetadata, Validate, FirstTarget, NoRotation,
     Rotate, RotateFails, DecodeIgnored, DecodeFails, DecodeEvent, Write,
     WriteFails, historyVars
<1>3. CASE Return \/ Environment \/ Ended
  BY <1>3 DEF Environment, Ended, Return, Crash, SigintKills, SigintSeen,
     SigintLost, Die, Signalled, Restart, historyVars, vars
<1>4. QED
  BY <1>1, <1>2, <1>3 DEF Next

\* A process that goes on keeps the log it has in hand until it has ignored it or
\* written it, and takes none but by receiving it.
LEMMA HandIsKept ==
  ASSUME Next, ~Received, Running'
  PROVE  /\ InHand' => InHand
         /\ InHand /\ ~InHand' => DecodeIgnored \/ Write
         /\ ~Restart => Running
<1> USE DEF InHand, Running, Alive
<1>1. CASE Connecting \/ Selecting
  BY <1>1 DEF Connecting, Selecting, Received, StartRejected, Start,
     ConnectRejected, ConnectOk, ConnectFails, SubscribeOk, SubscribeFails,
     BackoffElapsed, Listen, ListenFails, StreamEnds, Interrupted,
     InterruptedCloseFails, SleepBeforeReconnecting, ReturnError, StopMetrics
<1>2. CASE Processing
  BY <1>2 DEF Processing, MissingMetadata, Validate, FirstTarget, NoRotation,
     Rotate, RotateFails, DecodeIgnored, DecodeFails, DecodeEvent, Write,
     WriteFails, ReturnError, StopMetrics
<1>3. CASE Return \/ Environment \/ Ended
  BY <1>3 DEF Environment, Ended, Return, Crash, SigintKills, SigintSeen,
     SigintLost, Die, Signalled, Restart, vars
<1>4. QED
  BY <1>1, <1>2, <1>3 DEF Next

\* Only Write makes a row.
LEMMA RowsAreFixed ==
  ASSUME IndInv, Next, ~Write
  PROVE  /\ DOMAIN files \subseteq DOMAIN files'
         /\ \A n \in DOMAIN files : RowsIn(files'[n]) = RowsIn(files[n])
         /\ \A n \in DOMAIN files' \ DOMAIN files : RowsIn(files'[n]) = {}
<1>1. CASE QuietStep \/ DroppingStep \/ Restart \/ UNCHANGED vars
  BY <1>1, QuietFacts, DroppingFacts
  DEF storageVars, StorageDrop, Restart, StorageReopen, LaterMillisecond, vars
<1>2. CASE ClosingStep \/ Rotate
  BY <1>2, ClosingFacts, RotateFacts, DrainGrows DEF RowsIn
<1>3. CASE WriteFails
  BY <1>3, WriteFailsGrows DEF FilesGrow
<1>4. QED
  BY <1>1, <1>2, <1>3, StepKinds

\* A step after which run() is still going closes no file or closes them all, and
\* drops none: a file that was kept is kept.
LEMMA FilesAreKept ==
  ASSUME IndInv, Next, Running', ~Restart
  PROVE  KeptFiles \subseteq KeptFiles'
<1> USE DEF KeptFiles, OpenFiles
<1>1. CASE QuietStep \/ UNCHANGED vars
  BY <1>1, QuietFacts DEF storageVars, vars
<1>2. CASE Rotate
  <2>1. DrainWriters(DOMAIN writers)
    BY <1>2, RotateFacts
  <2>2. \A n \in DOMAIN files : files[n] \in FileType
    BY DEF IndInv, TypeOK, StorageTypeOK
  <2>3. \A n \in KeptFiles : n \in DOMAIN files' /\ files'[n].footer
    BY <2>1, <2>2 DEF DrainWriters, FileType
  <2>4. QED
    BY <2>3
<1>3. CASE Write
  <2>1. PICK t \in EventTypes, n \in FileNames :
          /\ DOMAIN writers' = DOMAIN writers \union {t}
          /\ \A u \in DOMAIN writers : writers'[u] = writers[u]
          /\ writers'[t] = n
          /\ DOMAIN files' = DOMAIN files \union {n}
          /\ \A m \in DOMAIN files : m # n => files'[m] = files[m]
    BY <1>3, WriteGrows
  <2>2. OpenFiles \union {n} \subseteq OpenFiles'
    BY <2>1
  <2>3. QED
    BY <2>1, <2>2
<1>4. CASE DroppingStep \/ ClosingStep \/ WriteFails
  BY <1>4, DroppingFacts, ClosingFacts DEF WriteFails, StopMetrics, Running, Alive
<1>5. QED
  BY <1>1, <1>2, <1>3, <1>4, StepKinds

-----------------------------------------------------------------------------
(* No row is lost or written twice *)

\* Logs that are received or left alone are the same logs.
LEMMA SameLogs ==
  ASSUME IndInv, Next
  PROVE  /\ Len(delivered) \in Nat /\ Len(delivered') \in Nat
         /\ Len(delivered) <= Len(delivered')
         /\ \A i \in 1 .. Len(delivered) : delivered'[i] = delivered[i]
<1>1. delivered \in Seq(Logs)
  BY DEF IndInv, TypeOK, RunTypeOK
<1>2. CASE Received
  BY <1>2, ReceivedFacts
<1>3. CASE ~Received
  BY <1>1, <1>3, LogsAreFixed
<1>4. QED
  BY <1>2, <1>3

\* A log is in no file until it is written.
LEMMA HandStep ==
  ASSUME IndInv, KeepInv, Next
  PROVE  LogInHandIsNoRow'
<1> USE DEF LogInHandIsNoRow, RowsOf
<1> SUFFICES ASSUME InHand'
             PROVE  \A n \in DOMAIN files' : Len(delivered') \notin RowsIn(files'[n])
  OBVIOUS
<1>1. CASE Received
  <2>1. UNCHANGED files /\ Len(delivered') = Len(delivered) + 1 /\ Len(delivered) \in Nat
    BY <1>1, ReceivedFacts DEF storageVars
  <2>2. \A n \in DOMAIN files : RowsIn(files[n]) \subseteq 1 .. Len(delivered)
    BY DEF IndInv, RowsAreDelivered
  <2>3. QED
    BY <2>1, <2>2
<1>2. CASE ~Received
  <2>1. Running'
    BY DEF InHand, Running, Alive
  <2>2. InHand /\ UNCHANGED delivered
    BY <1>2, <2>1, HandIsKept, LogsAreFixed
  <2>3. ~Write
    BY DEF Write, InHand
  <2>4. \A n \in DOMAIN files : Len(delivered) \notin RowsIn(files[n])
    BY <2>2 DEF KeepInv
  <2>5. QED
    BY <2>2, <2>3, <2>4, RowsAreFixed
<1>3. QED
  BY <1>1, <1>2

\* The rows that are due after a step were due before it, except for the one that
\* Write has written.
LEMMA DueStep ==
  ASSUME IndInv, Next, Running', ~Restart
  PROVE  /\ Running
         /\ ~Write => DueRows' \subseteq DueRows
         /\ Write => DueRows' \subseteq DueRows \union {Len(delivered)}
<1>1. /\ Len(delivered) \in Nat /\ run_start \in Nat
      /\ UNCHANGED run_start
  BY MaxU64Assumption, ReceivedFacts, LogsAreFixed DEF IndInv, TypeOK, RunTypeOK
<1>2. CASE Received
  <2>1. /\ Len(delivered') = Len(delivered) + 1
        /\ \A i \in 1 .. Len(delivered) : delivered'[i] = delivered[i]
        /\ pc \in {"loop", "select"} /\ InHand'
    BY <1>2, ReceivedFacts DEF InHand
  <2>2. Running /\ ~InHand
    BY <2>1 DEF Running, Alive, InHand
  <2>3. DueRows' \subseteq DueRows
    BY <1>1, <2>1, <2>2 DEF DueRows
  <2>4. QED
    BY <2>2, <2>3
<1>3. CASE ~Received
  <2>1. UNCHANGED delivered /\ Running
    BY <1>3, LogsAreFixed, HandIsKept
  <2>2. InHand' => InHand
    BY <1>3, HandIsKept
  <2>3. ASSUME NEW i \in DueRows', i \notin DueRows
        PROVE  Write /\ i = Len(delivered)
    <3>1. InHand /\ ~InHand' /\ i = Len(delivered) /\ Decoded(delivered[i])
      BY <1>1, <2>1, <2>2, <2>3 DEF DueRows
    <3>2. DecodeIgnored \/ Write
      BY <1>3, <3>1, HandIsKept
    <3>3. ~DecodeIgnored
      BY <3>1 DEF DecodeIgnored, Ignored, Decoded, log
    <3>4. QED
      BY <3>1, <3>2, <3>3
  <2>4. QED
    BY <2>1, <2>3
<1>4. QED
  BY <1>2, <1>3

\* A row stays in the one file that it is in, and a new one goes into one.
LEMMA KeptOnceStep ==
  ASSUME IndInv, KeepInv, Next
  PROVE  EveryRowIsKeptOnce'
<1> USE DEF RowsOf
<1> SUFFICES ASSUME Running', NEW i \in DueRows'
             PROVE  \E n \in KeptFiles' :
                      /\ i \in RowsIn(files'[n])
                      /\ \A m \in DOMAIN files' : i \in RowsIn(files'[m]) => m = n
  BY DEF EveryRowIsKeptOnce
<1>1. CASE Restart
  <2>1. run_start' = Len(delivered') /\ Len(delivered') \in Nat
    BY <1>1, SameLogs DEF Restart
  <2>2. QED
    BY <2>1 DEF DueRows
<1>2. CASE ~Restart /\ ~Write
  <2>1. i \in DueRows /\ Running
    BY <1>2, DueStep
  <2>2. PICK n \in KeptFiles :
               /\ i \in RowsIn(files[n])
               /\ \A m \in DOMAIN files : i \in RowsIn(files[m]) => m = n
    BY <2>1 DEF KeepInv, EveryRowIsKeptOnce
  <2>3. n \in KeptFiles' /\ n \in DOMAIN files
    BY <1>2, FilesAreKept DEF KeptFiles
  <2>4. QED
    BY <1>2, <2>2, <2>3, RowsAreFixed
<1>3. CASE Write
  <2>1. PICK t \in EventTypes, n \in FileNames :
          /\ writers'[t] = n /\ DOMAIN writers' = DOMAIN writers \union {t}
          /\ DOMAIN files' = DOMAIN files \union {n}
          /\ \/ /\ n \in DOMAIN files
                /\ RowsIn(files'[n]) = RowsIn(files[n]) \union {Len(delivered)}
             \/ /\ n \notin DOMAIN files
                /\ RowsIn(files'[n]) = {Len(delivered)}
          /\ \A m \in DOMAIN files : m # n => files'[m] = files[m]
    BY <1>3, WriteGrows
  <2>2. n \in KeptFiles'
    BY <2>1 DEF KeptFiles, OpenFiles
  <2>3. \A m \in DOMAIN files : Len(delivered) \notin RowsIn(files[m])
    BY <1>3 DEF KeepInv, LogInHandIsNoRow, Write, InHand
  <2>4. ~Restart
    BY <1>3 DEF Write, Restart, Alive
  <2>5. CASE i = Len(delivered)
    BY <2>1, <2>2, <2>3, <2>5
  <2>6. CASE i # Len(delivered)
    <3>1. i \in DueRows /\ Running
      BY <1>3, <2>4, <2>6, DueStep
    <3>2. PICK k \in KeptFiles :
                 /\ i \in RowsIn(files[k])
                 /\ \A m \in DOMAIN files : i \in RowsIn(files[m]) => m = k
      BY <3>1 DEF KeepInv, EveryRowIsKeptOnce
    <3>3. k \in KeptFiles' /\ k \in DOMAIN files
      BY <2>4, FilesAreKept DEF KeptFiles
    <3>4. \A m \in DOMAIN files' :
            i \in RowsIn(files'[m]) <=> m \in DOMAIN files /\ i \in RowsIn(files[m])
      BY <2>1, <2>6
    <3>5. QED
      BY <2>1, <3>2, <3>3, <3>4
  <2>7. QED
    BY <2>5, <2>6
<1>4. QED
  BY <1>1, <1>2, <1>3

\* run() has a result only when it leaves its loop.
LEMMA ResultStep ==
  ASSUME KeepInv, Next
  PROVE  ResultIsLast' /\ IdleHasNoWriter'
<1> USE DEF KeepInv, ResultIsLast, IdleHasNoWriter, Running, Alive
<1>1. CASE Connecting \/ Selecting
  BY <1>1 DEF Connecting, Selecting, StartRejected, Start, Receive, StorageDrop,
     ConnectRejected, ConnectOk, ConnectFails, SubscribeOk, SubscribeFails,
     BackoffElapsed, Listen, ListenFails, StreamEnds, Interrupted, DrainWriters,
     InterruptedCloseFails, SleepBeforeReconnecting, ReturnError, StopMetrics,
     CloseWriters, CloseWritersFails, storageVars
<1>2. CASE Processing
  BY <1>2 DEF Processing, MissingMetadata, Validate, FirstTarget, NoRotation,
     Rotate, RotateFails, DecodeIgnored, DecodeFails, DecodeEvent, Write,
     WriteFails, ReturnError, StopMetrics, RotateWritersFails, CloseWritersFails,
     DrainWriters
<1>3. CASE Return \/ Environment \/ Ended
  BY <1>3 DEF Environment, Ended, Return, Crash, SigintKills, SigintSeen, Die,
     SigintLost, Signalled, Restart, vars, StorageDrop, StorageReopen, LaterMillisecond, storageVars
<1>4. QED
  BY <1>1, <1>2, <1>3 DEF Next

\* Interrupted is the only way to return Ok.
LEMMA OkSteps ==
  ASSUME Next, ~Interrupted, result' = "ok"
  PROVE  result = "ok"
<1>1. CASE Connecting \/ Selecting
  BY <1>1 DEF Connecting, Selecting, StartRejected, Start, Receive,
     ConnectRejected, ConnectOk, ConnectFails, SubscribeOk, SubscribeFails,
     BackoffElapsed, Listen, ListenFails, StreamEnds,
     InterruptedCloseFails, ReturnError
<1>2. CASE Processing
  BY <1>2 DEF Processing, MissingMetadata, Validate, FirstTarget, NoRotation,
     Rotate, RotateFails, DecodeIgnored, DecodeFails, DecodeEvent, Write,
     WriteFails, ReturnError, StopMetrics
<1>3. CASE Return \/ Environment \/ Ended
  BY <1>3, NoneAssumption DEF Environment, Ended, Return, Crash, SigintKills,
     SigintSeen, SigintLost, Die, Signalled, Restart, vars
<1>4. QED
  BY <1>1, <1>2, <1>3 DEF Next

\* What is left of a process that has a result: steps that touch neither files nor
\* logs, until Restart.
LEMMA AfterResult ==
  ASSUME Next, ~Running, ~Restart
  PROVE  /\ ~Running'
         /\ UNCHANGED <<files, delivered, run_start>>
BY DEF Running, Alive, InHand, Next, Connecting, Selecting, Processing, Environment,
   Ended, StartRejected, Start, Receive, ConnectRejected, ConnectOk, ConnectFails,
   SubscribeOk, SubscribeFails, BackoffElapsed, Listen, ListenFails, StreamEnds,
   Interrupted, InterruptedCloseFails, MissingMetadata, Validate, FirstTarget,
   NoRotation, Rotate, RotateFails, DecodeIgnored, DecodeFails, DecodeEvent, Write,
   WriteFails, Return, Crash, SigintKills, SigintSeen, SigintLost, Die, Signalled,
   StorageDrop, vars, storageVars, historyVars

\* Interrupted closes every file that is kept, and nothing touches them later.
LEMMA GracefulStep ==
  ASSUME IndInv, KeepInv, Next
  PROVE  GracefulExitKeepsEveryRow'
<1> SUFFICES ASSUME result' = "ok" PROVE DueRows' \subseteq ReadableRows'
  BY DEF GracefulExitKeepsEveryRow
<1>1. CASE Interrupted
  <2>1. /\ DrainWriters(DOMAIN writers) /\ UNCHANGED <<delivered, run_start>>
        /\ pc = "select" /\ pc' = "stopping"
    BY <1>1 DEF Interrupted, CloseWriters, StopMetrics, historyVars
  <2>2. DueRows' = DueRows /\ Running
    BY <2>1 DEF DueRows, InHand, Running, Alive
  <2>3. \A n \in DOMAIN files : files[n] \in FileType
    BY DEF IndInv, TypeOK, StorageTypeOK
  <2>4. \A n \in KeptFiles : /\ n \in DOMAIN files' /\ files'[n].footer
                             /\ RowsIn(files'[n]) = RowsIn(files[n])
    BY <2>1, <2>3 DEF KeptFiles, OpenFiles, DrainWriters, FileType, RowsIn
  <2>5. \A i \in DueRows : \E n \in KeptFiles : i \in RowsIn(files[n])
    BY <2>2 DEF KeepInv, EveryRowIsKeptOnce, RowsOf
  <2>6. QED
    BY <2>2, <2>4, <2>5 DEF ReadableRows, RowsOf
<1>2. CASE ~Interrupted
  <2>1. result = "ok" /\ ~Running /\ ~Restart
    BY <1>2, OkSteps, NoneAssumption DEF KeepInv, ResultIsLast, Restart
  <2>2. ~Running' /\ UNCHANGED <<files, delivered, run_start>>
    BY <2>1, AfterResult
  <2>3. ~InHand /\ ~InHand'
    BY <2>1, <2>2 DEF Running, Alive, InHand
  <2>4. DueRows' = DueRows /\ ReadableRows' = ReadableRows
    BY <2>2, <2>3 DEF DueRows, ReadableRows, RowsOf
  <2>5. QED
    BY <2>1, <2>4 DEF KeepInv, GracefulExitKeepsEveryRow
<1>3. QED
  BY <1>1, <1>2

\* KeepInv holds at the start, and every step keeps it.
LEMMA InitKeepInv == Init => KeepInv
<1> SUFFICES ASSUME Init PROVE KeepInv
  OBVIOUS
<1>1. /\ pc = "start" /\ result = None /\ delivered = <<>> /\ run_start = 0
      /\ writers = EmptyMap
  BY DEF Init, StorageInit
<1>2. DueRows = {}
  BY <1>1 DEF DueRows
<1>3. QED
  BY <1>1, <1>2, NoneAssumption
  DEF KeepInv, EveryRowIsKeptOnce, GracefulExitKeepsEveryRow, LogInHandIsNoRow,
      InHand, ResultIsLast, IdleHasNoWriter

LEMMA NextKeepInv == IndInv /\ KeepInv /\ [Next]_vars => KeepInv'
<1>1. ASSUME IndInv, KeepInv, Next
      PROVE  KeepInv'
  BY <1>1, KeptOnceStep, GracefulStep, HandStep, ResultStep DEF KeepInv
<1>2. ASSUME KeepInv, UNCHANGED vars
      PROVE  KeepInv'
  BY <1>2 DEF KeepInv, EveryRowIsKeptOnce, GracefulExitKeepsEveryRow,
     LogInHandIsNoRow, ResultIsLast, IdleHasNoWriter, Running, Alive, InHand,
     DueRows, KeptFiles, OpenFiles, ReadableRows, RowsOf, vars, storageVars,
     historyVars
<1>3. QED
  BY <1>1, <1>2

LEMMA KeepInvariance == Spec => []KeepInv
<1>1. QED
  BY Invariance, InitKeepInv, NextKeepInv, PTL DEF Spec

\* While run() is going, every log that it was given and could decode is a row of
\* exactly one file that is closed or will be.
THEOREM RowsAreKeptOnce == Spec => []EveryRowIsKeptOnce
<1>1. KeepInv => EveryRowIsKeptOnce
  BY DEF KeepInv
<1>2. QED
  BY <1>1, KeepInvariance, PTL

\* When run() returns Ok, every such row can be read back.
THEOREM GracefulExit == Spec => []GracefulExitKeepsEveryRow
<1>1. KeepInv => GracefulExitKeepsEveryRow
  BY DEF KeepInv
<1>2. QED
  BY <1>1, KeepInvariance, PTL

-----------------------------------------------------------------------------
(* A file spans less than flush_blocks blocks *)

\* Every log that was delivered has a block number.
LEMMA BlocksAreNumbers ==
  ASSUME IndInv
  PROVE  /\ \A i \in DOMAIN delivered : delivered[i].block \in Nat
         /\ DOMAIN delivered = 1 .. Len(delivered) /\ Len(delivered) \in Nat
         /\ run_start \in Nat /\ config.flush_blocks \in Nat
         /\ next_rotation_block # None => next_rotation_block \in Nat
<1>1. delivered \in Seq(Logs) /\ config \in Configs /\ run_start \in 0 .. Len(delivered)
      /\ next_rotation_block \in 0 .. MaxU64 \union {None}
  BY DEF IndInv, TypeOK, RunTypeOK
<1>2. \A i \in 1 .. Len(delivered) : delivered[i] \in LogType
  BY <1>1, LogsAssumption
<1>3. config.flush_blocks \in Nat
  BY <1>1, ConfigsAssumption DEF ConfigType
<1>4. /\ \A i \in DOMAIN delivered : delivered[i].block \in Nat
      /\ DOMAIN delivered = 1 .. Len(delivered) /\ Len(delivered) \in Nat
  BY <1>1, <1>2, MaxU64Assumption DEF LogType
<1>5. QED
  BY <1>1, <1>3, <1>4, MaxU64Assumption

\* The logs were in order if they are now.
LEMMA InOrderStep ==
  ASSUME IndInv, Next, InOrder'
  PROVE  InOrder
<1>1. CASE Received
  BY <1>1, ReceivedFacts DEF InOrder
<1>2. CASE ~Received
  BY <1>2, LogsAreFixed DEF InOrder
<1>3. QED
  BY <1>1, <1>2

\* The rows of an open file after a step other than Write are those of an open
\* file before it.
LEMMA OpenRowsShrink ==
  ASSUME IndInv, Next, ~Write, NEW n \in OpenFiles', NEW i \in RowsIn(files'[n])
  PROVE  n \in OpenFiles /\ i \in RowsIn(files[n])
<1> USE DEF OpenFiles
<1>1. CASE QuietStep \/ UNCHANGED vars
  BY <1>1, QuietFacts DEF storageVars, vars
<1>2. CASE DroppingStep \/ ClosingStep \/ Rotate \/ Restart
  BY <1>2, DroppingFacts, ClosingFacts, RotateFacts
  DEF StorageDrop, DrainWriters, Restart, StorageReopen, LaterMillisecond, EmptyMap
<1>3. CASE WriteFails
  <2>1. \A u \in DOMAIN writers' : \/ RowsIn(files'[writers'[u]]) = {}
                                   \/ /\ u \in DOMAIN writers /\ writers'[u] = writers[u]
                                      /\ files'[writers'[u]] = files[writers[u]]
    BY <1>3, WriteFailsGrows DEF IndInv, WritersAgreeWithFiles
  <2>2. QED
    BY <2>1
<1>4. QED
  BY <1>1, <1>2, <1>3, StepKinds

\* The row that is written is less than flush_blocks blocks after each row that is
\* in its file.
LEMMA SpanStep ==
  ASSUME IndInv, SpanInv, Next
  PROVE  FilesSpanFlushBlocks'
<1> USE DEF RowsOf
<1> SUFFICES ASSUME InOrder', NEW n \in DOMAIN files',
                    NEW i \in RowsIn(files'[n]), NEW j \in RowsIn(files'[n])
             PROVE  delivered'[i].block < delivered'[j].block + config'.flush_blocks
  BY DEF FilesSpanFlushBlocks
<1>1. InOrder /\ UNCHANGED config
  BY InOrderStep, ReceivedFacts, LogsAreFixed
<1>2. \A m \in DOMAIN files : RowsIn(files[m]) \subseteq DOMAIN delivered
  BY BlocksAreNumbers DEF IndInv, RowsAreDelivered
<1>3. ASSUME NEW m \in DOMAIN files, i \in RowsIn(files[m]), j \in RowsIn(files[m])
      PROVE  delivered'[i].block < delivered'[j].block + config'.flush_blocks
  <2>1. delivered[i].block < delivered[j].block + config.flush_blocks
    BY <1>1, <1>3 DEF SpanInv, FilesSpanFlushBlocks
  <2>2. delivered'[i] = delivered[i] /\ delivered'[j] = delivered[j]
    BY <1>2, <1>3, SameLogs, BlocksAreNumbers
  <2>3. QED
    BY <1>1, <2>1, <2>2
<1>4. CASE ~Write
  BY <1>3, <1>4, RowsAreFixed
<1>5. CASE Write
  <2> DEFINE L == Len(delivered)
  <2>1. PICK t \in EventTypes, f \in FileNames :
          /\ DOMAIN files' = DOMAIN files \union {f}
          /\ \/ /\ t \in DOMAIN writers /\ f = writers[t] /\ f \in DOMAIN files
                /\ RowsIn(files'[f]) = RowsIn(files[f]) \union {L}
             \/ /\ f \notin DOMAIN files
                /\ RowsIn(files'[f]) = {L}
          /\ \A m \in DOMAIN files : m # f => files'[m] = files[m]
    BY <1>5, WriteGrows
  <2>2. /\ UNCHANGED delivered /\ pc = "write" /\ InHand
        /\ L \in DOMAIN delivered /\ log = delivered[L]
        /\ config.flush_blocks > 0
        /\ next_rotation_block # None
    BY <1>5, BlocksAreNumbers
    DEF Write, historyVars, log, InHand, IndInv, LogInHandIsBelowTarget,
        StartedWithFlushBlocks
  <2>3. CASE n # f
    BY <1>3, <2>1, <2>3
  <2>4. CASE n = f /\ i = L /\ j = L
    BY <1>1, <2>2, <2>4, BlocksAreNumbers
  <2>5. CASE n = f /\ i # L /\ j # L
    BY <1>3, <2>1, <2>5
  <2>6. CASE n = f /\ i # L /\ j = L
    <3>1. i \in DOMAIN delivered /\ i < L
      BY <1>2, <2>1, <2>6, BlocksAreNumbers
    <3>2. delivered[i].block <= delivered[L].block
      BY <1>1, <2>2, <3>1 DEF InOrder
    <3>3. QED
      BY <1>1, <2>2, <2>6, <3>1, <3>2, BlocksAreNumbers
  <2>7. CASE n = f /\ i = L /\ j # L
    <3>1. f \in OpenFiles /\ j \in RowsIn(files[f]) /\ j \in DOMAIN delivered
      BY <1>2, <2>1, <2>7 DEF OpenFiles
    <3>2. /\ next_rotation_block <= delivered[j].block + config.flush_blocks
          /\ log.block < next_rotation_block
      BY <1>1, <2>2, <3>1 DEF SpanInv, TargetIsNear
    <3>3. QED
      BY <1>1, <2>2, <2>7, <3>1, <3>2, BlocksAreNumbers
  <2>8. QED
    BY <2>1, <2>3, <2>4, <2>5, <2>6, <2>7
<1>6. QED
  BY <1>4, <1>5

\* The target is armed by a log that came no later than the last one and than the
\* rows of the open files.
LEMMA TargetStep ==
  ASSUME IndInv, SpanInv, Next
  PROVE  TargetIsNear'
<1> USE DEF RowsOf
<1> SUFFICES ASSUME InOrder', next_rotation_block' # None
             PROVE  /\ Len(delivered') > run_start'
                    /\ next_rotation_block' <= log'.block + config'.flush_blocks
                    /\ \A n \in OpenFiles' : \A i \in RowsIn(files'[n]) :
                         next_rotation_block' <= delivered'[i].block + config'.flush_blocks
                    /\ pc' \in {"decode", "write"} =>
                         \/ log'.block < next_rotation_block'
                         \/ \A n \in OpenFiles' : RowsIn(files'[n]) = {}
  BY DEF TargetIsNear
<1>1. InOrder /\ UNCHANGED config
  BY InOrderStep, ReceivedFacts, LogsAreFixed
<1>2. \A n \in OpenFiles : RowsIn(files[n]) \subseteq DOMAIN delivered
  BY BlocksAreNumbers DEF IndInv, RowsAreDelivered, OpenFiles, WritersAgreeWithFiles
<1>3. next_rotation_block # None =>
        /\ Len(delivered) > run_start
        /\ next_rotation_block <= log.block + config.flush_blocks
        /\ \A n \in OpenFiles : \A i \in RowsIn(files[n]) :
             next_rotation_block <= delivered[i].block + config.flush_blocks
  BY <1>1 DEF SpanInv, TargetIsNear
<1>4. CASE Received
  <2>1. UNCHANGED <<next_rotation_block, writers, files, run_start>> /\ pc' = "validate"
    BY <1>4, ReceivedFacts DEF storageVars
  <2>2. Len(delivered) > run_start
    BY <1>3, <2>1
  <2>3. /\ Len(delivered) \in DOMAIN delivered
        /\ delivered'[Len(delivered)] = log
        /\ Len(delivered') = Len(delivered) + 1
        /\ DOMAIN delivered' = 1 .. Len(delivered')
    BY <1>4, <2>2, ReceivedFacts, BlocksAreNumbers DEF log
  <2>4. log.block <= log'.block
    BY <2>3, BlocksAreNumbers DEF InOrder, log
  <2>5. log'.block \in Nat /\ log.block \in Nat
    <3>1. delivered' \in Seq(Logs) /\ Len(delivered') \in 1 .. Len(delivered')
      BY <1>4, <2>3, ReceivedFacts, BlocksAreNumbers
    <3>2. log' \in LogType
      BY <3>1, LogsAssumption DEF log
    <3>3. QED
      BY <2>3, <3>2, BlocksAreNumbers, MaxU64Assumption DEF LogType, log
  <2>6. \A i \in DOMAIN delivered : delivered'[i] = delivered[i]
    BY <1>4, ReceivedFacts
  <2>7. /\ Len(delivered') > run_start'
        /\ next_rotation_block' <= log'.block + config'.flush_blocks
    BY <1>1, <1>3, <2>1, <2>2, <2>3, <2>4, <2>5, BlocksAreNumbers
  <2>8. \A n \in OpenFiles' : \A i \in RowsIn(files'[n]) :
          next_rotation_block' <= delivered'[i].block + config'.flush_blocks
    BY <1>1, <1>2, <1>3, <2>1, <2>6 DEF OpenFiles
  <2>9. QED
    BY <2>1, <2>7, <2>8
<1>5. CASE FirstTarget \/ Rotate
  <2>1. /\ ArmRotation /\ pc = "rotate" /\ InHand
        /\ UNCHANGED <<delivered, run_start>>
    BY <1>5 DEF FirstTarget, Rotate, InHand, historyVars
  <2>2. \A n \in OpenFiles' : RowsIn(files'[n]) = {}
    <3>1. CASE FirstTarget
      BY <3>1 DEF FirstTarget, IndInv, OpenRowsBelowTarget, storageVars, OpenFiles
    <3>2. CASE Rotate
      BY <3>2, RotateFacts DEF OpenFiles, EmptyMap
    <3>3. QED
      BY <1>5, <3>1, <3>2
  <2>3. /\ Len(delivered) > run_start
        /\ log.block \in 0 .. MaxU64
    BY <2>1, LogInHandType DEF IndInv, TypeOK, LogInHandIsBelowTarget, LogType
  <2>4. next_rotation_block' <= log.block + config.flush_blocks
    BY <2>1, <2>3, BlocksAreNumbers, MaxU64Assumption DEF ArmRotation, SaturatingAdd
  <2>5. QED
    BY <1>1, <2>1, <2>2, <2>3, <2>4 DEF log
<1>6. CASE Write
  <2> DEFINE L == Len(delivered)
  <2>1. PICK t \in EventTypes, f \in FileNames :
          /\ DOMAIN writers' = DOMAIN writers \union {t}
          /\ \A u \in DOMAIN writers : writers'[u] = writers[u]
          /\ writers'[t] = f
          /\ \/ /\ t \in DOMAIN writers /\ f = writers[t]
                /\ RowsIn(files'[f]) = RowsIn(files[f]) \union {L}
             \/ RowsIn(files'[f]) = {L}
          /\ \A m \in DOMAIN files : m # f => files'[m] = files[m]
    BY <1>6, WriteGrows
  <2>2. /\ UNCHANGED <<delivered, run_start, next_rotation_block>>
        /\ pc' = "loop"
    BY <1>6 DEF Write, historyVars
  <2>3. ASSUME NEW u \in DOMAIN writers', NEW i \in RowsIn(files'[writers'[u]])
        PROVE  next_rotation_block <= delivered[i].block + config.flush_blocks
    <3>1. CASE i = L
      BY <1>3, <2>2, <3>1 DEF log
    <3>2. CASE i # L
      <4>1. u \in DOMAIN writers /\ writers'[u] = writers[u]
        BY <2>1, <2>3, <3>2
      <4>2. writers[u] \in OpenFiles /\ i \in RowsIn(files[writers[u]])
        BY <2>1, <2>3, <3>2, <4>1 DEF OpenFiles, IndInv, WritersAgreeWithFiles
      <4>3. QED
        BY <1>3, <2>2, <4>2
    <3>3. QED
      BY <3>1, <3>2
  <2>4. QED
    BY <1>1, <1>3, <2>2, <2>3 DEF OpenFiles, log
<1>7. CASE ~Received /\ ~FirstTarget /\ ~Rotate /\ ~Write
  <2>1. UNCHANGED <<next_rotation_block, run_start>>
    <3>1. ~Restart
      BY DEF Restart
    <3>2. UNCHANGED next_rotation_block
      BY <1>7, <3>1 DEF Received, Next, Connecting, Selecting, Processing,
         Environment, Ended, StartRejected, Start, ConnectRejected, ConnectOk,
         ConnectFails, SubscribeOk, SubscribeFails, BackoffElapsed, Listen,
         ListenFails, StreamEnds, Interrupted, InterruptedCloseFails,
         MissingMetadata, Validate, NoRotation, RotateFails, DecodeIgnored,
         DecodeFails, DecodeEvent, WriteFails, Return, Crash, SigintKills,
         SigintSeen, SigintLost, Die, Signalled, vars
    <3>3. QED
      BY <1>7, <3>1, <3>2, LogsAreFixed
  <2>2. UNCHANGED delivered
    BY <1>7, LogsAreFixed
  <2>3. \A n \in OpenFiles' : \A i \in RowsIn(files'[n]) :
          n \in OpenFiles /\ i \in RowsIn(files[n])
    BY <1>7, OpenRowsShrink
  <2>4. ASSUME pc' \in {"decode", "write"}
        PROVE  \/ log.block < next_rotation_block
               \/ \A n \in OpenFiles : RowsIn(files[n]) = {}
    <3>1. CASE NoRotation
      <4>1. log.block \in Nat
        BY <3>1, LogInHandType, MaxU64Assumption
        DEF IndInv, TypeOK, LogType, NoRotation, InHand
      <4>2. QED
        BY <3>1, <4>1, BlocksAreNumbers DEF NoRotation, RotationDue
    <3>2. CASE ~NoRotation
      <4>1. pc \in {"decode", "write"}
        BY <1>7, <2>4, <3>2 DEF Received, Next, Connecting, Selecting, Processing,
           Environment, Ended, StartRejected, Start, ConnectRejected, ConnectOk,
           ConnectFails, SubscribeOk, SubscribeFails, BackoffElapsed, Listen,
           ListenFails, StreamEnds, Interrupted, InterruptedCloseFails,
           MissingMetadata, Validate, RotateFails, DecodeIgnored,
           DecodeFails, DecodeEvent, WriteFails, Return, Crash, SigintKills,
           SigintSeen, SigintLost, Die, Signalled, Restart, vars, ReturnError,
           StopMetrics, SleepBeforeReconnecting
      <4>2. QED
        BY <1>1, <2>1, <4>1 DEF SpanInv, TargetIsNear
    <3>3. QED
      BY <3>1, <3>2
  <2>5. QED
    BY <1>1, <1>3, <2>1, <2>2, <2>3, <2>4 DEF log
<1>8. QED
  BY <1>4, <1>5, <1>6, <1>7

LEMMA SpanInvariance == Spec => []SpanInv
<1>1. Init => SpanInv
  <2> SUFFICES ASSUME Init PROVE SpanInv
    OBVIOUS
  <2>1. files = EmptyMap /\ next_rotation_block = None
    BY DEF Init, StorageInit
  <2>2. QED
    BY <2>1 DEF SpanInv, FilesSpanFlushBlocks, TargetIsNear, EmptyMap
<1>2. ASSUME IndInv, SpanInv, UNCHANGED vars
      PROVE  SpanInv'
  BY <1>2 DEF SpanInv, FilesSpanFlushBlocks, TargetIsNear, InOrder, OpenFiles, RowsOf,
     log, vars, storageVars, historyVars
<1>3. IndInv /\ SpanInv /\ [Next]_vars => SpanInv'
  BY <1>2, SpanStep, TargetStep DEF SpanInv
<1>4. QED
  BY <1>1, <1>3, Invariance, PTL DEF Spec

\* As long as blocks have arrived in order, the rows of one file are less than
\* flush_blocks blocks apart, also where the target saturates.
THEOREM FilesSpanLess == Spec => []FilesSpanFlushBlocks
<1>1. SpanInv => FilesSpanFlushBlocks
  BY DEF SpanInv
<1>2. QED
  BY <1>1, SpanInvariance, PTL

-----------------------------------------------------------------------------
(* run() keeps the contract of EventSink *)

\* The rows of all files, and those of open files.
WrittenRows == UNION {RowsOf(n) : n \in DOMAIN files}
PendingRows == UNION {RowsOf(n) : n \in OpenFiles}

\* Steps that leave the storage alone: the caller takes a log, goes on, or gives
\* the sink up.
LEMMA QuietSink ==
  ASSUME IndInv, KeepInv, QuietStep
  PROVE  Sink!SinkNext \/ UNCHANGED Sink!sinkVars
<1>1. /\ UNCHANGED <<WrittenRows, PendingRows, ReadableRows>>
      /\ Running' => Running
  BY QuietFacts DEF storageVars, WrittenRows, PendingRows, ReadableRows, OpenFiles, RowsOf
<1>2. CASE Received
  <2>1. /\ Len(delivered') = Len(delivered) + 1 /\ Len(delivered) \in Nat
        /\ Len(delivered') <= MaxLogs
        /\ Running /\ Running'
    BY <1>2, ReceivedFacts DEF Running, Alive
  <2>2. /\ Len(delivered') \in 1 .. MaxLogs
        /\ Len(delivered') \notin 1 .. Len(delivered)
        /\ 1 .. Len(delivered') = (1 .. Len(delivered)) \union {Len(delivered')}
    BY <2>1, MaxLogsAssumption
  <2>3. Sink!Give(Len(delivered'))
    BY <1>1, <2>1, <2>2 DEF Sink!Give, WrittenRows, PendingRows
  <2>4. QED
    BY <2>2, <2>3 DEF Sink!SinkNext
<1>3. CASE ~Received
  <2>1. UNCHANGED delivered
    BY <1>3 DEF Received, QuietStep, StartRejected, Start, ConnectOk, ConnectFails,
       SubscribeOk, SubscribeFails, BackoffElapsed, Listen, StreamEnds,
       MissingMetadata, Validate, FirstTarget, NoRotation, DecodeIgnored,
       DecodeFails, DecodeEvent, SigintSeen, SigintLost, Signalled, historyVars
  <2>2. CASE Running' = Running
    BY <1>1, <2>1, <2>2 DEF Sink!sinkVars, WrittenRows, PendingRows
  <2>3. CASE Running /\ ~Running'
    BY <1>1, <2>1, <2>3 DEF Sink!SinkNext, Sink!GiveUp, WrittenRows, PendingRows
  <2>4. Running \in BOOLEAN /\ Running' \in BOOLEAN
    BY DEF Running, Alive
  <2>5. QED
    BY <1>1, <2>2, <2>3, <2>4
<1>4. QED
  BY <1>2, <1>3

\* Closing writers makes the rows of those that are closed readable, and leaves
\* none open.
LEMMA DrainSettles ==
  ASSUME IndInv, NEW closed \in SUBSET DOMAIN writers, DrainWriters(closed)
  PROVE  LET kept == UNION {RowsOf(writers[t]) : t \in closed}
         IN /\ kept \subseteq PendingRows
            /\ ReadableRows' = ReadableRows \union kept
            /\ PendingRows' = {}
            /\ UNCHANGED WrittenRows
<1> DEFINE kept == UNION {RowsOf(writers[t]) : t \in closed}
<1> USE DEF RowsOf
<1>1. \A n \in DOMAIN files : files[n] \in FileType
  BY DEF IndInv, TypeOK, StorageTypeOK
<1>2. /\ DOMAIN files' = DOMAIN files /\ writers' = EmptyMap
      /\ \A n \in DOMAIN files :
           /\ RowsIn(files'[n]) = RowsIn(files[n])
           /\ files'[n].footer <=> files[n].footer \/ \E t \in closed : writers[t] = n
  BY <1>1 DEF DrainWriters, RowsIn, FileType
<1>3. \A t \in closed : writers[t] \in DOMAIN files
  BY DEF IndInv, WritersAgreeWithFiles
<1>4. kept \subseteq PendingRows
  BY DEF PendingRows, OpenFiles
<1>5. ReadableRows' = ReadableRows \union kept
  BY <1>2, <1>3 DEF ReadableRows
<1>6. PendingRows' = {}
  BY <1>2 DEF PendingRows, OpenFiles, EmptyMap
<1>7. UNCHANGED WrittenRows
  BY <1>2 DEF WrittenRows
<1>8. QED
  BY <1>4, <1>5, <1>6, <1>7

\* A rotation and a shutdown that return Ok settle every pending row, one that
\* fails some of them.
LEMMA ClosingSink ==
  ASSUME IndInv, ClosingStep \/ Rotate
  PROVE  Sink!SinkNext
<1>1. UNCHANGED delivered /\ Running
  BY DEF ClosingStep, Interrupted, InterruptedCloseFails, RotateFails, Rotate,
     Running, Alive, historyVars
<1>2. CASE Rotate \/ Interrupted
  <2>1. DrainWriters(DOMAIN writers)
    BY <1>2, RotateFacts DEF Interrupted, CloseWriters
  <2>2. UNION {RowsOf(writers[t]) : t \in DOMAIN writers} = PendingRows
    BY DEF PendingRows, OpenFiles
  <2>3. /\ ReadableRows' = ReadableRows \union PendingRows
        /\ PendingRows' = {} /\ UNCHANGED WrittenRows
    BY <2>1, <2>2, DrainSettles
  <2>4. Sink!Flush
    BY <1>1, <2>3 DEF Sink!Flush, Sink!Settle, WrittenRows, PendingRows
  <2>5. QED
    BY <2>4 DEF Sink!SinkNext
<1>3. CASE InterruptedCloseFails \/ RotateFails
  <2>1. PICK closed \in SUBSET DOMAIN writers : DrainWriters(closed)
    BY <1>3 DEF InterruptedCloseFails, RotateFails, RotateWritersFails, CloseWritersFails
  <2>2. ~Running'
    BY <1>3, ClosingFacts DEF ClosingStep
  <2>3. PICK kept \in SUBSET PendingRows :
               /\ ReadableRows' = ReadableRows \union kept
               /\ PendingRows' = {} /\ UNCHANGED WrittenRows
    BY <2>1, DrainSettles
  <2>4. Sink!FlushFails
    BY <1>1, <2>2, <2>3 DEF Sink!FlushFails, Sink!Settle, WrittenRows, PendingRows
  <2>5. QED
    BY <2>4 DEF Sink!SinkNext
<1>4. QED
  BY <1>2, <1>3 DEF ClosingStep

\* A row that is written was not accepted before, and is pending.
LEMMA WriteSink ==
  ASSUME IndInv, KeepInv, Write
  PROVE  Sink!SinkNext
<1> DEFINE L == Len(delivered)
<1> USE DEF RowsOf
<1>1. /\ L \in 1 .. MaxLogs /\ UNCHANGED delivered /\ InHand /\ Running /\ Running'
  BY MaxLogsAssumption
  DEF Write, historyVars, InHand, Running, Alive, IndInv, TypeOK, RunTypeOK,
      LogInHandIsBelowTarget
<1>2. \A m \in DOMAIN files : L \notin RowsIn(files[m])
  BY <1>1 DEF KeepInv, LogInHandIsNoRow
<1>3. PICK t \in EventTypes, n \in FileNames :
          /\ DOMAIN writers' = DOMAIN writers \union {t}
          /\ \A u \in DOMAIN writers : writers'[u] = writers[u]
          /\ writers'[t] = n
          /\ DOMAIN files' = DOMAIN files \union {n}
          /\ ~files'[n].footer
          /\ \/ /\ t \in DOMAIN writers /\ n = writers[t] /\ n \in DOMAIN files
                /\ RowsIn(files'[n]) = RowsIn(files[n]) \union {L}
             \/ /\ t \notin DOMAIN writers /\ n \notin DOMAIN files
                /\ RowsIn(files'[n]) = {L}
          /\ \A m \in DOMAIN files : m # n => files'[m] = files[m]
  BY <1>1, WriteGrows
<1>4. \A u \in DOMAIN writers : writers[u] \in DOMAIN files /\ ~files[writers[u]].footer
  BY DEF IndInv, WritersAgreeWithFiles
<1>5. WrittenRows' = WrittenRows \union {L}
  BY <1>3 DEF WrittenRows
<1>6. PendingRows' = PendingRows \union {L}
  <2>1. OpenFiles' = OpenFiles \union {n}
    BY <1>3 DEF OpenFiles
  <2>2. n \in OpenFiles \/ n \notin DOMAIN files
    BY <1>3 DEF OpenFiles
  <2>3. \A m \in OpenFiles : m \in DOMAIN files
    BY <1>4 DEF OpenFiles
  <2>4. QED
    BY <1>3, <2>1, <2>2, <2>3 DEF PendingRows
<1>7. UNCHANGED ReadableRows
  <2>1. \A m \in DOMAIN files : files[m].footer => m # n
    BY <1>3, <1>4
  <2>2. {m \in DOMAIN files' : files'[m].footer} = {m \in DOMAIN files : files[m].footer}
    BY <1>3, <2>1
  <2>3. \A m \in DOMAIN files : files[m].footer => files'[m] = files[m]
    BY <1>3, <2>1
  <2>4. QED
    BY <2>2, <2>3 DEF ReadableRows
<1>8. L \notin WrittenRows /\ L \notin ReadableRows
  BY <1>2 DEF WrittenRows, ReadableRows
<1>9. Sink!Accept(L)
  <2>1. /\ 1 .. Len(delivered') = (1 .. Len(delivered)) \union {L}
        /\ {L} \ ReadableRows = {L}
    BY <1>1, <1>8, MaxLogsAssumption
  <2> HIDE DEF L
  <2>2. QED
    BY <1>1, <1>5, <1>6, <1>7, <1>8, <2>1 DEF Sink!Accept, WrittenRows, PendingRows
<1>10. QED
  BY <1>1, <1>9 DEF Sink!SinkNext

\* A write that fails gives the sink up, and at most an empty file is new.
LEMMA WriteFailsSink ==
  ASSUME IndInv, WriteFails
  PROVE  Sink!SinkNext
<1> USE DEF RowsOf
<1>1. UNCHANGED delivered /\ ~Running'
  BY DEF WriteFails, historyVars, StopMetrics, Running, Alive
<1>2. /\ DOMAIN files \subseteq DOMAIN files'
      /\ \A m \in DOMAIN files : files'[m] = files[m]
      /\ \A m \in DOMAIN files' \ DOMAIN files : RowsIn(files'[m]) = {} /\ ~files'[m].footer
      /\ \A u \in DOMAIN writers : u \in DOMAIN writers' /\ writers'[u] = writers[u]
      /\ \A u \in DOMAIN writers' \ DOMAIN writers : writers'[u] \in DOMAIN files' \ DOMAIN files
  BY WriteFailsGrows DEF FilesGrow
<1>3. \A u \in DOMAIN writers : writers[u] \in DOMAIN files
  BY DEF IndInv, WritersAgreeWithFiles
<1>4. UNCHANGED WrittenRows
  BY <1>2 DEF WrittenRows
<1>5. UNCHANGED PendingRows
  BY <1>2, <1>3 DEF PendingRows, OpenFiles
<1>6. UNCHANGED ReadableRows
  BY <1>2 DEF ReadableRows
<1>7. QED
  BY <1>1, <1>4, <1>5, <1>6 DEF Sink!SinkNext, Sink!GiveUp, WrittenRows, PendingRows

\* Dropping the storage loses what is pending, and a later process opens it again.
LEMMA EndingSink ==
  ASSUME IndInv, KeepInv, DroppingStep \/ Restart
  PROVE  Sink!SinkNext
<1> USE DEF RowsOf
<1>1. /\ UNCHANGED <<files, delivered>> /\ writers' = EmptyMap
  BY DroppingFacts DEF StorageDrop, Restart, StorageReopen, LaterMillisecond, DroppingStep,
     ConnectRejected, ListenFails, Return, Crash, SigintKills, Die, historyVars
<1>2. UNCHANGED <<WrittenRows, ReadableRows>> /\ PendingRows' = {}
  BY <1>1 DEF WrittenRows, ReadableRows, PendingRows, OpenFiles, EmptyMap
<1>3. CASE DroppingStep
  <2>1. ~Running'
    BY <1>3, DroppingFacts
  <2>2. Sink!Drop
    BY <1>1, <1>2, <2>1 DEF Sink!Drop, Sink!Settle, WrittenRows, PendingRows
  <2>3. QED
    BY <2>2 DEF Sink!SinkNext
<1>4. CASE Restart
  <2>1. ~Running /\ Running'
    BY <1>4 DEF Restart, Running, Alive
  <2>2. PendingRows = {}
    BY <1>4 DEF Restart, KeepInv, IdleHasNoWriter, PendingRows, OpenFiles, EmptyMap
  <2>3. Sink!Reopen
    BY <1>1, <1>2, <2>1, <2>2 DEF Sink!Reopen, WrittenRows, PendingRows
  <2>4. QED
    BY <2>3 DEF Sink!SinkNext
<1>5. QED
  BY <1>3, <1>4

\* The frontfill process implements the contract of EventSink: each of its steps is
\* one that a caller that keeps the protocol takes, or leaves the sink alone.
THEOREM KeepsContract == Spec => KeepsSinkContract
<1>1. Init => Sink!SinkInit
  <2> SUFFICES ASSUME Init PROVE Sink!SinkInit
    OBVIOUS
  <2>1. files = EmptyMap /\ writers = EmptyMap /\ delivered = <<>> /\ pc = "start"
    BY DEF Init, StorageInit
  <2>2. /\ DOMAIN files = {} /\ OpenFiles = {} /\ 1 .. Len(delivered) = {} /\ Running
    BY <2>1 DEF EmptyMap, OpenFiles, Running, Alive
  <2>3. QED
    BY <2>2 DEF Sink!SinkInit, ReadableRows
<1>2. ASSUME IndInv, KeepInv, UNCHANGED vars
      PROVE  UNCHANGED Sink!sinkVars
  BY <1>2 DEF Sink!sinkVars, Running, Alive, ReadableRows, OpenFiles, RowsOf, vars,
     storageVars, historyVars
<1>3. IndInv /\ KeepInv /\ [Next]_vars => [Sink!SinkNext]_Sink!sinkVars
  BY <1>2, StepKinds, QuietSink, ClosingSink, WriteSink, WriteFailsSink, EndingSink
<1>4. QED
  BY <1>1, <1>3, Invariance, KeepInvariance, PTL
  DEF Spec, KeepsSinkContract, Sink!SinkSpec

-----------------------------------------------------------------------------
(* The metrics agree with the logs and with the rows *)

\* The runtime is in place while run() is in its loop, and at no other time.
LEMMA RuntimeStep ==
  ASSUME IndInv, CountInv, Next
  PROVE  RuntimeFollowsRun'
<1> USE DEF CountInv, RuntimeFollowsRun, Running, Alive
<1>1. CASE Connecting
  BY <1>1 DEF Connecting, StartRejected, Start, ConnectRejected, ConnectOk,
     ConnectFails, SubscribeOk, SubscribeFails, BackoffElapsed, ReturnError,
     SleepBeforeReconnecting, metricsVars
<1>2. CASE Selecting
  BY <1>2 DEF Selecting, Listen, ListenFails, Receive, StreamEnds, Interrupted,
     InterruptedCloseFails, ReturnError, SleepBeforeReconnecting, StopMetrics,
     metricsVars
<1>3. CASE Processing
  BY <1>3 DEF Processing, MissingMetadata, Validate, FirstTarget, NoRotation,
     Rotate, RotateFails, DecodeIgnored, DecodeFails, DecodeEvent, Write,
     WriteFails, ReturnError, StopMetrics, metricsVars
<1>4. CASE Return \/ Crash \/ SigintKills
  BY <1>4 DEF Return, Crash, SigintKills, Die
<1>5. CASE SigintSeen \/ SigintLost \/ Ended
  BY <1>5 DEF SigintSeen, SigintLost, Signalled, Ended, vars, metricsVars,
     historyVars, storageVars
<1>6. CASE Restart
  BY <1>6 DEF Restart, StorageReopen, LaterMillisecond
<1>7. QED
  BY <1>1, <1>2, <1>3, <1>4, <1>5, <1>6 DEF Next, Environment

\* The gauge is set and cleared with the stream.
LEMMA GaugeStep ==
  ASSUME IndInv, CountInv, Next
  PROVE  GaugeFollowsStream'
<1> USE DEF CountInv, GaugeFollowsStream, Streaming, InHand, Observe
<1>0. /\ metrics \in MetricsType
      /\ Running => runtime \in {"off", "on"}
  BY DEF IndInv, TypeOK, RunTypeOK, RuntimeFollowsRun
<1>1. CASE Connecting
  <2>1. CASE Start \/ StartRejected
    BY <2>1 DEF Start, StartRejected, ReturnError, RuntimeFollowsRun, RegisteredMetrics
  <2>2. CASE SubscribeOk
    BY <1>0, <2>2 DEF SubscribeOk, MetricsType, Running, Alive
  <2>3. CASE ~Start /\ ~StartRejected /\ ~SubscribeOk
    BY <1>0, <1>1, <2>3 DEF Connecting, ConnectRejected, ConnectOk, ConnectFails,
       SubscribeFails, BackoffElapsed, ReturnError, SleepBeforeReconnecting,
       metricsVars, Running, Alive
  <2>4. QED
    BY <2>1, <2>2, <2>3
<1>2. CASE Selecting
  <2>1. CASE StreamEnds
    BY <1>0, <2>1 DEF StreamEnds, SleepBeforeReconnecting, MetricsType, Running, Alive
  <2>2. CASE Interrupted
    BY <1>0, <2>2 DEF Interrupted, StopMetrics, MetricsType, Running, Alive
  <2>3. CASE ~StreamEnds /\ ~Interrupted
    BY <1>0, <1>2, <2>3 DEF Selecting, Listen, ListenFails, Receive,
       InterruptedCloseFails, ReturnError, metricsVars, Running, Alive
  <2>4. QED
    BY <2>1, <2>2, <2>3
<1>3. CASE Processing
  <2>1. CASE MissingMetadata \/ DecodeFails \/ WriteFails
    BY <1>0, <2>1 DEF MissingMetadata, DecodeFails, WriteFails, StopMetrics,
       MetricsType, Running, Alive
  <2>2. CASE Validate \/ Rotate \/ DecodeEvent
    BY <1>0, <2>2 DEF Validate, Rotate, DecodeEvent, ObserveLog, ObserveDecodedType,
       MetricsType, Running, Alive
  <2>3. CASE FirstTarget \/ NoRotation \/ RotateFails \/ DecodeIgnored \/ Write
    BY <1>0, <2>3 DEF FirstTarget, NoRotation, RotateFails, DecodeIgnored, Write,
       ReturnError, metricsVars, Running, Alive
  <2>4. QED
    BY <1>3, <2>1, <2>2, <2>3 DEF Processing
<1>4. CASE Return \/ Environment \/ Ended
  BY <1>4 DEF Environment, Ended, Return, Crash, SigintKills, SigintSeen, SigintLost,
     Die, Signalled, Restart, vars, metricsVars
<1>5. QED
  BY <1>1, <1>2, <1>3, <1>4 DEF Next

\* Steps that count neither a log nor a rotation.
Uncounting == /\ ~Received /\ ~Validate /\ ~MissingMetadata /\ ~Rotate
              /\ ~Start /\ ~Restart

LEMMA UncountingFacts ==
  ASSUME IndInv, CountInv, Next, Uncounting
  PROVE  /\ metrics'.logs_total = metrics.logs_total
         /\ metrics'.missing_metadata_total = metrics.missing_metadata_total
         /\ metrics'.rotate_total = metrics.rotate_total
         /\ UNCHANGED <<file_set_id, delivered, run_start>>
         /\ runtime = "off" => runtime' = "off"
         /\ pc' \notin {"validate", "dead"} => pc \notin {"validate", "dead"}
         /\ pc' = "validate" => pc = "validate" /\ UNCHANGED runtime
<1> USE DEF Uncounting, Received
<1>0. metrics \in MetricsType
  BY DEF IndInv, TypeOK, RunTypeOK
<1>1. UNCHANGED <<delivered, run_start>>
  BY LogsAreFixed
<1>2. UNCHANGED file_set_id
  BY DEF Next, Connecting, Selecting, Processing, Environment, Ended,
     StartRejected, ConnectRejected, ConnectOk, ConnectFails, SubscribeOk,
     SubscribeFails, BackoffElapsed, Listen, ListenFails, StreamEnds, Interrupted,
     InterruptedCloseFails, FirstTarget, NoRotation, RotateFails, DecodeIgnored,
     DecodeFails, DecodeEvent, Write, WriteFails, Return, Crash, SigintKills,
     SigintSeen, SigintLost, Die, Signalled, vars, storageVars, StorageDrop,
     CloseWriters, CloseWritersFails, RotateWritersFails, WriteEvent, WriteEventFails
<1>3. /\ runtime = "off" => runtime' = "off"
      /\ pc' \notin {"validate", "dead"} => pc \notin {"validate", "dead"}
      /\ pc' = "validate" => pc = "validate" /\ UNCHANGED runtime
  BY DEF Next, Connecting, Selecting, Processing, Environment, Ended,
     StartRejected, ConnectRejected, ConnectOk, ConnectFails, SubscribeOk,
     SubscribeFails, BackoffElapsed, Listen, ListenFails, StreamEnds, Interrupted,
     InterruptedCloseFails, FirstTarget, NoRotation, RotateFails, DecodeIgnored,
     DecodeFails, DecodeEvent, Write, WriteFails, Return, Crash, SigintKills,
     SigintSeen, SigintLost, Die, Signalled, vars, metricsVars, ReturnError,
     StopMetrics, SleepBeforeReconnecting, Alive
<1>4. \/ UNCHANGED metrics
      \/ metrics' = [metrics EXCEPT !.ws_connected = 0]
      \/ metrics' = [metrics EXCEPT !.ws_connected = 1]
      \/ metrics' = [[metrics EXCEPT !.shutdown_total = @ + 1] EXCEPT !.ws_connected = 0]
      \/ metrics' = [[metrics EXCEPT !.decode_errors_total = @ + 1] EXCEPT !.ws_connected = 0]
      \/ metrics' = [[metrics EXCEPT !.write_errors_total = @ + 1] EXCEPT !.ws_connected = 0]
      \/ metrics' = ObserveDecodedType(metrics, log.topic0)
  BY DEF Next, Connecting, Selecting, Processing, Environment, Ended,
     StartRejected, ConnectRejected, ConnectOk, ConnectFails, SubscribeOk,
     SubscribeFails, BackoffElapsed, Listen, ListenFails, StreamEnds, Interrupted,
     InterruptedCloseFails, FirstTarget, NoRotation, RotateFails, DecodeIgnored,
     DecodeFails, DecodeEvent, Write, WriteFails, Return, Crash, SigintKills,
     SigintSeen, SigintLost, Die, Signalled, vars, metricsVars, Observe, StopMetrics
<1>5. /\ metrics'.logs_total = metrics.logs_total
      /\ metrics'.missing_metadata_total = metrics.missing_metadata_total
      /\ metrics'.rotate_total = metrics.rotate_total
  BY <1>0, <1>4 DEF MetricsType, ObserveDecodedType
<1>6. QED
  BY <1>1, <1>2, <1>3, <1>5

\* Each log is counted once, and so is each rotation.
LEMMA CounterStep ==
  ASSUME IndInv, CountInv, Next
  PROVE  LogCountersMatchDeliveries' /\ LogInHandIsUncounted'
<1> USE DEF LogCountersMatchDeliveries, LogInHandIsUncounted, Observe
<1>0. /\ metrics \in MetricsType /\ Len(delivered) \in Nat /\ run_start \in Nat
      /\ metrics.logs_total \in Nat /\ metrics.missing_metadata_total \in Nat
      /\ metrics.rotate_total \in Nat
      /\ Running => runtime \in {"off", "on"}
  BY DEF IndInv, TypeOK, RunTypeOK, CountInv, RuntimeFollowsRun, MetricsType
<1>1. CASE Received
  <2>1. /\ Len(delivered') = Len(delivered) + 1 /\ pc \in {"loop", "select"}
        /\ pc' = "validate" /\ UNCHANGED <<file_set_id, runtime, metrics, run_start>>
    BY <1>1, ReceivedFacts DEF storageVars, metricsVars
  <2>2. QED
    BY <1>0, <2>1 DEF CountInv
<1>2. CASE Validate
  <2>1. /\ pc = "validate" /\ pc' = "rotate" /\ Running
        /\ UNCHANGED <<file_set_id, runtime, delivered, run_start>>
        /\ runtime = "on" => metrics' = ObserveLog(metrics, log.block)
    BY <1>2 DEF Validate, storageVars, historyVars, Running, Alive
  <2>2. runtime = "on" => /\ metrics'.logs_total = metrics.logs_total + 1
                          /\ metrics'.missing_metadata_total = metrics.missing_metadata_total
                          /\ metrics'.rotate_total = metrics.rotate_total
    BY <1>0, <2>1 DEF ObserveLog, MetricsType
  <2>3. QED
    BY <1>0, <2>1, <2>2 DEF CountInv
<1>3. CASE MissingMetadata
  <2>1. /\ pc = "validate" /\ pc' = "stopping" /\ Running
        /\ UNCHANGED <<file_set_id, delivered, run_start>>
        /\ runtime # "on" => UNCHANGED runtime
        /\ runtime = "on" => metrics' = [[metrics EXCEPT !.missing_metadata_total = @ + 1]
                                           EXCEPT !.ws_connected = 0]
    BY <1>3 DEF MissingMetadata, StopMetrics, storageVars, historyVars, Running, Alive
  <2>2. runtime = "on" => /\ metrics'.logs_total = metrics.logs_total
                          /\ metrics'.missing_metadata_total = metrics.missing_metadata_total + 1
                          /\ metrics'.rotate_total = metrics.rotate_total
    BY <1>0, <2>1 DEF MetricsType
  <2>3. QED
    BY <1>0, <2>1, <2>2 DEF CountInv
<1>4. CASE Rotate
  <2>1. /\ pc = "rotate" /\ pc' = "decode" /\ Running
        /\ UNCHANGED <<runtime, delivered, run_start>>
        /\ file_set_id' = file_set_id + 1
        /\ runtime = "on" => metrics' = [metrics EXCEPT !.rotate_total = @ + 1]
    BY <1>4, RotateFacts DEF Rotate, historyVars, Running, Alive
  <2>2. runtime = "on" => /\ metrics'.logs_total = metrics.logs_total
                          /\ metrics'.missing_metadata_total = metrics.missing_metadata_total
                          /\ metrics'.rotate_total = metrics.rotate_total + 1
    BY <1>0, <2>1 DEF MetricsType
  <2>3. QED
    BY <1>0, <2>1, <2>2 DEF CountInv
<1>5. CASE Start \/ Restart
  BY <1>0, <1>5 DEF Start, Restart, CountInv, RuntimeFollowsRun, RegisteredMetrics,
     storageVars, historyVars
<1>6. CASE Uncounting
  BY <1>6, UncountingFacts DEF CountInv
<1>7. QED
  BY <1>1, <1>2, <1>3, <1>4, <1>5, <1>6 DEF Uncounting

\* The rows of a type that this process wrote can be counted.
LEMMA TypeRowsAreFinite ==
  ASSUME IndInv, NEW t
  PROVE  IsFiniteSet(RowsOfType(t)) /\ Cardinality(RowsOfType(t)) \in Nat
<1>1. run_start + 1 \in Int /\ Len(delivered) \in Int
  BY DEF IndInv, TypeOK, RunTypeOK
<1>2. IsFiniteSet((run_start + 1) .. Len(delivered))
  BY <1>1, FS_Interval
<1>3. RowsOfType(t) \in SUBSET ((run_start + 1) .. Len(delivered))
  BY DEF RowsOfType
<1>4. IsFiniteSet(RowsOfType(t))
  BY <1>2, <1>3, FS_Subset
<1>5. QED
  BY <1>4, FS_CardinalityType

\* Only Write changes them: it adds the log in hand to those of its type.
LEMMA TypeRowsStep ==
  ASSUME IndInv, KeepInv, Next, ~Restart, NEW t \in EventTypes
  PROVE  /\ ~(Write /\ t = log.topic0) => RowsOfType(t)' = RowsOfType(t)
         /\ Write /\ t = log.topic0 =>
              Cardinality(RowsOfType(t)') = Cardinality(RowsOfType(t)) + 1
<1> USE DEF RowsOf
<1>0. /\ Len(delivered) \in Nat /\ run_start \in Nat
      /\ \A n \in DOMAIN files : RowsIn(files[n]) \subseteq 1 .. Len(delivered)
  BY DEF IndInv, TypeOK, RunTypeOK, RowsAreDelivered, RowsOf
<1>1. CASE ~Write
  <2>1. UNCHANGED run_start
    BY ReceivedFacts, LogsAreFixed
  <2>2. ASSUME NEW i PROVE (\E n \in DOMAIN files' : i \in RowsIn(files'[n]))
                             <=> \E n \in DOMAIN files : i \in RowsIn(files[n])
    BY <1>1, RowsAreFixed
  <2>3. ASSUME NEW i, \E n \in DOMAIN files : i \in RowsIn(files[n])
        PROVE  i \in 1 .. Len(delivered)
    BY <1>0, <2>3
  <2>4. /\ Len(delivered) <= Len(delivered') /\ Len(delivered') \in Nat
        /\ \A i \in 1 .. Len(delivered) : delivered'[i] = delivered[i]
    BY SameLogs
  <2>5. ASSUME NEW i
        PROVE  (i \in RowsOfType(t))' <=> i \in RowsOfType(t)
    <3>1. CASE i \in 1 .. Len(delivered)
      BY <1>0, <2>1, <2>2, <2>4, <3>1 DEF RowsOfType
    <3>2. CASE i \notin 1 .. Len(delivered)
      BY <2>2, <2>3, <3>2 DEF RowsOfType
    <3>3. QED
      BY <3>1, <3>2
  <2>6. RowsOfType(t)' = RowsOfType(t)
    BY <2>5 DEF RowsOfType
  <2>7. QED
    BY <1>1, <2>6
<1>2. CASE Write
  <2>1. UNCHANGED <<run_start, delivered>> /\ ~Received
    BY <1>2 DEF Write, historyVars, Received, Receive
  <2>2. PICK u \in EventTypes, n \in FileNames :
          /\ u = log.topic0
          /\ DOMAIN files' = DOMAIN files \union {n}
          /\ \/ /\ n \in DOMAIN files
                /\ RowsIn(files'[n]) = RowsIn(files[n]) \union {Len(delivered)}
             \/ /\ n \notin DOMAIN files
                /\ RowsIn(files'[n]) = {Len(delivered)}
          /\ \A m \in DOMAIN files : m # n => files'[m] = files[m]
    BY <1>2, WriteGrows
  <2>3. PICK last : last = Len(delivered)
    OBVIOUS
  <2>4. ASSUME NEW i PROVE (\E m \in DOMAIN files' : i \in RowsIn(files'[m]))
                             <=> \/ i = last
                                 \/ \E m \in DOMAIN files : i \in RowsIn(files[m])
    BY <2>2, <2>3
  <2>5. /\ last \in (run_start + 1) .. Len(delivered)
        /\ ~\E m \in DOMAIN files : last \in RowsIn(files[m])
    BY <1>0, <1>2, <2>3
    DEF Write, InHand, KeepInv, LogInHandIsNoRow, IndInv, LogInHandIsBelowTarget
  <2>6. CASE t # log.topic0
    <3>1. RowsOfType(t)' = RowsOfType(t)
      BY <2>1, <2>3, <2>4, <2>6 DEF log, RowsOfType
    <3>2. QED
      BY <2>6, <3>1
  <2>7. CASE t = log.topic0
    <3>1. RowsOfType(t)' = RowsOfType(t) \union {last} /\ last \notin RowsOfType(t)
      BY <2>1, <2>3, <2>4, <2>5, <2>7 DEF log, RowsOfType
    <3>2. Cardinality(RowsOfType(t) \union {last}) = Cardinality(RowsOfType(t)) + 1
      <4>1. PICK S : S = RowsOfType(t)
        OBVIOUS
      <4>2. IsFiniteSet(S) /\ last \notin S
        BY <3>1, <4>1, TypeRowsAreFinite
      <4>3. QED
        BY <4>1, <4>2, FS_AddElement
    <3>3. QED
      BY <1>2, <2>7, <3>1, <3>2
  <2>8. QED
    BY <2>6, <2>7
<1>3. QED
  BY <1>1, <1>2

\* What the steps that neither count an event nor write it do to the counters.
LEMMA TypeCounterFacts ==
  ASSUME IndInv, CountInv, Next,
         ~Received, ~Start, ~Restart, ~DecodeEvent, ~Write
  PROVE  /\ metrics'.logs_by_type_total = metrics.logs_by_type_total
         /\ ~(WriteFails /\ runtime = "on") =>
              metrics'.write_errors_total = metrics.write_errors_total
         /\ WriteFails /\ runtime = "on" =>
              metrics'.write_errors_total = metrics.write_errors_total + 1
         /\ runtime = "off" => runtime' = "off"
         /\ runtime' = "on" => /\ runtime = "on" /\ ~WriteFails
                               /\ pc' = "write" <=> pc = "write"
         /\ pc = "dead" => pc' = "dead"
         /\ pc = "write" => pc' \in {"write", "dead"} \/ WriteFails
         /\ UNCHANGED <<delivered, run_start>>
<1> USE DEF Received
<1>0. metrics \in MetricsType
  BY DEF IndInv, TypeOK, RunTypeOK
<1>1. UNCHANGED <<delivered, run_start>>
  BY LogsAreFixed
<1>2. CASE WriteFails
  BY <1>0, <1>1, <1>2 DEF WriteFails, StopMetrics, Observe, MetricsType
<1>3. CASE ~WriteFails
  <2>1. /\ runtime = "off" => runtime' = "off"
        /\ runtime' = "on" => /\ runtime = "on"
                              /\ pc' = "write" <=> pc = "write"
        /\ pc = "dead" => pc' = "dead"
        /\ pc = "write" => pc' \in {"write", "dead"}
    BY <1>3 DEF Next, Connecting, Selecting, Processing, Environment, Ended,
       StartRejected, ConnectRejected, ConnectOk, ConnectFails, SubscribeOk,
       SubscribeFails, BackoffElapsed, Listen, ListenFails, StreamEnds, Interrupted,
       InterruptedCloseFails, MissingMetadata, Validate, Rotate,
       FirstTarget, NoRotation, RotateFails, DecodeIgnored,
       DecodeFails, Return, Crash, SigintKills,
       SigintSeen, SigintLost, Die, Signalled, vars, metricsVars, ReturnError,
       StopMetrics, SleepBeforeReconnecting, Alive
  <2>2. \/ UNCHANGED metrics
        \/ metrics' = [metrics EXCEPT !.ws_connected = 0]
        \/ metrics' = [metrics EXCEPT !.ws_connected = 1]
        \/ metrics' = [metrics EXCEPT !.rotate_total = @ + 1]
        \/ metrics' = ObserveLog(metrics, log.block)
        \/ metrics' = [[metrics EXCEPT !.shutdown_total = @ + 1] EXCEPT !.ws_connected = 0]
        \/ metrics' = [[metrics EXCEPT !.decode_errors_total = @ + 1]
                         EXCEPT !.ws_connected = 0]
        \/ metrics' = [[metrics EXCEPT !.missing_metadata_total = @ + 1]
                         EXCEPT !.ws_connected = 0]
    BY <1>3 DEF Next, Connecting, Selecting, Processing, Environment, Ended,
       StartRejected, ConnectRejected, ConnectOk, ConnectFails, SubscribeOk,
       SubscribeFails, BackoffElapsed, Listen, ListenFails, StreamEnds, Interrupted,
       InterruptedCloseFails, MissingMetadata, Validate, Rotate, FirstTarget,
       NoRotation, RotateFails, DecodeIgnored, DecodeFails, Return, Crash,
       SigintKills, SigintSeen, SigintLost, Die, Signalled, vars, metricsVars,
       Observe, StopMetrics
  <2>3. /\ metrics'.logs_by_type_total = metrics.logs_by_type_total
        /\ metrics'.write_errors_total = metrics.write_errors_total
    BY <1>0, <2>2 DEF MetricsType, ObserveLog
  <2>4. QED
    BY <1>1, <1>3, <2>1, <2>3
<1>4. QED
  BY <1>2, <1>3

\* An event is counted before it is written, and the counter of its type is one
\* ahead of the rows until it is.
LEMMA CountedStep ==
  ASSUME IndInv, KeepInv, CountInv, Next
  PROVE  CountedIsUnwritten'
<1> SUFFICES ASSUME runtime' # "off", NEW t \in EventTypes
             PROVE  LET ahead == metrics'.logs_by_type_total[t]
                                   - Cardinality(RowsOfType(t)')
                    IN /\ ahead \in {0, 1}
                       /\ runtime' = "on" => metrics'.write_errors_total = 0
                       /\ runtime' = "on" => (ahead = 1 <=> pc' = "write" /\ t = log'.topic0)
                       /\ ahead = 1 =>
                            /\ Len(delivered') > run_start' /\ t = log'.topic0
                            /\ \/ pc' \in {"write", "dead"}
                               \/ metrics'.write_errors_total = 1
  BY DEF CountedIsUnwritten
<1>0. /\ metrics \in MetricsType /\ metrics.logs_by_type_total[t] \in Nat
      /\ metrics.write_errors_total \in Nat
      /\ Cardinality(RowsOfType(t)) \in Nat
      /\ Running => runtime \in {"off", "on"}
      /\ Len(delivered) \in Nat /\ run_start \in Nat
  BY TypeRowsAreFinite
  DEF IndInv, TypeOK, RunTypeOK, MetricsType, CountInv, RuntimeFollowsRun
<1>1. PICK c, r : c = metrics.logs_by_type_total[t] /\ r = Cardinality(RowsOfType(t))
  OBVIOUS
<1>2. runtime # "off" =>
        /\ c - r \in {0, 1}
        /\ runtime = "on" => metrics.write_errors_total = 0
        /\ runtime = "on" => (c - r = 1 <=> pc = "write" /\ t = log.topic0)
        /\ c - r = 1 =>
             /\ Len(delivered) > run_start /\ t = log.topic0
             /\ pc \in {"write", "dead"} \/ metrics.write_errors_total = 1
  BY <1>1 DEF CountInv, CountedIsUnwritten
<1>3. ~Restart
  BY DEF Restart
<1>4. PICK d, s : d = metrics'.logs_by_type_total[t] /\ s = Cardinality(RowsOfType(t)')
  OBVIOUS
<1>5. /\ ~(Write /\ t = log.topic0) => s = r
      /\ Write /\ t = log.topic0 => s = r + 1
  BY <1>1, <1>3, <1>4, TypeRowsStep
<1>6. c \in Nat /\ r \in Nat
  BY <1>0, <1>1
<1> SUFFICES /\ d - s \in {0, 1}
             /\ runtime' = "on" => metrics'.write_errors_total = 0
             /\ runtime' = "on" => (d - s = 1 <=> pc' = "write" /\ t = log'.topic0)
             /\ d - s = 1 =>
                  /\ Len(delivered') > run_start' /\ t = log'.topic0
                  /\ pc' \in {"write", "dead"} \/ metrics'.write_errors_total = 1
  BY <1>4
<1>7. CASE Received
  <2>1. /\ UNCHANGED <<runtime, metrics>> /\ pc' = "validate" /\ pc # "write" /\ Running
    BY <1>7, ReceivedFacts DEF metricsVars, Running, Alive
  <2>2. ~Write
    BY <2>1 DEF Write
  <2>3. d = c /\ s = r /\ runtime = "on"
    BY <1>0, <1>1, <1>4, <1>5, <2>1, <2>2
  <2>4. d - s = 0
    BY <1>2, <1>6, <2>1, <2>3
  <2>5. QED
    BY <1>2, <2>1, <2>3, <2>4
<1>8. CASE Start
  <2>1. /\ metrics' = RegisteredMetrics /\ pc' = "connect" /\ pc = "start"
        /\ Len(delivered) = run_start
    BY <1>8 DEF Start, CountInv, RuntimeFollowsRun
  <2>2. RowsOfType(t) = {}
    BY <1>0, <2>1 DEF RowsOfType
  <2>3. r = 0
    BY <1>1, <2>2, FS_EmptySet
  <2>4. d = 0 /\ metrics'.write_errors_total = 0
    BY <1>4, <2>1 DEF RegisteredMetrics
  <2>5. s = r
    BY <1>5, <2>1 DEF Write
  <2>6. d - s = 0
    BY <2>3, <2>4, <2>5
  <2>7. QED
    BY <2>1, <2>4, <2>6
<1>9. CASE DecodeEvent
  <2>1. /\ pc = "decode" /\ pc' = "write" /\ UNCHANGED <<runtime, delivered, run_start>>
        /\ runtime = "on"
        /\ metrics' = ObserveDecodedType(metrics, log.topic0)
    BY <1>0, <1>9 DEF DecodeEvent, historyVars, Observe, Running, Alive
  <2>2. /\ metrics'.write_errors_total = metrics.write_errors_total
        /\ d = IF t = log.topic0 THEN c + 1 ELSE c
    BY <1>0, <1>1, <1>4, <2>1 DEF ObserveDecodedType, MetricsType
  <2>3. s = r
    BY <1>5, <2>1 DEF Write
  <2>4. c - r = 0
    BY <1>2, <1>6, <2>1
  <2>5. log' = log /\ Len(delivered) > run_start
    BY <2>1 DEF log, IndInv, LogInHandIsBelowTarget, InHand
  <2>6. QED
    BY <1>2, <1>6, <2>1, <2>2, <2>3, <2>4, <2>5
<1>10. CASE Write
  <2>1. /\ pc = "write" /\ pc' = "loop" /\ UNCHANGED <<runtime, metrics>> /\ runtime = "on"
    BY <1>0, <1>10 DEF Write, metricsVars, Running, Alive
  <2>2. d = c
    BY <1>1, <1>4, <2>1
  <2>3. CASE t = log.topic0
    BY <1>2, <1>5, <1>6, <1>10, <2>1, <2>2, <2>3
  <2>4. CASE t # log.topic0
    BY <1>2, <1>5, <1>6, <1>10, <2>1, <2>2, <2>4
  <2>5. QED
    BY <2>3, <2>4
<1>11. CASE ~Received /\ ~Start /\ ~DecodeEvent /\ ~Write
  <2>1. /\ metrics'.logs_by_type_total = metrics.logs_by_type_total
        /\ ~(WriteFails /\ runtime = "on") =>
             metrics'.write_errors_total = metrics.write_errors_total
        /\ WriteFails /\ runtime = "on" =>
             metrics'.write_errors_total = metrics.write_errors_total + 1
        /\ runtime = "off" => runtime' = "off"
        /\ runtime' = "on" => /\ runtime = "on" /\ ~WriteFails
                              /\ pc' = "write" <=> pc = "write"
        /\ pc = "dead" => pc' = "dead"
        /\ pc = "write" => pc' \in {"write", "dead"} \/ WriteFails
        /\ UNCHANGED <<delivered, run_start>>
    BY <1>3, <1>11, TypeCounterFacts
  <2>2. d = c /\ s = r /\ log' = log
    BY <1>1, <1>4, <1>5, <1>11, <2>1 DEF log
  <2>3. WriteFails => runtime = "on"
    BY <1>0, <2>1 DEF WriteFails, Running, Alive
  <2>4. runtime # "off"
    BY <2>1
  <2>5. QED
    BY <1>2, <2>1, <2>2, <2>3, <2>4
<1>12. QED
  BY <1>3, <1>7, <1>8, <1>9, <1>10, <1>11

-----------------------------------------------------------------------------
LEMMA InitCountInv == Init => CountInv
BY DEF Init, CountInv, GaugeFollowsStream, LogCountersMatchDeliveries,
       RuntimeFollowsRun, LogInHandIsUncounted, CountedIsUnwritten, Running, Alive,
       StorageInit

LEMMA NextCountInv == IndInv /\ KeepInv /\ CountInv /\ [Next]_vars => CountInv'
<1>1. ASSUME IndInv, KeepInv, CountInv, Next
      PROVE  CountInv'
  BY <1>1, RuntimeStep, GaugeStep, CounterStep, CountedStep DEF CountInv
<1>2. ASSUME CountInv, UNCHANGED vars
      PROVE  CountInv'
  BY <1>2 DEF CountInv, GaugeFollowsStream, LogCountersMatchDeliveries,
     RuntimeFollowsRun, LogInHandIsUncounted, CountedIsUnwritten, RowsOfType, RowsOf,
     Running, Alive, Streaming, InHand, log, vars, storageVars, metricsVars, historyVars
<1>3. QED
  BY <1>1, <1>2

LEMMA CountInvariance == Spec => []CountInv
<1>1. QED
  BY InitCountInv, NextCountInv, Invariance, KeepInvariance, PTL DEF Spec

\* polymarket_frontfill_ws_connected is 1 exactly while run() has a stream, through
\* every disconnection, and 0 once the metrics runtime is being shut down.
THEOREM GaugeCorrect == Spec => []GaugeFollowsStream
<1>1. CountInv => GaugeFollowsStream
  BY DEF CountInv
<1>2. QED
  BY <1>1, CountInvariance, PTL

\* Every log that was taken from a stream is counted once, as a log or as one
\* without metadata, and every rotation once.
THEOREM LogCountersCorrect == Spec => []LogCountersMatchDeliveries
<1>1. CountInv => LogCountersMatchDeliveries
  BY DEF CountInv
<1>2. QED
  BY <1>1, CountInvariance, PTL

\* The counters by type are the numbers of rows that this process has in its files,
\* but for the one event that was counted and is not, or could not be, written.
THEOREM TypeCountersCorrect == Spec => []TypeCountersMatchRows
<1>1. IndInv /\ CountInv => TypeCountersMatchRows
  <2> SUFFICES ASSUME IndInv, CountInv, runtime # "off"
               PROVE  TypeCountersMatchRows
    BY DEF TypeCountersMatchRows
  <2>1. ASSUME NEW t \in EventTypes,
               metrics.logs_by_type_total[t] # Cardinality(RowsOfType(t))
        PROVE  /\ metrics.logs_by_type_total[t] = Cardinality(RowsOfType(t)) + 1
               /\ t = log.topic0
               /\ pc \in {"write", "dead"} \/ metrics.write_errors_total = 1
    <3>1. PICK c, r : c = metrics.logs_by_type_total[t] /\ r = Cardinality(RowsOfType(t))
      OBVIOUS
    <3>2. c \in Nat /\ r \in Nat
      BY <3>1, TypeRowsAreFinite DEF IndInv, TypeOK, RunTypeOK, MetricsType
    <3>3. /\ c - r \in {0, 1}
          /\ c - r = 1 =>
               /\ t = log.topic0
               /\ pc \in {"write", "dead"} \/ metrics.write_errors_total = 1
      BY <3>1 DEF CountInv, CountedIsUnwritten
    <3>4. c = r + 1
      BY <2>1, <3>1, <3>2, <3>3
    <3>5. QED
      BY <3>1, <3>2, <3>3, <3>4
  <2>2. QED
    BY <2>1 DEF TypeCountersMatchRows
<1>2. QED
  BY <1>1, Invariance, CountInvariance, PTL

-----------------------------------------------------------------------------
(* Reconnecting *)

\* A step into the sleep before a reconnection sets the delay; any other leaves it,
\* unless it starts the attempts again.
LEMMA RetrySteps ==
  ASSUME Next
  PROVE  \/ SleepBeforeReconnecting /\ pc # "backoff"
         \/ reconnect_attempt' = 0 /\ delay' = 0
         \/ UNCHANGED retryVars /\ (pc' = "backoff" => pc = "backoff")
BY DEF Next, Connecting, Selecting, Processing, Environment, Ended, retryVars,
   StartRejected, Start, ConnectRejected, ConnectOk, ConnectFails, SubscribeOk,
   SubscribeFails, BackoffElapsed, Listen, ListenFails, Receive, StreamEnds,
   Interrupted, InterruptedCloseFails, MissingMetadata, Validate, Rotate,
   FirstTarget, NoRotation, RotateFails, DecodeIgnored, DecodeFails, DecodeEvent,
   Write, WriteFails, Return, Crash, SigintKills, SigintSeen, SigintLost, Die,
   Signalled, Restart, ReturnError, StopMetrics, vars

\* The sleep that follows a given one, when attempts saturate no earlier than the
\* exponent does.
LEMMA SleepDoubles ==
  ASSUME MaxU32 >= 5, IndInv, DelayFollowsAttempts, SleepBeforeReconnecting
  PROVE  /\ delay' = (IF delay = 0 THEN 1 ELSE IF delay >= 16 THEN 32 ELSE 2 * delay)
         /\ DelayFollowsAttempts'
<1>1. reconnect_attempt \in 0 .. MaxU32 /\ MaxU32 \in Nat
  BY MaxU32Assumption DEF IndInv, TypeOK, RunTypeOK
<1>2. PICK a : a = reconnect_attempt
  OBVIOUS
<1>3. CASE a \in 0 .. 5
  <2>1. a = 0 \/ a = 1 \/ a = 2 \/ a = 3 \/ a = 4 \/ a = 5
    BY <1>3
  <2>2. QED
    BY <1>1, <1>2, <2>1
    DEF DelayFollowsAttempts, SleepBeforeReconnecting, ReconnectDelay
<1>4. CASE a \notin 0 .. 5
  BY <1>1, <1>2, <1>4
  DEF DelayFollowsAttempts, SleepBeforeReconnecting, ReconnectDelay
<1>5. QED
  BY <1>3, <1>4

\* However many attempts fail, each sleep is twice the one before, from 1 second up
\* to 32, and the first one after a subscription is 1 second: the shift never
\* overflows and the counter never wraps.  u32::MAX is more than 5.
THEOREM BackoffCorrect ==
  ASSUME MaxU32 >= 5
  PROVE  Spec => BackoffDoubles
<1>1. Init => DelayFollowsAttempts
  BY DEF Init, DelayFollowsAttempts
<1>2. IndInv /\ DelayFollowsAttempts /\ [Next]_vars => DelayFollowsAttempts'
  <2>1. UNCHANGED retryVars /\ DelayFollowsAttempts => DelayFollowsAttempts'
    BY DEF DelayFollowsAttempts, retryVars
  <2>2. reconnect_attempt' = 0 /\ delay' = 0 => DelayFollowsAttempts'
    BY DEF DelayFollowsAttempts
  <2>3. UNCHANGED vars => UNCHANGED retryVars
    BY DEF vars
  <2>4. QED
    BY <2>1, <2>2, <2>3, RetrySteps, SleepDoubles
<1>3. IndInv /\ DelayFollowsAttempts /\ [Next]_vars =>
        [delay' # 0 /\ pc' = "backoff" /\ pc # "backoff" =>
           delay' = (IF delay = 0 THEN 1 ELSE IF delay >= 16 THEN 32 ELSE 2 * delay)]_vars
  BY RetrySteps, SleepDoubles
<1>4. QED
  BY <1>1, <1>2, <1>3, Invariance, PTL DEF Spec, BackoffDoubles
=============================================================================
