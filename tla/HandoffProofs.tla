---------------------------- MODULE HandoffProofs ----------------------------
(***************************************************************************)
(* Proofs, for every chain, boundary and number of subscriptions and       *)
(* processes, that the handoff from backfill to frontfill with a start     *)
(* block loses no log that the stream did not skip, and that a log is in   *)
(* the files of frontfill more than once only if it was replayed.          *)
(***************************************************************************)
EXTENDS Handoff, FrontfillRowsProofs, WellFoundedInduction

-----------------------------------------------------------------------------
(* The chain *)

\* Every nonempty set of numbers has a least one.
LEMMA LeastNumber ==
  ASSUME NEW T, T \subseteq Nat, T # {}
  PROVE  \E x \in T : \A y \in T : x <= y
<1>1. PICK R : R = OpToRel(<, Nat)
  OBVIOUS
<1>2. IsWellFoundedOn(R, Nat)
  BY <1>1, NatLessThanWellFounded
<1>3. PICK x \in T : \A y \in T : ~ (<<y, x>> \in R)
  BY <1>2, WFMin
<1>4. ASSUME NEW y \in T, y < x PROVE <<y, x>> \in R
  BY <1>1, <1>4 DEF OpToRel
<1>5. x \in Nat /\ \A y \in T : y \in Nat
  OBVIOUS
<1>6. \A y \in T : ~ (y < x)
  BY <1>3, <1>4
<1>7. \A y \in T : x <= y
  BY <1>5, <1>6
<1> QED BY <1>7

\* The length of the chain, and what is at its places.
LEMMA ChainFacts ==
  \E n \in Nat : /\ n = Len(Chain) /\ DOMAIN Chain = 1 .. n
                 /\ \A i \in 1 .. n : /\ Chain[i] \in Logs /\ Chain[i].block \in Nat
                                       /\ Chain[i].index \in Nat
<1>1. PICK n \in Nat : n = Len(Chain) /\ DOMAIN Chain = 1 .. n
  BY ChainAssumption
<1>2. \A i \in 1 .. n : Chain[i] \in Logs
  BY <1>1, ChainAssumption
<1>3. \A l \in Logs : l.block \in Nat /\ l.index \in Nat
  BY LogsAssumption, MaxU64Assumption DEF LogType
<1> QED BY <1>1, <1>2, <1>3

\* A log is at one place of the chain only: its block and its index say which.
LEMMA PlacesDiffer ==
  ASSUME NEW i \in DOMAIN Chain, NEW j \in DOMAIN Chain, i < j
  PROVE  Chain[i].block <= Chain[j].block /\ Chain[i] # Chain[j]
<1>1. /\ Chain[i].block \in Nat /\ Chain[i].index \in Nat
      /\ Chain[j].block \in Nat /\ Chain[j].index \in Nat
  BY ChainFacts
<1>2. \/ Chain[i].block < Chain[j].block
      \/ Chain[i].block = Chain[j].block /\ Chain[i].index < Chain[j].index
  BY ChainAssumption
<1> QED BY <1>1, <1>2

\* Before counts the places before a block, which come first.
LEMMA BeforeFacts ==
  ASSUME NEW b \in Nat
  PROVE  /\ Before(b) \in 0 .. Len(Chain)
         /\ \A i \in 1 .. Len(Chain) : Chain[i].block < b <=> i <= Before(b)
<1>1. PICK n \in Nat : /\ n = Len(Chain) /\ DOMAIN Chain = 1 .. n
                       /\ \A i \in 1 .. n : Chain[i].block \in Nat
  BY ChainFacts
<1>2. \A i, j \in 1 .. n : i <= j => Chain[i].block <= Chain[j].block
  <2> SUFFICES ASSUME NEW i \in 1 .. n, NEW j \in 1 .. n, i <= j
               PROVE  Chain[i].block <= Chain[j].block
    OBVIOUS
  <2>1. CASE i = j
    BY <1>1, <2>1
  <2>2. CASE i # j
    <3>1. i < j
      BY <2>2
    <3> QED BY <1>1, <3>1, PlacesDiffer
  <2> QED BY <2>1, <2>2
<1>3. PICK m \in 0 .. n : \A i \in 1 .. n : Chain[i].block < b <=> i <= m
  <2>1. PICK late : late = {i \in 1 .. n : Chain[i].block >= b}
    OBVIOUS
  <2>2. CASE late = {}
    <3>1. \A i \in 1 .. n : Chain[i].block < b
      BY <1>1, <2>1, <2>2
    <3>2. n \in 0 .. n /\ \A i \in 1 .. n : i <= n
      OBVIOUS
    <3> QED BY <3>1, <3>2
  <2>3. CASE late # {}
    <3>1. late \subseteq Nat
      BY <2>1
    <3>2. PICK x \in late : \A y \in late : x <= y
      BY <2>3, <3>1, LeastNumber
    <3>3. x \in 1 .. n /\ Chain[x].block >= b
      BY <2>1, <3>2
    <3>4. PICK m \in 0 .. n : m = x - 1
      BY <3>3
    <3>5. ASSUME NEW i \in 1 .. n, i <= m PROVE Chain[i].block < b
      <4>1. i \notin late
        BY <3>2, <3>3, <3>4, <3>5
      <4> QED BY <1>1, <2>1, <4>1
    <3>6. ASSUME NEW i \in 1 .. n, ~(i <= m) PROVE ~(Chain[i].block < b)
      <4>1. x <= i
        BY <3>3, <3>4, <3>6
      <4>2. PICK a \in Nat : a = Chain[x].block
        BY <1>1, <3>3
      <4>3. PICK c \in Nat : c = Chain[i].block
        BY <1>1
      <4>4. a <= c
        BY <1>2, <3>3, <4>1, <4>2, <4>3
      <4> QED BY <3>3, <4>2, <4>3, <4>4
    <3> QED BY <3>5, <3>6
  <2> QED BY <2>2, <2>3
<1>4. {i \in DOMAIN Chain : Chain[i].block < b} = 1 .. m
  BY <1>1, <1>3
<1>5. Cardinality(1 .. m) = m
  <2>1. Cardinality(1 .. m) = IF 1 > m THEN 0 ELSE m - 1 + 1
    BY FS_Interval
  <2> QED BY <2>1
<1>6. Before(b) = m
  BY <1>4, <1>5 DEF Before
<1> QED BY <1>1, <1>3, <1>6

LEMMA MinedFacts ==
  ASSUME HandoffTypeOK
  PROVE  /\ Mined \in 0 .. Len(Chain) /\ Len(Chain) \in Nat
         /\ \A h \in Nat : head <= h => Mined <= Before(h + 1)
<1>1. head \in Nat /\ head + 1 \in Nat
  BY DEF HandoffTypeOK
<1>2. PICK n \in Nat : n = Len(Chain) /\ \A i \in 1 .. n : Chain[i].block \in Nat
  BY ChainFacts
<1>3. PICK m \in 0 .. n : m = Mined /\ \A i \in 1 .. n : Chain[i].block < head + 1 <=> i <= m
  BY <1>1, <1>2, BeforeFacts DEF Mined
<1>4. ASSUME NEW h \in Nat, head <= h PROVE m <= Before(h + 1)
  <2>1. h + 1 \in Nat
    OBVIOUS
  <2>2. PICK k \in 0 .. n : k = Before(h + 1) /\ \A i \in 1 .. n : Chain[i].block < h + 1 <=> i <= k
    BY <1>2, <2>1, BeforeFacts
  <2>3. CASE m = 0
    BY <2>2, <2>3
  <2>4. CASE m # 0
    <3>1. m \in 1 .. n
      BY <2>4
    <3>2. PICK a \in Nat : a = Chain[m].block
      BY <1>2, <3>1
    <3>3. a < head + 1
      BY <1>3, <3>1, <3>2
    <3>4. a < h + 1
      BY <1>1, <1>4, <3>3
    <3> QED BY <2>2, <3>1, <3>2, <3>4
  <2> QED BY <2>3, <2>4
<1> QED BY <1>2, <1>3, <1>4

\* Where a subscription starts: never before the filter, and without a replay
\* never before what was mined.
LEMMA PositionFacts ==
  ASSUME HandoffTypeOK
  PROVE  /\ Position \in 0 .. Len(Chain)
         /\ start_block # None => Position >= Before(start_block)
         /\ start_block # None /\ replays => Position = Before(start_block)
         /\ ~(start_block # None /\ replays) => Position >= Mined
<1>1. PICK n \in Nat : n = Len(Chain)
  BY ChainFacts
<1>2. PICK m \in 0 .. n : m = Mined
  BY <1>1, MinedFacts
<1>3. CASE start_block = None
  <2>1. BuildFilter = m
    BY <1>2, <1>3 DEF BuildFilter
  <2>2. Position = m
    BY <1>2, <2>1 DEF Position
  <2> QED BY <1>1, <1>2, <1>3, <2>2
<1>4. CASE start_block # None
  <2>1. start_block \in Nat
    BY <1>4, BackfillAssumption DEF HandoffTypeOK
  <2>2. PICK k \in 0 .. n : k = Before(start_block)
    BY <1>1, <2>1, BeforeFacts
  <2>3. BuildFilter = k
    BY <1>4, <2>2 DEF BuildFilter
  <2>4. Position = IF replays \/ k > m THEN k ELSE m
    BY <1>2, <2>3 DEF Position
  <2>5. replays => Position = k
    BY <2>4
  <2>6. ~replays => Position \in {k, m} /\ Position >= k /\ Position >= m
    BY <2>4
  <2> QED BY <1>1, <1>2, <1>4, <2>2, <2>5, <2>6
<1> QED BY <1>3, <1>4

-----------------------------------------------------------------------------
(* Steps *)

LEMMA DeliveredFacts ==
  ASSUME IndInv
  PROVE  /\ delivered \in Seq(Logs) /\ Len(delivered) \in Nat
         /\ DOMAIN delivered = 1 .. Len(delivered)
         /\ run_start \in Nat
BY DEF IndInv, TypeOK, RunTypeOK

\* A step that is not one of the provider leaves the stream and what it has
\* delivered alone, and enters no stream.
LEMMA RestFacts ==
  ASSUME IndInv, Rest
  PROVE  /\ Next /\ UNCHANGED delivered /\ UNCHANGED handoffVars
         /\ Streaming' => Streaming /\ (InHand' => InHand) /\ UNCHANGED run_start
<1>1. Next /\ UNCHANGED delivered /\ UNCHANGED handoffVars /\ ~(pc = "subscribe" /\ pc' = "loop")
  BY DEF Rest
<1>2. ~Received
  <2> SUFFICES ASSUME Received PROVE FALSE
    OBVIOUS
  <2>1. Len(delivered') = Len(delivered) + 1 /\ Len(delivered) \in Nat
    BY ReceivedFacts
  <2> QED BY <1>1, <2>1
<1>3. ASSUME Streaming' PROVE Running' /\ ~Restart
  BY <1>3 DEF Streaming, InHand, Running, Alive, Restart
<1>4. ASSUME Streaming' PROVE Streaming
  <2> USE <1>4 DEF Streaming, InHand
  <2>1. CASE Connecting \/ Selecting
    BY <1>1, <2>1 DEF Connecting, Selecting, StartRejected, Start, Receive,
       ConnectRejected, ConnectOk, ConnectFails, SubscribeOk, SubscribeFails,
       BackoffElapsed, Listen, ListenFails, StreamEnds, Interrupted,
       InterruptedCloseFails, SleepBeforeReconnecting, ReturnError, StopMetrics
  <2>2. CASE Processing
    BY <2>2 DEF Processing, MissingMetadata, Validate, FirstTarget, NoRotation,
       Rotate, RotateFails, DecodeIgnored, DecodeFails, DecodeEvent, Write, WriteFails
  <2>3. CASE Return \/ Environment \/ Ended
    BY <2>3 DEF Environment, Ended, Return, Crash, SigintKills, SigintSeen,
       SigintLost, Die, Signalled, Restart, vars
  <2> QED BY <1>1, <2>1, <2>2, <2>3 DEF Next
<1> QED BY <1>1, <1>2, <1>3, <1>4, HandIsKept, LogsAreFixed

\* A subscription, of the process or of its library.
LEMMA SubscribedFacts ==
  ASSUME Subscribe \/ Resubscribe
  PROVE  /\ Next \/ UNCHANGED vars
         /\ UNCHANGED <<delivered, start_block, replays, backfilled, head>>
         /\ Streaming' /\ ~InHand'
         /\ cursor' = Position /\ skipped' = {} /\ subscriptions' = subscriptions + 1
<1>1. Subscribed
  BY DEF Subscribe, Resubscribe
<1>2. CASE Subscribe
  BY <1>1, <1>2 DEF Subscribe, Subscribed, SubscribeOk, Next, Connecting, historyVars,
     operatorVars, Streaming, InHand
<1>3. CASE Resubscribe
  <2>1. UNCHANGED <<pc, delivered>> /\ pc \in {"loop", "select"}
    BY <1>3 DEF Resubscribe, vars, historyVars
  <2> QED BY <1>1, <1>3, <2>1 DEF Resubscribe, Subscribed, operatorVars, Streaming, InHand
<1> QED BY <1>2, <1>3

LEMMA DeliverFacts ==
  ASSUME IndInv, HandoffTypeOK, Deliver
  PROVE  /\ Received /\ Next
         /\ cursor \in Nat /\ cursor < Mined /\ cursor' = cursor + 1
         /\ cursor + 1 \in DOMAIN Chain /\ cursor + 1 \in 1 .. Len(Chain)
         /\ UNCHANGED <<start_block, replays, backfilled, head, skipped, subscriptions, run_start>>
         /\ delivered' = Append(delivered, Chain[cursor + 1])
         /\ pc \in {"loop", "select"} /\ pc' = "validate"
<1>1. cursor \in Nat /\ cursor < Mined /\ cursor' = cursor + 1
  BY DEF Deliver, HandoffTypeOK
<1>2. cursor + 1 \in 1 .. Len(Chain)
  BY <1>1, MinedFacts
<1>3. Chain[cursor + 1] \in Logs /\ cursor + 1 \in DOMAIN Chain
  BY <1>2, ChainFacts
<1>4. Receive(Chain[cursor + 1])
  BY DEF Deliver
<1>5. Received
  BY <1>3, <1>4 DEF Received
<1>6. Next
  BY <1>5 DEF Received, Next, Selecting
<1> QED BY <1>1, <1>2, <1>3, <1>4, <1>5, <1>6 DEF Deliver, Receive, operatorVars

LEMMA LagFacts ==
  ASSUME HandoffTypeOK, Lag
  PROVE  /\ UNCHANGED vars
         /\ UNCHANGED <<start_block, replays, backfilled, head, subscriptions>>
         /\ cursor \in Nat /\ cursor < Mined /\ cursor' = cursor + 1
         /\ cursor' \in 0 .. Len(Chain)
         /\ skipped' = skipped \union {cursor + 1}
         /\ ~InHand /\ Streaming
<1>1. cursor \in Nat /\ cursor < Mined /\ cursor' = cursor + 1
  BY DEF Lag, HandoffTypeOK
<1>2. cursor' \in 0 .. Len(Chain)
  BY <1>1, MinedFacts
<1> QED BY <1>1, <1>2 DEF Lag, operatorVars, InHand, Streaming

OutsideStep == Mine \/ BackfillReturns

LEMMA OutsideFacts ==
  ASSUME HandoffTypeOK, OutsideStep
  PROVE  /\ UNCHANGED vars
         /\ UNCHANGED <<start_block, replays, cursor, skipped, subscriptions>>
         /\ head' \in Nat /\ head <= head' /\ backfilled' \in BOOLEAN
<1>1. head \in Nat /\ backfilled \in BOOLEAN
  BY DEF HandoffTypeOK
<1>2. CASE Mine
  <2>1. UNCHANGED vars /\ UNCHANGED <<start_block, replays, cursor, skipped, subscriptions, backfilled>>
    BY <1>2 DEF Mine, operatorVars, streamVars
  <2>2. head' = head + 1
    BY <1>2 DEF Mine
  <2> QED BY <1>1, <2>1, <2>2
<1>3. CASE BackfillReturns
  <2>1. /\ UNCHANGED vars /\ UNCHANGED <<start_block, replays, cursor, skipped, subscriptions, head>>
        /\ backfilled' \in BOOLEAN
    BY <1>3 DEF BackfillReturns, streamVars
  <2> QED BY <1>1, <2>1
<1> QED BY <1>2, <1>3 DEF OutsideStep

LEMMA HandoffStepKinds ==
  HandoffNext <=> \/ Subscribe \/ Resubscribe
                  \/ Deliver \/ Lag \/ Rest \/ OutsideStep
BY DEF HandoffNext, OutsideStep

LEMMA ProcessSteps ==
  ASSUME IndInv, HandoffTypeOK, HandoffNext
  PROVE  Next \/ UNCHANGED vars
BY HandoffStepKinds, SubscribedFacts, DeliverFacts, LagFacts, RestFacts, OutsideFacts

LEMMA HandoffTypeStep ==
  ASSUME IndInv, HandoffTypeOK, HandoffNext
  PROVE  HandoffTypeOK'
<1>1. CASE Subscribe \/ Resubscribe
  BY <1>1, SubscribedFacts, PositionFacts DEF HandoffTypeOK
<1>2. CASE Deliver
  <2>1. cursor' \in 0 .. Len(Chain)
    BY <1>2, DeliverFacts
  <2> QED BY <1>2, <2>1, DeliverFacts DEF HandoffTypeOK
<1>3. CASE Lag
  BY <1>3, LagFacts DEF HandoffTypeOK
<1>4. CASE Rest
  BY <1>4, RestFacts DEF HandoffTypeOK, handoffVars, operatorVars, streamVars
<1>5. CASE OutsideStep
  BY <1>5, OutsideFacts DEF HandoffTypeOK
<1> QED BY <1>1, <1>2, <1>3, <1>4, <1>5, HandoffStepKinds

-----------------------------------------------------------------------------
(* What the stream has passed *)

LEMMA PassedStep ==
  ASSUME IndInv, HandoffTypeOK, PassedLogsAreDue, HandoffNext
  PROVE  PassedLogsAreDue'
<1>1. PICK n \in Nat : n = Len(delivered) /\ DOMAIN delivered = 1 .. n
  BY DeliveredFacts
<1>2. cursor \in Nat /\ run_start \in Nat
  BY DeliveredFacts DEF HandoffTypeOK
<1>3. CASE Subscribe \/ Resubscribe
  <2> SUFFICES ASSUME start_block # None, replays, NEW i \in 1 .. Position
               PROVE  Chain[i].block <= BackfillEnd
    BY <1>3, SubscribedFacts DEF PassedLogsAreDue
  <2>1. start_block = BackfillEnd + 1 /\ start_block \in Nat
    BY BackfillAssumption DEF HandoffTypeOK
  <2>2. PICK p \in 0 .. Len(Chain) : p = Position /\ p = Before(start_block)
    BY PositionFacts
  <2>3. i \in 1 .. Len(Chain) /\ i <= p
    BY <2>2, ChainFacts
  <2>4. PICK a \in Nat : a = Chain[i].block
    BY <2>3, ChainFacts
  <2>5. a < BackfillEnd + 1
    BY <2>1, <2>2, <2>3, <2>4, BeforeFacts
  <2> QED BY <2>4, <2>5, BackfillAssumption
<1>4. CASE Deliver
  <2>1. /\ Received /\ UNCHANGED <<start_block, replays, skipped, run_start>>
        /\ cursor' = cursor + 1 /\ delivered' = Append(delivered, Chain[cursor + 1])
        /\ pc \in {"loop", "select"} /\ pc' = "validate"
    BY <1>4, DeliverFacts
  <2>2. ~InHand /\ Streaming /\ InHand' /\ cursor' > 0 /\ cursor' - 1 = cursor
    BY <1>2, <2>1 DEF InHand, Streaming
  <2>3. /\ Len(delivered') = n + 1 /\ delivered'[n + 1] = Chain[cursor + 1]
        /\ \A i \in 1 .. n : delivered'[i] = delivered[i]
    BY <1>1, <2>1, DeliveredFacts
  <2>4. log' = Chain[cursor']
    BY <2>1, <2>3 DEF log
  <2>5. \A r \in DueRows : r \in DueRows' /\ delivered'[r] = delivered[r]
    <3> TAKE r \in DueRows
    <3>1. r \in (run_start + 1) .. n /\ Decoded(delivered[r])
      BY <1>1 DEF DueRows
    <3>2. r \in 1 .. n /\ r \in (run_start + 1) .. (n + 1) /\ r # n + 1
      BY <1>2, <3>1
    <3> QED BY <2>1, <2>3, <3>1, <3>2 DEF DueRows
  <2> QED BY <2>1, <2>2, <2>4, <2>5 DEF PassedLogsAreDue
<1>5. CASE Lag
  <2>1. /\ UNCHANGED vars /\ UNCHANGED <<start_block, replays>> /\ ~InHand /\ Streaming
        /\ cursor' = cursor + 1 /\ skipped' = skipped \union {cursor + 1}
    BY <1>5, LagFacts
  <2>2. UNCHANGED <<pc, delivered, run_start>>
    BY <2>1 DEF vars, historyVars
  <2>3. ~InHand' /\ DueRows' = DueRows
    BY <2>1, <2>2 DEF InHand, DueRows
  <2>4. \A i \in (1 .. cursor') \ skipped' : i \in (1 .. cursor) \ skipped
    BY <1>2, <2>1
  <2> QED BY <2>1, <2>2, <2>3, <2>4 DEF PassedLogsAreDue
<1>6. CASE Rest
  <2>1. /\ UNCHANGED <<delivered, start_block, replays, cursor, skipped>>
        /\ Streaming' => Streaming /\ (InHand' => InHand) /\ UNCHANGED run_start
    BY <1>6, RestFacts DEF handoffVars, operatorVars, streamVars
  <2>2. log' = log
    BY <2>1 DEF log
  <2>3. InHand' => Streaming'
    BY DEF Streaming
  <2>4. InHand' => cursor' > 0 /\ log' = Chain[cursor']
    BY <2>1, <2>2, <2>3 DEF PassedLogsAreDue
  <2>5. ASSUME start_block # None, replays, Streaming',
               NEW i \in (1 .. (IF InHand' THEN cursor - 1 ELSE cursor)) \ skipped,
               Decoded(Chain[i]), ~(Chain[i].block <= BackfillEnd)
        PROVE  \E r \in DueRows' : delivered[r] = Chain[i]
    <3>1. DueRows \subseteq DueRows'
      BY <2>1, <2>5 DEF DueRows
    <3>2. CASE i \in 1 .. (IF InHand THEN cursor - 1 ELSE cursor)
      <4>1. \E r \in DueRows : delivered[r] = Chain[i]
        BY <2>1, <2>5, <3>2 DEF PassedLogsAreDue
      <4> QED BY <3>1, <4>1
    <3>3. CASE i \notin 1 .. (IF InHand THEN cursor - 1 ELSE cursor)
      <4>1. InHand /\ ~InHand' /\ i = cursor
        BY <1>2, <2>1, <2>5, <3>3
      <4>2. log = Chain[i] /\ log = delivered[n]
        BY <1>1, <4>1 DEF PassedLogsAreDue, log
      <4>3. n > run_start
        BY <1>1, <4>1 DEF IndInv, LogInHandIsBelowTarget
      <4>4. n \in DueRows'
        BY <1>1, <1>2, <2>1, <2>5, <4>1, <4>2, <4>3 DEF DueRows
      <4> QED BY <4>2, <4>4
    <3> QED BY <3>2, <3>3
  <2> QED BY <2>1, <2>4, <2>5 DEF PassedLogsAreDue
<1>7. CASE OutsideStep
  <2>1. UNCHANGED <<pc, delivered, run_start, start_block, replays, cursor, skipped>>
    BY <1>7, OutsideFacts DEF vars, historyVars
  <2>2. UNCHANGED <<log, InHand, Streaming, DueRows>>
    BY <2>1 DEF log, InHand, Streaming, DueRows
  <2> QED BY <2>1, <2>2 DEF PassedLogsAreDue
<1> QED BY <1>3, <1>4, <1>5, <1>6, <1>7, HandoffStepKinds

-----------------------------------------------------------------------------
(* How often a log is delivered *)

LEMMA CountFacts ==
  ASSUME IndInv, NEW i
  PROVE  /\ IsFiniteSet(DeliveriesOf(i)) /\ Cardinality(DeliveriesOf(i)) \in Nat
         /\ DeliveriesOf(i) = {} => Cardinality(DeliveriesOf(i)) = 0
<1>1. PICK n \in Nat : DOMAIN delivered = 1 .. n
  BY DeliveredFacts
<1>2. IsFiniteSet(1 .. n)
  BY FS_Interval
<1>3. DeliveriesOf(i) \subseteq 1 .. n
  BY <1>1 DEF DeliveriesOf
<1>4. IsFiniteSet(DeliveriesOf(i))
  BY <1>2, <1>3, FS_Subset
<1> QED BY <1>4, FS_CardinalityType, FS_EmptySet

\* The count of each place, with the cardinalities named.
LEMMA CountsAreFew ==
  ASSUME IndInv, HandoffTypeOK, DeliveriesAreFew, NEW i \in DOMAIN Chain
  PROVE  \E c, m \in Nat :
           /\ c = Cardinality(DeliveriesOf(i)) /\ m = MostDeliveries /\ c <= m
           /\ Streaming /\ i > cursor => c < m
           /\ DeliveriesOf(i) # {} =>
                i <= Mined /\ (start_block # None => i > Before(start_block))
           /\ DeliveriesOf(i) = {} => c = 0
<1>1. PICK c \in Nat : c = Cardinality(DeliveriesOf(i))
  BY CountFacts
<1>2. PICK m \in Nat : m = MostDeliveries
  BY DEF HandoffTypeOK, MostDeliveries
<1> QED BY <1>1, <1>2, CountFacts DEF DeliveriesAreFew

LEMMA FewOfSubscribe ==
  ASSUME IndInv, HandoffTypeOK, DeliveriesAreFew, Subscribe \/ Resubscribe
  PROVE  DeliveriesAreFew'
<1>1. /\ UNCHANGED <<delivered, start_block, replays, head>>
      /\ cursor' = Position /\ subscriptions' = subscriptions + 1
  BY SubscribedFacts
<1>2. Mined' = Mined /\ \A i : DeliveriesOf(i)' = DeliveriesOf(i)
  BY <1>1 DEF Mined, DeliveriesOf
<1>3. start_block' # None => cursor' >= Before(start_block)'
  BY <1>1, PositionFacts DEF Before
<1>4. ASSUME NEW i \in DOMAIN Chain
      PROVE  /\ Cardinality(DeliveriesOf(i)') <= MostDeliveries'
             /\ i > cursor' => Cardinality(DeliveriesOf(i)') < MostDeliveries'
             /\ DeliveriesOf(i)' # {} =>
                  i <= Mined' /\ (start_block' # None => i > Before(start_block)')
  <2>1. PICK c, m \in Nat :
           /\ c = Cardinality(DeliveriesOf(i)) /\ m = MostDeliveries /\ c <= m
           /\ DeliveriesOf(i) # {} =>
                i <= Mined /\ (start_block # None => i > Before(start_block))
           /\ DeliveriesOf(i) = {} => c = 0
    BY CountsAreFew
  <2>2. DeliveriesOf(i)' # {} => i <= Mined' /\ (start_block' # None => i > Before(start_block)')
    BY <1>1, <1>2, <2>1 DEF Before
  <2>3. Cardinality(DeliveriesOf(i)') = c
    BY <1>2, <2>1
  <2>4. CASE start_block # None /\ replays
    <3>1. m = subscriptions /\ MostDeliveries' = subscriptions + 1
      BY <1>1, <2>1, <2>4 DEF MostDeliveries
    <3>2. c < MostDeliveries' /\ c <= MostDeliveries'
      BY <2>1, <3>1
    <3> QED BY <2>2, <2>3, <3>2
  <2>5. CASE ~(start_block # None /\ replays)
    <3>1. m = 1 /\ MostDeliveries' = 1
      BY <1>1, <2>1, <2>5 DEF MostDeliveries
    <3>2. ASSUME i > cursor' PROVE c = 0
      <4>1. PICK p \in Nat : p = Position
        BY PositionFacts
      <4>2. PICK k \in Nat : k = Mined
        BY MinedFacts
      <4>3. p >= k
        BY <2>5, <4>1, <4>2, PositionFacts
      <4>4. i \in Nat
        BY ChainFacts
      <4>5. ~(i <= k)
        BY <1>1, <3>2, <4>1, <4>3, <4>4
      <4> QED BY <2>1, <4>2, <4>5
    <3> QED BY <2>1, <2>2, <2>3, <3>1, <3>2
  <2> QED BY <2>4, <2>5
<1> QED BY <1>3, <1>4 DEF DeliveriesAreFew

LEMMA FewOfDeliver ==
  ASSUME IndInv, HandoffTypeOK, DeliveriesAreFew, Deliver
  PROVE  DeliveriesAreFew'
<1>1. /\ UNCHANGED <<start_block, replays, head, subscriptions>>
      /\ cursor \in Nat /\ cursor < Mined /\ cursor' = cursor + 1
      /\ cursor + 1 \in DOMAIN Chain
      /\ delivered' = Append(delivered, Chain[cursor + 1])
      /\ pc \in {"loop", "select"}
  BY DeliverFacts
<1>2. Streaming
  BY <1>1 DEF Streaming
<1>3. PICK n \in Nat : n = Len(delivered) /\ DOMAIN delivered = 1 .. n /\ delivered \in Seq(Logs)
  BY DeliveredFacts
<1>4. /\ DOMAIN delivered' = 1 .. (n + 1) /\ delivered'[n + 1] = Chain[cursor + 1]
      /\ \A r \in 1 .. n : delivered'[r] = delivered[r]
  <2>1. Chain[cursor + 1] \in Logs
    BY <1>1, ChainFacts
  <2> QED BY <1>1, <1>3, <2>1
<1>5. Mined' = Mined /\ MostDeliveries' = MostDeliveries /\ UNCHANGED Before(start_block)
  BY <1>1 DEF Mined, MostDeliveries, Before
<1>6. PICK at \in Nat : at = cursor + 1
  BY <1>1
<1>7. start_block' # None => cursor' >= Before(start_block)' /\ at > Before(start_block)
  <2> SUFFICES ASSUME start_block # None
               PROVE  cursor' >= Before(start_block) /\ at > Before(start_block)
    BY <1>1, <1>5
  <2>1. start_block \in Nat
    BY BackfillAssumption DEF HandoffTypeOK
  <2>2. PICK b \in Nat : b = Before(start_block)
    BY <2>1, BeforeFacts
  <2>3. cursor >= b
    BY <1>2, <2>2 DEF DeliveriesAreFew
  <2> QED BY <1>1, <1>6, <2>2, <2>3
<1>8. ASSUME NEW i \in DOMAIN Chain
      PROVE  /\ Cardinality(DeliveriesOf(i)') <= MostDeliveries'
             /\ i > cursor' => Cardinality(DeliveriesOf(i)') < MostDeliveries'
             /\ DeliveriesOf(i)' # {} =>
                  i <= Mined' /\ (start_block' # None => i > Before(start_block)')
  <2>1. PICK c, m \in Nat :
           /\ c = Cardinality(DeliveriesOf(i)) /\ m = MostDeliveries /\ c <= m
           /\ i > cursor => c < m
           /\ DeliveriesOf(i) # {} =>
                i <= Mined /\ (start_block # None => i > Before(start_block))
    BY <1>2, CountsAreFew
  <2>2. i \in Nat
    BY ChainFacts
  <2>3. CASE i = at
    <3>1. DeliveriesOf(i)' = DeliveriesOf(i) \union {n + 1}
      BY <1>3, <1>4, <1>6, <2>3 DEF DeliveriesOf
    <3>2. n + 1 \notin DeliveriesOf(i) /\ IsFiniteSet(DeliveriesOf(i))
      <4>1. n + 1 \notin 1 .. n
        OBVIOUS
      <4>2. n + 1 \notin DeliveriesOf(i)
        BY <1>3, <4>1 DEF DeliveriesOf
      <4> QED BY <4>2, CountFacts
    <3>3. Cardinality(DeliveriesOf(i)') = c + 1
      BY <2>1, <3>1, <3>2, FS_AddElement
    <3>4. i > cursor /\ ~(i > cursor')
      BY <1>1, <1>6, <2>3
    <3>5. c + 1 <= MostDeliveries'
      BY <1>5, <2>1, <3>4
    <3>6. i <= Mined
      <4>1. PICK k \in Nat : k = Mined
        BY MinedFacts
      <4> QED BY <1>1, <1>6, <2>3, <4>1
    <3> QED BY <1>1, <1>5, <1>7, <2>3, <3>3, <3>4, <3>5, <3>6
  <2>4. CASE i # at
    <3>1. Chain[i] # Chain[at]
      <4>1. at \in DOMAIN Chain /\ (i < at \/ at < i)
        BY <1>1, <1>6, <2>2, <2>4
      <4> QED BY <4>1, PlacesDiffer
    <3>2. DeliveriesOf(i)' = DeliveriesOf(i)
      BY <1>3, <1>4, <1>6, <3>1 DEF DeliveriesOf
    <3>3. i > cursor' => i > cursor
      BY <1>1, <2>2
    <3> QED BY <1>1, <1>5, <2>1, <3>2, <3>3
  <2> QED BY <2>3, <2>4
<1> QED BY <1>1, <1>7, <1>8 DEF DeliveriesAreFew

LEMMA SuccessorIsNat == \A h \in Nat : h + 1 \in Nat
OBVIOUS

\* Steps that deliver nothing and start no subscription.
LEMMA FewOfRest ==
  ASSUME IndInv, HandoffTypeOK, DeliveriesAreFew,
         UNCHANGED <<delivered, start_block, replays, subscriptions>>,
         Streaming' => Streaming, cursor' \in Nat, cursor <= cursor',
         head' \in Nat, head <= head'
  PROVE  DeliveriesAreFew'
<1>1. \A i : DeliveriesOf(i)' = DeliveriesOf(i)
  BY DEF DeliveriesOf
<1>2. MostDeliveries' = MostDeliveries /\ UNCHANGED Before(start_block)
  BY DEF MostDeliveries, Before
<1>3. PICK k \in Nat : k = Mined
  BY MinedFacts
<1>4. PICK l \in Nat : l = Mined' /\ k <= l
  <2>1. PICK h \in Nat : h = head'
    OBVIOUS
  <2>2. Mined' = Before(h + 1)
    BY <2>1 DEF Mined, Before
  <2>3. h + 1 \in Nat
    BY SuccessorIsNat
  <2>4. Before(h + 1) \in Nat
    BY <2>3, BeforeFacts
  <2>5. Mined <= Before(h + 1)
    BY <2>1, MinedFacts
  <2> QED BY <1>3, <2>2, <2>4, <2>5
<1>5. start_block' # None /\ Streaming' => cursor' >= Before(start_block)'
  <2> SUFFICES ASSUME start_block # None, Streaming PROVE cursor' >= Before(start_block)
    BY <1>2
  <2>1. start_block \in Nat
    BY BackfillAssumption DEF HandoffTypeOK
  <2>2. PICK b \in Nat : b = Before(start_block)
    BY <2>1, BeforeFacts
  <2>3. cursor >= b /\ cursor \in Nat
    BY <2>2 DEF DeliveriesAreFew, HandoffTypeOK
  <2> QED BY <2>2, <2>3
<1>6. ASSUME NEW i \in DOMAIN Chain
      PROVE  /\ Cardinality(DeliveriesOf(i)') <= MostDeliveries'
             /\ Streaming' /\ i > cursor' => Cardinality(DeliveriesOf(i)') < MostDeliveries'
             /\ DeliveriesOf(i)' # {} =>
                  i <= Mined' /\ (start_block' # None => i > Before(start_block)')
  <2>1. i \in Nat /\ cursor \in Nat
    BY ChainFacts DEF HandoffTypeOK
  <2>2. i > cursor' => i > cursor
    BY <2>1
  <2>3. i <= k => i <= l
    BY <1>4, <2>1
  <2> QED BY <1>1, <1>2, <1>3, <1>4, <2>2, <2>3 DEF DeliveriesAreFew
<1> QED BY <1>5, <1>6 DEF DeliveriesAreFew

LEMMA FewStep ==
  ASSUME IndInv, HandoffTypeOK, DeliveriesAreFew, HandoffNext
  PROVE  DeliveriesAreFew'
<1>0. cursor \in Nat /\ head \in Nat
  BY DEF HandoffTypeOK
<1>1. CASE Lag
  <2>1. UNCHANGED <<pc, delivered, start_block, replays, subscriptions, head>>
    BY <1>1, LagFacts DEF vars, historyVars
  <2>2. cursor' = cursor + 1 /\ Streaming
    BY <1>1, LagFacts
  <2>3. cursor' \in Nat /\ cursor <= cursor' /\ head <= head'
    BY <1>0, <2>1, <2>2
  <2> QED BY <1>0, <2>1, <2>2, <2>3, FewOfRest
<1>2. CASE Rest
  <2>1. /\ UNCHANGED <<delivered, start_block, replays, subscriptions, head, cursor>>
        /\ Streaming' => Streaming
    BY <1>2, RestFacts DEF handoffVars, operatorVars, streamVars
  <2>2. cursor <= cursor' /\ head <= head'
    BY <1>0, <2>1
  <2> QED BY <1>0, <2>1, <2>2, FewOfRest
<1>3. CASE OutsideStep
  <2>1. /\ UNCHANGED <<pc, delivered, start_block, replays, subscriptions, cursor>>
        /\ head' \in Nat /\ head <= head'
    BY <1>3, OutsideFacts DEF vars, historyVars
  <2>2. cursor <= cursor' /\ (Streaming' => Streaming)
    BY <1>0, <2>1 DEF Streaming, InHand
  <2> QED BY <1>0, <2>1, <2>2, FewOfRest
<1> QED BY <1>1, <1>2, <1>3, FewOfSubscribe, FewOfDeliver, HandoffStepKinds

-----------------------------------------------------------------------------
(* The theorems *)

AllInv == IndInv /\ KeepInv /\ HandoffInv

LEMMA AllInvHolds == HandoffInit => AllInv
<1> SUFFICES ASSUME HandoffInit PROVE AllInv
  OBVIOUS
<1>1. IndInv /\ KeepInv
  BY InitIndInv, InitKeepInv DEF HandoffInit
<1>2. HandoffTypeOK
  <2>1. cursor = 0 /\ head = 0 /\ subscriptions = 0 /\ backfilled = FALSE
        /\ start_block \in {None, BackfillEnd + 1} /\ replays \in BOOLEAN
    BY DEF HandoffInit
  <2>2. 0 \in 0 .. Len(Chain)
    BY ChainFacts
  <2> QED BY <2>1, <2>2 DEF HandoffTypeOK
<1>3. ~Streaming /\ ~InHand /\ delivered = <<>> /\ subscriptions = 0
  BY DEF HandoffInit, Init, Streaming, InHand
<1>4. PassedLogsAreDue
  BY <1>3 DEF PassedLogsAreDue
<1>5. \A i : DeliveriesOf(i) = {}
  BY <1>3 DEF DeliveriesOf
<1>6. \A i : Cardinality(DeliveriesOf(i)) = 0
  BY <1>5, FS_EmptySet
<1>7. MostDeliveries \in Nat
  BY <1>3 DEF MostDeliveries
<1>8. DeliveriesAreFew
  BY <1>3, <1>5, <1>6, <1>7 DEF DeliveriesAreFew
<1> QED BY <1>1, <1>2, <1>4, <1>8 DEF AllInv, HandoffInv

LEMMA AllInvKept == AllInv /\ [HandoffNext]_allVars => AllInv'
<1> SUFFICES ASSUME AllInv, [HandoffNext]_allVars PROVE AllInv'
  OBVIOUS
<1>1. IndInv /\ KeepInv /\ HandoffTypeOK /\ PassedLogsAreDue /\ DeliveriesAreFew
  BY DEF AllInv, HandoffInv
<1>2. [Next]_vars
  BY <1>1, ProcessSteps DEF allVars
<1>3. IndInv' /\ KeepInv'
  BY <1>1, <1>2, NextIndInv, NextKeepInv
<1>4. CASE HandoffNext
  BY <1>1, <1>3, <1>4, HandoffTypeStep, PassedStep, FewStep DEF AllInv, HandoffInv
<1>5. CASE UNCHANGED allVars
  <2>1. UNCHANGED <<pc, delivered, run_start, start_block, replays, backfilled, head, cursor,
                    skipped, subscriptions>>
    BY <1>5 DEF allVars, vars, historyVars, handoffVars, operatorVars, streamVars
  <2>2. HandoffTypeOK'
    BY <1>1, <2>1 DEF HandoffTypeOK
  <2>3. UNCHANGED <<log, InHand, Streaming, DueRows>>
    BY <2>1 DEF log, InHand, Streaming, DueRows
  <2>4. PassedLogsAreDue'
    BY <1>1, <2>1, <2>3 DEF PassedLogsAreDue
  <2>5. cursor \in Nat /\ head \in Nat /\ cursor <= cursor' /\ head <= head'
    BY <1>1, <2>1 DEF HandoffTypeOK
  <2>6. DeliveriesAreFew'
    BY <1>1, <2>1, <2>3, <2>5, FewOfRest
  <2> QED BY <1>3, <2>2, <2>4, <2>6 DEF AllInv, HandoffInv
<1> QED BY <1>4, <1>5

\* What a stream has passed is due or the backfill's, and a log that it has still
\* to pass was delivered less often than it may be, for every chain.
THEOREM HandoffInvariance == HandoffSpec => []HandoffInv
<1>1. HandoffSpec => []AllInv
  BY AllInvHolds, AllInvKept, PTL DEF HandoffSpec
<1>2. AllInv => HandoffInv
  BY DEF AllInv
<1> QED BY <1>1, <1>2, PTL

LEMMA CompleteOfInv == AllInv => HandoffIsComplete
<1> SUFFICES ASSUME AllInv, backfilled, start_block # None, replays, Streaming,
                    NEW i \in (1 .. (IF InHand THEN cursor - 1 ELSE cursor)) \ skipped,
                    Decoded(Chain[i])
             PROVE  i \in BackfillPlaces \/ RowsAt(i, KeptFiles) # {}
  BY DEF HandoffIsComplete
<1>1. IndInv /\ EveryRowIsKeptOnce /\ HandoffTypeOK /\ PassedLogsAreDue
  BY DEF AllInv, KeepInv, HandoffInv
<1>2. PICK n \in Nat : n = Len(Chain) /\ DOMAIN Chain = 1 .. n
  BY ChainFacts
<1>3. i \in DOMAIN Chain
  BY <1>1, <1>2 DEF HandoffTypeOK
<1>4. CASE Chain[i].block <= BackfillEnd
  BY <1>3, <1>4 DEF BackfillPlaces
<1>5. CASE ~(Chain[i].block <= BackfillEnd)
  <2>1. PICK r \in DueRows : delivered[r] = Chain[i]
    BY <1>1, <1>5 DEF PassedLogsAreDue
  <2>2. Running
    BY DEF Streaming, InHand, Running, Alive
  <2>3. PICK f \in KeptFiles : r \in RowsOf(f)
    BY <1>1, <2>2 DEF EveryRowIsKeptOnce
  <2>4. r \in RowsAt(i, KeptFiles)
    BY <2>1, <2>3 DEF RowsAt
  <2> QED BY <2>4
<1> QED BY <1>4, <1>5

\* With a start block and a provider that replays, every decodable log that the
\* stream has passed and not skipped is in a file of one side or the other.
THEOREM HandoffComplete == HandoffSpec => []HandoffIsComplete
BY AllInvHolds, AllInvKept, CompleteOfInv, PTL DEF HandoffSpec

LEMMA RepeatsOfInv == AllInv => RepeatsAreOfReplays
<1> SUFFICES ASSUME AllInv, NEW i \in DOMAIN Chain
             PROVE  /\ start_block # None /\ i \in BackfillPlaces => RowsAt(i, DOMAIN files) = {}
                    /\ Cardinality(RowsAt(i, DOMAIN files)) <= MostDeliveries
  BY DEF RepeatsAreOfReplays, MostDeliveries
<1>1. IndInv /\ RowsAreDelivered /\ HandoffTypeOK /\ DeliveriesAreFew
  BY DEF AllInv, IndInv, HandoffInv
<1>2. RowsAt(i, DOMAIN files) \subseteq DeliveriesOf(i)
  <2>1. UNION {RowsOf(n) : n \in DOMAIN files} \subseteq DOMAIN delivered
    BY <1>1, DeliveredFacts DEF RowsAreDelivered
  <2> QED BY <2>1 DEF RowsAt, DeliveriesOf
<1>3. PICK c, m \in Nat :
         /\ c = Cardinality(DeliveriesOf(i)) /\ m = MostDeliveries /\ c <= m
         /\ DeliveriesOf(i) # {} /\ start_block # None => i > Before(start_block)
  BY <1>1, CountsAreFew
<1>4. Cardinality(RowsAt(i, DOMAIN files)) <= m
  <2>1. IsFiniteSet(DeliveriesOf(i))
    BY <1>1, CountFacts
  <2>2. /\ Cardinality(RowsAt(i, DOMAIN files)) <= c
        /\ IsFiniteSet(RowsAt(i, DOMAIN files))
    BY <1>2, <1>3, <2>1, FS_Subset
  <2>3. Cardinality(RowsAt(i, DOMAIN files)) \in Nat
    BY <2>2, FS_CardinalityType
  <2> QED BY <1>3, <2>2, <2>3
<1>5. ASSUME start_block # None, i \in BackfillPlaces PROVE RowsAt(i, DOMAIN files) = {}
  <2>1. start_block = BackfillEnd + 1 /\ start_block \in Nat
    BY <1>1, <1>5, BackfillAssumption DEF HandoffTypeOK
  <2>2. i \in 1 .. Len(Chain) /\ i \in Nat
    BY ChainFacts
  <2>3. PICK a \in Nat : a = Chain[i].block
    BY <2>2, ChainFacts
  <2>4. a < start_block
    BY <1>5, <2>1, <2>3, BackfillAssumption DEF BackfillPlaces
  <2>5. PICK b \in Nat : b = Before(start_block)
    BY <2>1, BeforeFacts
  <2>6. i <= b
    BY <2>1, <2>2, <2>3, <2>4, <2>5, BeforeFacts
  <2>7. ~(i > b)
    BY <2>2, <2>6
  <2>8. DeliveriesOf(i) = {}
    BY <1>3, <1>5, <2>5, <2>7
  <2> QED BY <1>2, <2>8
<1> QED BY <1>3, <1>4, <1>5

\* No log is in the files of both sides, and frontfill has one more than once
\* only if the provider replayed it, once for each subscription at most.
THEOREM RepeatsAreReplays == HandoffSpec => []RepeatsAreOfReplays
BY AllInvHolds, AllInvKept, RepeatsOfInv, PTL DEF HandoffSpec
==============================================================================
