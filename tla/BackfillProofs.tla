--------------------------- MODULE BackfillProofs ---------------------------
(***************************************************************************)
(* Proofs, for every chain, every set of requests and every rate, that a   *)
(* backfill names what it did not write, leaves in its directory no file   *)
(* that can be read and is wrong, and returns Ok only when every decodable *)
(* log of its blocks is on disk, in one file.                              *)
(***************************************************************************)
EXTENDS Backfill, TLAPS, FiniteSetTheorems

-----------------------------------------------------------------------------
(* Chunks *)

LEMMA MultipleIsProduct ==
  ASSUME NEW s \in Nat, s > 0, NEW a \in Nat, a % s = 0
  PROVE  \E p \in Nat : a = s * p
OBVIOUS

\* Two multiples of s are equal or s apart.
LEMMA MultiplesAreApart ==
  ASSUME NEW s \in Nat, s > 0, NEW a \in Nat, NEW b \in Nat,
         a % s = 0, b % s = 0, a < b
  PROVE  a + s <= b
<1>1. PICK p \in Nat : a = s * p
  BY MultipleIsProduct
<1>2. PICK q \in Nat : b = s * q
  BY MultipleIsProduct
<1> QED BY <1>1, <1>2

\* The multiple of s at or below a.
LEMMA MultipleBelow ==
  ASSUME NEW s \in Nat, s > 0, NEW a \in Nat
  PROVE  \E m \in 0 .. a : m % s = 0 /\ a < m + s
<1>1. PICK r \in Nat : r = a % s /\ r < s
  OBVIOUS
<1>2. PICK q \in Nat : q = a \div s
  OBVIOUS
<1>3. PICK m \in Nat : m = s * q
  OBVIOUS
<1>4. a = m + r
  BY <1>1, <1>2, <1>3
<1>5. m % s = 0
  BY <1>3
<1> QED BY <1>1, <1>4, <1>5

\* What a chunk of a request is.
LEMMA ChunkShape ==
  ASSUME NEW a \in Nat, NEW z \in Nat, NEW s \in Nat, s > 0,
         NEW c \in ChunksOf(a, z, s)
  PROVE  /\ c = [first |-> c.first, last |-> c.last]
         /\ c.first \in Nat /\ c.last \in Nat
         /\ a <= c.first /\ c.first <= c.last /\ c.last <= z
         /\ c.last < c.first + s
         /\ (c.first - a) % s = 0
         /\ \A d \in ChunksOf(a, z, s) : d.first = c.first => d = c
BY DEF ChunksOf

LEMMA ChunksAreDisjoint ==
  ASSUME NEW a \in Nat, NEW z \in Nat, NEW s \in Nat, s > 0,
         NEW c \in ChunksOf(a, z, s), NEW d \in ChunksOf(a, z, s),
         NEW b \in Nat, c.first <= b, b <= c.last, d.first <= b, b <= d.last
  PROVE  c = d
<1>1. PICK m \in Nat : m = c.first - a /\ m % s = 0
  BY ChunkShape
<1>2. PICK n \in Nat : n = d.first - a /\ n % s = 0
  BY ChunkShape
<1>3. ~(m < n)
  <2>1. m < n => m + s <= n
    BY <1>1, <1>2, MultiplesAreApart
  <2>2. c.first \in Nat /\ c.last \in Nat /\ d.first \in Nat /\ c.last < c.first + s
    BY ChunkShape
  <2> QED BY <1>1, <1>2, <2>1, <2>2
<1>4. ~(n < m)
  <2>1. n < m => n + s <= m
    BY <1>1, <1>2, MultiplesAreApart
  <2>2. c.first \in Nat /\ d.last \in Nat /\ d.first \in Nat /\ d.last < d.first + s
    BY ChunkShape
  <2> QED BY <1>1, <1>2, <2>1, <2>2
<1>5. c.first = d.first
  <2>1. c.first \in Nat /\ d.first \in Nat
    BY ChunkShape
  <2> QED BY <1>1, <1>2, <1>3, <1>4, <2>1
<1> QED BY <1>5, ChunkShape

LEMMA ChunksCover ==
  ASSUME NEW a \in Nat, NEW z \in Nat, NEW s \in Nat, s > 0,
         NEW b \in Nat, a <= b, b <= z
  PROVE  \E c \in ChunksOf(a, z, s) : c.first <= b /\ b <= c.last
<1>1. PICK x \in Nat : x = b - a
  OBVIOUS
<1>2. PICK m \in 0 .. x : m % s = 0 /\ x < m + s
  BY MultipleBelow
<1>3. PICK n \in Nat : n = a + m
  BY <1>1, <1>2
<1>4. n \in a .. z /\ (n - a) % s = 0 /\ n <= b /\ b < n + s
  BY <1>1, <1>2, <1>3
<1>5. PICK l \in Nat : l = IF n + s - 1 < z THEN n + s - 1 ELSE z
  BY <1>4
<1>6. [first |-> n, last |-> l] \in ChunksOf(a, z, s)
  BY <1>4, <1>5 DEF ChunksOf
<1>7. b <= l
  BY <1>4, <1>5
<1> QED BY <1>4, <1>6, <1>7

-----------------------------------------------------------------------------
(* Rows *)

LEMMA RowsAreFinite ==
  ASSUME NEW c, NEW t
  PROVE  /\ RowsOfType(c, t) \subseteq Chain /\ IsFiniteSet(RowsOfType(c, t))
         /\ Cardinality(RowsOfType(c, t)) \in Nat
<1>1. RowsOfType(c, t) \in SUBSET Chain
  BY DEF RowsOfType, LogsIn
<1>2. IsFiniteSet(RowsOfType(c, t))
  BY <1>1, ChainAssumption, FS_Subset
<1> QED BY <1>1, <1>2, FS_CardinalityType

\* A sequence as long as its set is large, without repetition, has every element.
LEMMA NoneIsLeftOut ==
  ASSUME NEW logs, IsFiniteSet(logs), NEW s \in [1 .. Cardinality(logs) -> logs],
         \A i, j \in DOMAIN s : i # j => s[i] # s[j],
         NEW l \in logs
  PROVE  \E k \in DOMAIN s : s[k] = l
<1> SUFFICES ASSUME \A k \in DOMAIN s : s[k] # l PROVE FALSE
  OBVIOUS
<1>1. PICK n \in Nat : n = Cardinality(logs)
  BY FS_CardinalityType
<1>2. PICK rest : rest = logs \ {l}
  OBVIOUS
<1>3. IsFiniteSet(rest) /\ Cardinality(rest) = n - 1
  BY <1>1, <1>2, FS_RemoveElement
<1>4. PICK D : D = 1 .. n
  OBVIOUS
<1>5. IsFiniteSet(D) /\ Cardinality(D) = n
  <2>1. IsFiniteSet(1 .. n) /\ Cardinality(1 .. n) = IF 1 > n THEN 0 ELSE n - 1 + 1
    BY FS_Interval
  <2> QED BY <1>4, <2>1
<1>6. s \in [D -> rest]
  BY <1>1, <1>2, <1>4
<1>7. Cardinality(rest) < Cardinality(D)
  BY <1>3, <1>5
<1>8. \E x, y \in D : x # y /\ s[x] = s[y]
  BY <1>3, <1>5, <1>6, <1>7, FS_PigeonHole
<1> QED BY <1>6, <1>8

\* What sorting returns: the rows, all of them, each after the one before it.
LEMMA SortedRows ==
  ASSUME NEW c, NEW t, NEW s \in Sorted(RowsOfType(c, t))
  PROVE  /\ s \in Seq(Chain)
         /\ {s[k] : k \in DOMAIN s} = RowsOfType(c, t)
         /\ \A i \in 1 .. (Len(s) - 1) : Before(s[i], s[i + 1])
<1>1. PICK n \in Nat : n = Cardinality(RowsOfType(c, t))
  BY RowsAreFinite
<1>2. /\ s \in [1 .. n -> RowsOfType(c, t)]
      /\ \A i, j \in DOMAIN s : i # j => s[i] # s[j]
      /\ \A i, j \in DOMAIN s : i < j => ~Before(s[j], s[i])
  BY <1>1 DEF Sorted
<1>3. s \in [1 .. n -> Chain]
  BY <1>2, RowsAreFinite
<1>4. s \in Seq(Chain) /\ Len(s) = n /\ DOMAIN s = 1 .. n
  BY <1>3
<1>5. \A l \in RowsOfType(c, t) : \E k \in DOMAIN s : s[k] = l
  BY <1>1, <1>2, RowsAreFinite, NoneIsLeftOut
<1>6. {s[k] : k \in DOMAIN s} = RowsOfType(c, t)
  BY <1>2, <1>5
<1>7. ASSUME NEW i \in 1 .. (Len(s) - 1) PROVE Before(s[i], s[i + 1])
  <2>1. i \in 1 .. n /\ i + 1 \in 1 .. n /\ i < i + 1 /\ i # i + 1
    BY <1>4
  <2>2. s[i] \in Chain /\ s[i + 1] \in Chain
    BY <1>3, <2>1
  <2>3. s[i] # s[i + 1] /\ ~Before(s[i + 1], s[i])
    BY <1>2, <1>4, <2>1
  <2>4. /\ s[i].block \in Nat /\ s[i].index \in Nat
        /\ s[i + 1].block \in Nat /\ s[i + 1].index \in Nat
    BY <2>2, ChainAssumption
  <2>5. ~(s[i].block = s[i + 1].block /\ s[i].index = s[i + 1].index)
    BY <2>2, <2>3, ChainAssumption
  <2> QED BY <2>3, <2>4, <2>5 DEF Before
<1> QED BY <1>4, <1>6, <1>7

LEMMA NamesOfChunks ==
  ASSUME NEW c \in TheChunks, NEW d \in TheChunks, NEW t, NEW u,
         config \in Configs, config.size > 0, FileName(c, t) = FileName(d, u)
  PROVE  c = d /\ t = u
<1>1. c.first = d.first /\ t = u
  BY DEF FileName
<1>2. config.start \in Nat /\ config.end \in Nat /\ config.size \in Nat
  BY ConfigsAssumption
<1> QED BY <1>1, <1>2, ChunkShape DEF TheChunks

LEMMA NamesAreNames ==
  ASSUME NEW c \in TheChunks, NEW t \in EventTypes,
         config \in Configs, config.size > 0
  PROVE  FileName(c, t) \in Names
BY DEF Names, TheChunks

-----------------------------------------------------------------------------
(* The shape of the state *)

Shape == TypeOK /\ RunIsWhole /\ RefillIsBounded

ChunkIsNext(c) == StartChunk(c) \/ AcquirePermit(c) \/ FetchFails(c) \/ Fetched(c) \/ ChunkComplete(c)

FileIsNext(c, t) == CreateFile(c, t) \/ CreateFails(c, t) \/ FinishFile(c, t) \/ FinishFails(c, t)

RunIsNext == StartRejected \/ Start \/ Return \/ Crash \/ Rerun

LEMMA StepKinds ==
  ASSUME [Next]_vars
  PROVE  \/ \E c \in DOMAIN stage : ChunkIsNext(c)
         \/ \E c \in DOMAIN stage, t \in EventTypes : FileIsNext(c, t)
         \/ RunIsNext
         \/ RefillStep
         \/ UNCHANGED vars
BY DEF Next, ChunkStep, ChunkIsNext, FileIsNext, RunIsNext

LEMMA RunningChunks ==
  ASSUME Shape, NEW c \in DOMAIN stage
  PROVE  /\ DOMAIN stage = TheChunks /\ config \in Configs /\ config.size > 0
         /\ c \in TheChunks /\ c \in [first : Nat, last : Nat]
<1>1. DOMAIN stage = TheChunks /\ config \in Configs /\ config.size > 0
  BY DEF Shape, TypeOK, RunIsWhole
<1>2. config.start \in Nat /\ config.end \in Nat /\ config.size \in Nat
  BY <1>1, ConfigsAssumption
<1> QED BY <1>1, <1>2, ChunkShape DEF TheChunks

LEMMA ShapeInit == Init => Shape
<1> SUFFICES ASSUME Init PROVE Shape
  OBVIOUS
<1>1. DOMAIN EmptyMap = {}
  BY DEF EmptyMap
<1>2. TypeOK
  BY <1>1, MaxPerSecondAssumption DEF Init, TypeOK
<1>3. RunIsWhole
  BY <1>1, NoneAssumption DEF Init, RunIsWhole, EmptyMap
<1>4. RefillIsBounded
  BY DEF Init, RefillIsBounded
<1> QED BY <1>2, <1>3, <1>4 DEF Shape

LEMMA ShapeOfRuns ==
  ASSUME Shape, RunIsNext PROVE Shape'
<1> USE DEF Shape
<1>0. DOMAIN EmptyMap = {} /\ EmptyMap = [k \in DOMAIN EmptyMap |-> EmptyMap[k]]
  BY DEF EmptyMap
<1>1. CASE StartRejected
  <2>1. TypeOK'
    BY <1>1 DEF StartRejected, TypeOK, TheChunks, chunkVars, limiterVars
  <2>2. RunIsWhole' /\ RefillIsBounded'
    BY <1>1, NoneAssumption DEF StartRejected, RunIsWhole, RefillIsBounded, TheChunks, chunkVars, limiterVars
  <2> QED BY <2>1, <2>2
<1>2. CASE Start
  <2>1. /\ pc = "start" /\ pc' = "running" /\ config' = config /\ config.size > 0
        /\ permits' = MaxPerSecond /\ available' = NoRead
        /\ stage' = [c \in TheChunks |-> "queued"]
        /\ groups' = [c \in TheChunks |-> EmptyMap]
        /\ UNCHANGED <<missing, writing, failures, result, files>>
        /\ TheChunks' = TheChunks
    BY <1>2 DEF Start, Valid, LimiterStarts, TheChunks
  <2>2. writing = None /\ missing = {} /\ failures = {} /\ result = None
    BY <2>1 DEF RunIsWhole, TypeOK
  <2>3. TypeOK'
    BY <1>0, <2>1, <2>2, MaxPerSecondAssumption DEF TypeOK
  <2>4. RunIsWhole' /\ RefillIsBounded'
    BY <2>1, <2>2, NoneAssumption DEF RunIsWhole, RefillIsBounded
  <2> QED BY <2>3, <2>4
<1>3. CASE Return
  <2>1. /\ pc = "running" /\ pc' = "returned"
        /\ \A c \in DOMAIN stage : stage[c] = "done"
        /\ result' = IF failures = {} THEN "ok" ELSE "err"
        /\ available' = NoRead
        /\ UNCHANGED <<config, stage, groups, missing, writing, failures, files, permits>>
        /\ TheChunks' = TheChunks
    BY <1>3 DEF Return, Polling, LimiterStops, chunkVars, TheChunks
  <2>2. TypeOK'
    BY <2>1 DEF TypeOK
  <2>3. RunIsWhole' /\ RefillIsBounded'
    BY <2>1, NoneAssumption DEF RunIsWhole, RefillIsBounded
  <2> QED BY <2>2, <2>3
<1>4. CASE Crash
  <2>1. /\ pc = "running" /\ pc' = "dead" /\ available' = NoRead
        /\ UNCHANGED <<config, stage, groups, missing, writing, failures, result, files, permits>>
        /\ TheChunks' = TheChunks
    BY <1>4 DEF Crash, LimiterStops, chunkVars, TheChunks
  <2>2. TypeOK'
    BY <2>1 DEF TypeOK
  <2>3. RunIsWhole' /\ RefillIsBounded'
    BY <2>1, NoneAssumption DEF RunIsWhole, RefillIsBounded
  <2> QED BY <2>2, <2>3
<1>5. CASE Rerun
  <2>1. TypeOK'
    BY <1>0, <1>5, MaxPerSecondAssumption DEF Rerun, TypeOK
  <2>2. RunIsWhole'
    BY <1>0, <1>5, NoneAssumption DEF Rerun, RunIsWhole
  <2>3. RefillIsBounded'
    BY <1>5, MaxPerSecondAssumption DEF Rerun, RefillIsBounded, TypeOK
  <2> QED BY <2>1, <2>2, <2>3
<1> QED BY <1>1, <1>2, <1>3, <1>4, <1>5 DEF RunIsNext

LEMMA ShapeOfRefills ==
  ASSUME Shape, RefillStep PROVE Shape'
<1> USE DEF Shape
<1>1. /\ UNCHANGED <<config, pc, stage, groups, missing, writing, failures, result, files>>
      /\ TheChunks' = TheChunks
      /\ RefillRead \/ RefillAdd
  BY DEF RefillStep, chunkVars, TheChunks
<1>2. permits' \in 0 .. MaxPerSecond /\ available' \in 0 .. MaxPerSecond \union {NoRead} /\ RefillIsBounded'
  BY <1>1, MaxPerSecondAssumption, NoReadAssumption DEF TypeOK, RefillIsBounded, RefillRead, RefillAdd
<1>3. TypeOK'
  BY <1>1, <1>2 DEF TypeOK
<1>4. RunIsWhole'
  BY <1>1 DEF RunIsWhole
<1> QED BY <1>2, <1>3, <1>4

\* What a step of a chunk may do, as far as the shape goes.
LEMMA ChunkMoves ==
  ASSUME Shape, NEW c \in DOMAIN stage, ChunkIsNext(c)
  PROVE  /\ pc = "running" /\ writing = None
         /\ \E x \in {"acquiring", "fetching", "writing", "done"} :
              stage' = [stage EXCEPT ![c] = x]
         /\ \/ groups' = groups
            \/ \E rows : /\ groups' = [groups EXCEPT ![c] = rows]
                         /\ DOMAIN rows = TypesIn(c)
         /\ missing' = missing \/ missing' = missing \union {c}
         /\ \/ failures' = failures
            \/ \E w \in {"fetch", "metadata"} :
                 failures' = failures \union {[what |-> w, chunk |-> c, type |-> None]}
         /\ permits' = permits \/ (permits > 0 /\ permits' = permits - 1)
         /\ UNCHANGED <<config, pc, writing, result, files, available>>
<1>1. CASE StartChunk(c)
  BY <1>1 DEF StartChunk, Polling, limiterVars
<1>2. CASE AcquirePermit(c)
  BY <1>2 DEF AcquirePermit, Acquire, Polling
<1>3. CASE FetchFails(c)
  BY <1>3 DEF FetchFails, Polling, limiterVars
<1>4. CASE Fetched(c)
  <2>1. PICK rows : /\ groups' = [groups EXCEPT ![c] = rows]
                    /\ rows \in [TypesIn(c) -> UNION {Sorted(RowsOfType(c, t)) : t \in TypesIn(c)}]
    BY <1>4 DEF Fetched
  <2>2. DOMAIN rows = TypesIn(c)
    BY <2>1
  <2> QED BY <1>4, <2>1, <2>2 DEF Fetched, Polling, limiterVars
<1>5. CASE ChunkComplete(c)
  BY <1>5 DEF ChunkComplete, Polling, limiterVars
<1> QED BY <1>1, <1>2, <1>3, <1>4, <1>5 DEF ChunkIsNext

LEMMA ShapeOfChunks ==
  ASSUME Shape, NEW c \in DOMAIN stage, ChunkIsNext(c)
  PROVE  Shape'
<1> USE DEF Shape
<1>1. PICK x \in {"acquiring", "fetching", "writing", "done"} :
        stage' = [stage EXCEPT ![c] = x]
  BY ChunkMoves
<1>2. /\ pc = "running" /\ writing = None
      /\ UNCHANGED <<config, pc, writing, result, files, available>>
  BY ChunkMoves
<1>3. /\ DOMAIN stage' = DOMAIN stage
      /\ \A d \in DOMAIN stage : stage'[d] = IF d = c THEN x ELSE stage[d]
      /\ stage' = [d \in DOMAIN stage' |-> stage'[d]]
  BY <1>1
<1>4. /\ DOMAIN groups' = DOMAIN stage
      /\ groups' = [d \in DOMAIN groups' |-> groups'[d]]
      /\ \A d \in DOMAIN stage : DOMAIN groups'[d] \subseteq EventTypes
  <2>1. DOMAIN groups = DOMAIN stage /\ groups = [d \in DOMAIN groups |-> groups[d]]
        /\ \A d \in DOMAIN groups : DOMAIN groups[d] \subseteq EventTypes
    BY DEF TypeOK, RunIsWhole
  <2>2. CASE groups' = groups
    BY <2>1, <2>2
  <2>3. CASE groups' # groups
    <3>1. PICK rows : groups' = [groups EXCEPT ![c] = rows] /\ DOMAIN rows = TypesIn(c)
      BY <2>3, ChunkMoves
    <3>2. TypesIn(c) \subseteq EventTypes
      BY DEF TypesIn
    <3> QED BY <2>1, <3>1, <3>2
  <2> QED BY <2>2, <2>3
<1>5. missing' \subseteq DOMAIN stage
  BY ChunkMoves DEF TypeOK
<1>6. failures' \subseteq [what : {"fetch", "write", "metadata"}, chunk : DOMAIN stage,
                           type : EventTypes \union {None}]
  <2>1. failures \subseteq [what : {"fetch", "write", "metadata"}, chunk : DOMAIN stage,
                            type : EventTypes \union {None}]
    BY DEF TypeOK
  <2>2. CASE failures' = failures
    BY <2>1, <2>2
  <2>3. CASE failures' # failures
    <3>1. PICK w \in {"fetch", "metadata"} :
            failures' = failures \union {[what |-> w, chunk |-> c, type |-> None]}
      BY <2>3, ChunkMoves
    <3> QED BY <2>1, <3>1
  <2> QED BY <2>2, <2>3
<1>7. permits' \in 0 .. MaxPerSecond /\ RefillIsBounded'
  BY <1>2, ChunkMoves, MaxPerSecondAssumption, NoReadAssumption DEF TypeOK, RefillIsBounded
<1>8. TheChunks' = TheChunks
  BY <1>2 DEF TheChunks
<1>9. TypeOK'
  <2>1. \A d \in DOMAIN stage' : stage'[d] \in {"queued", "acquiring", "fetching", "writing", "done"}
    BY <1>3 DEF TypeOK
  <2>2. writing' \in [chunk : DOMAIN stage', type : EventTypes] \union {None}
    BY <1>2
  <2> QED BY <1>2, <1>3, <1>4, <1>5, <1>6, <1>7, <1>8, <2>1, <2>2 DEF TypeOK
<1>10. RunIsWhole'
  <2>1. result = None
    BY <1>2 DEF RunIsWhole
  <2> QED BY <1>2, <1>3, <1>4, <1>8, <2>1, NoneAssumption DEF RunIsWhole
<1> QED BY <1>7, <1>9, <1>10

\* What a step of a file may do, as far as the shape goes.
LEMMA FileMoves ==
  ASSUME Shape, GroupsAreSorted, OpenFileIsInHand,
         NEW c \in DOMAIN stage, NEW t \in EventTypes, FileIsNext(c, t)
  PROVE  /\ pc = "running" /\ stage[c] = "writing" /\ t \in DOMAIN groups[c]
         /\ writing = None \/ writing = [chunk |-> c, type |-> t]
         /\ \/ writing' = [chunk |-> c, type |-> t] /\ groups' = groups
            \/ writing' = None /\ groups' = [groups EXCEPT ![c] = Remove(@, t)]
         /\ \/ files' = files
            \/ files' = Insert(files, FileName(c, t), [rows |-> <<>>, footer |-> FALSE])
            \/ /\ FileName(c, t) \in DOMAIN files
               /\ files' = [files EXCEPT ![FileName(c, t)] = [rows |-> groups[c][t], footer |-> TRUE]]
         /\ failures' = failures \/ failures' = failures \union {[what |-> "write", chunk |-> c, type |-> t]}
         /\ UNCHANGED <<config, pc, stage, missing, result, permits, available>>
<1>1. CASE CreateFile(c, t)
  BY <1>1 DEF CreateFile, Polling, chunkVars, limiterVars
<1>2. CASE CreateFails(c, t)
  BY <1>2 DEF CreateFails, Polling, TypeIsOver, WriteFailed, limiterVars
<1>3. ASSUME FinishFile(c, t) \/ FinishFails(c, t)
      PROVE  /\ stage[c] = "writing" /\ t \in DOMAIN groups[c]
             /\ FileName(c, t) \in DOMAIN files
  <2>1. writing = [chunk |-> c, type |-> t]
    BY <1>3 DEF FinishFile, FinishFails
  <2>2. c \in [first : Nat, last : Nat]
    BY RunningChunks
  <2>3. writing # None
    BY <2>1, <2>2, NoneAssumption
  <2> QED BY <2>1, <2>3 DEF OpenFileIsInHand
<1>4. CASE FinishFile(c, t)
  BY <1>3, <1>4 DEF FinishFile, TypeIsOver, limiterVars
<1>5. CASE FinishFails(c, t)
  BY <1>3, <1>5 DEF FinishFails, TypeIsOver, WriteFailed, limiterVars
<1> QED BY <1>1, <1>2, <1>4, <1>5 DEF FileIsNext

LEMMA ShapeOfFiles ==
  ASSUME Shape, GroupsAreSorted, OpenFileIsInHand,
         NEW c \in DOMAIN stage, NEW t \in EventTypes, FileIsNext(c, t)
  PROVE  Shape'
<1> USE DEF Shape
<1>1. /\ pc = "running" /\ stage[c] = "writing" /\ t \in DOMAIN groups[c]
      /\ UNCHANGED <<config, pc, stage, missing, result, permits, available>>
  BY FileMoves
<1>2. /\ DOMAIN groups' = DOMAIN stage
      /\ groups' = [d \in DOMAIN groups' |-> groups'[d]]
      /\ \A d \in DOMAIN stage : DOMAIN groups'[d] \subseteq EventTypes
  <2>1. DOMAIN groups = DOMAIN stage /\ groups = [d \in DOMAIN groups |-> groups[d]]
        /\ \A d \in DOMAIN groups : DOMAIN groups[d] \subseteq EventTypes
    BY DEF TypeOK, RunIsWhole
  <2>2. groups' = groups \/ groups' = [groups EXCEPT ![c] = Remove(@, t)]
    BY FileMoves
  <2> QED BY <2>1, <2>2 DEF Remove
<1>3. writing' \in [chunk : DOMAIN stage, type : EventTypes] \union {None}
  BY FileMoves
<1>4. failures' \subseteq [what : {"fetch", "write", "metadata"}, chunk : DOMAIN stage,
                           type : EventTypes \union {None}]
  <2>1. failures \subseteq [what : {"fetch", "write", "metadata"}, chunk : DOMAIN stage,
                            type : EventTypes \union {None}]
    BY DEF TypeOK
  <2>2. failures' = failures \/ failures' = failures \union {[what |-> "write", chunk |-> c, type |-> t]}
    BY FileMoves
  <2> QED BY <2>1, <2>2
<1>5. /\ DOMAIN files' \subseteq Names
      /\ files' \in [DOMAIN files' -> [rows : Seq(Chain), footer : BOOLEAN]]
  <2>1. DOMAIN files \subseteq Names /\ files \in [DOMAIN files -> [rows : Seq(Chain), footer : BOOLEAN]]
    BY DEF TypeOK, RunIsWhole
  <2>2. FileName(c, t) \in Names
    BY RunningChunks, NamesAreNames
  <2>3. groups[c][t] \in Seq(Chain)
    BY <1>1, SortedRows DEF GroupsAreSorted
  <2>4. CASE files' = files
    BY <2>1, <2>4
  <2>5. CASE files' = Insert(files, FileName(c, t), [rows |-> <<>>, footer |-> FALSE])
    BY <2>1, <2>2, <2>5 DEF Insert
  <2>6. CASE /\ FileName(c, t) \in DOMAIN files
             /\ files' = [files EXCEPT ![FileName(c, t)] = [rows |-> groups[c][t], footer |-> TRUE]]
    BY <2>1, <2>3, <2>6
  <2> QED BY <2>4, <2>5, <2>6, FileMoves
<1>6. TheChunks' = TheChunks
  BY <1>1 DEF TheChunks
<1>7. TypeOK'
  <2>1. \A n \in DOMAIN files' : files'[n].footer \in BOOLEAN /\ files'[n].rows \in Seq(Chain)
    BY <1>5
  <2> QED BY <1>1, <1>2, <1>3, <1>4, <1>5, <1>6, <2>1 DEF TypeOK
<1>8. RunIsWhole'
  <2>1. result = None
    BY <1>1 DEF RunIsWhole
  <2> QED BY <1>1, <1>2, <1>5, <1>6, <2>1, NoneAssumption DEF RunIsWhole
<1>9. RefillIsBounded'
  BY <1>1 DEF RefillIsBounded
<1> QED BY <1>7, <1>8, <1>9

-----------------------------------------------------------------------------
(* The rows in hand and the files *)

Contents == GroupsAreSorted /\ OpenFileIsInHand /\ ReadableFilesAreExact

\* A file keeps what is promised of it when it does not change.
IsExact(n, file) ==
  /\ RowsIn(file) = {l \in Chain : /\ l.topic0 = n.type /\ l.well_formed /\ l.has_metadata
                                   /\ n.first <= l.block /\ l.block <= n.last}
  /\ \A i \in 1 .. (Len(file.rows) - 1) : Before(file.rows[i], file.rows[i + 1])

LEMMA ExactFiles ==
  ReadableFilesAreExact <=> \A n \in DOMAIN files : files[n].footer => IsExact(n, files[n])
BY DEF ReadableFilesAreExact, IsExact

LEMMA SortedFileIsExact ==
  ASSUME NEW c, NEW t \in EventTypes, NEW s \in Sorted(RowsOfType(c, t))
  PROVE  IsExact(FileName(c, t), [rows |-> s, footer |-> TRUE])
<1>1. /\ {s[k] : k \in DOMAIN s} = RowsOfType(c, t)
      /\ \A i \in 1 .. (Len(s) - 1) : Before(s[i], s[i + 1])
  BY SortedRows
<1>2. FileName(c, t).type = t /\ FileName(c, t).first = c.first /\ FileName(c, t).last = c.last
  BY DEF FileName
<1>3. RowsOfType(c, t) = {l \in Chain : /\ l.topic0 = t /\ l.well_formed /\ l.has_metadata
                                        /\ c.first <= l.block /\ l.block <= c.last}
  BY DEF RowsOfType, LogsIn, Decoded
<1>4. RowsIn([rows |-> s, footer |-> TRUE]) = {s[k] : k \in DOMAIN s}
  BY DEF RowsIn
<1> QED BY <1>1, <1>2, <1>3, <1>4 DEF IsExact

LEMMA ContentsOfChunks ==
  ASSUME Shape, Contents, NEW c \in DOMAIN stage, ChunkIsNext(c)
  PROVE  Contents'
<1>1. PICK x \in {"acquiring", "fetching", "writing", "done"} :
        stage' = [stage EXCEPT ![c] = x]
  BY ChunkMoves
<1>2. writing = None /\ writing' = None /\ files' = files
  BY ChunkMoves
<1>3. DOMAIN stage' = DOMAIN stage /\ \A d \in DOMAIN stage : stage'[d] = IF d = c THEN x ELSE stage[d]
  BY <1>1
<1>4. ReadableFilesAreExact'
  BY <1>2 DEF Contents, ReadableFilesAreExact, RowsIn
<1>5. OpenFileIsInHand'
  BY <1>2 DEF OpenFileIsInHand
<1>6. GroupsAreSorted'
  <2> SUFFICES ASSUME NEW d \in DOMAIN stage, stage'[d] = "writing", NEW t \in DOMAIN groups'[d]
               PROVE  groups'[d][t] \in Sorted(RowsOfType(d, t))
    BY <1>3 DEF GroupsAreSorted
  <2>0. DOMAIN groups = DOMAIN stage
    BY DEF Shape, TypeOK
  <2>1. CASE d # c
    <3>1. groups'[d] = groups[d]
      BY <2>0, <2>1, ChunkMoves
    <3> QED BY <1>3, <2>1, <3>1 DEF Contents, GroupsAreSorted
  <2>2. CASE d = c
    <3>1. Fetched(c)
      BY <1>1, <1>3, <2>2 DEF ChunkIsNext, StartChunk, AcquirePermit, FetchFails, ChunkComplete
    <3>2. PICK rows : /\ rows \in [TypesIn(c) -> UNION {Sorted(RowsOfType(c, u)) : u \in TypesIn(c)}]
                      /\ \A u \in TypesIn(c) : rows[u] \in Sorted(RowsOfType(c, u))
                      /\ groups' = [groups EXCEPT ![c] = rows]
      BY <3>1 DEF Fetched
    <3>3. groups'[c] = rows /\ DOMAIN rows = TypesIn(c)
      BY <2>0, <3>2
    <3> QED BY <2>2, <3>2, <3>3
  <2> QED BY <2>1, <2>2
<1> QED BY <1>4, <1>5, <1>6 DEF Contents

LEMMA ContentsOfFiles ==
  ASSUME Shape, Contents, NEW c \in DOMAIN stage, NEW t \in EventTypes, FileIsNext(c, t)
  PROVE  Contents'
<1> USE DEF Contents
<1>1. /\ stage' = stage /\ stage[c] = "writing" /\ t \in DOMAIN groups[c]
      /\ DOMAIN groups = DOMAIN stage
  BY FileMoves DEF Shape, TypeOK
<1>2. groups' = groups \/ groups' = [groups EXCEPT ![c] = Remove(@, t)]
  BY FileMoves
<1>3. GroupsAreSorted'
  <2> SUFFICES ASSUME NEW d \in DOMAIN stage, stage[d] = "writing", NEW u \in DOMAIN groups'[d]
               PROVE  groups'[d][u] \in Sorted(RowsOfType(d, u))
    BY <1>1 DEF GroupsAreSorted
  <2>1. u \in DOMAIN groups[d] /\ groups'[d][u] = groups[d][u]
    BY <1>1, <1>2 DEF Remove
  <2> QED BY <2>1 DEF GroupsAreSorted
<1>4. OpenFileIsInHand'
  <2> SUFFICES ASSUME writing' # None
               PROVE  /\ stage'[writing'.chunk] = "writing"
                      /\ writing'.type \in DOMAIN groups'[writing'.chunk]
                      /\ FileName(writing'.chunk, writing'.type) \in DOMAIN files'
    BY DEF OpenFileIsInHand
  <2>1. writing' = [chunk |-> c, type |-> t] /\ groups' = groups
    BY FileMoves
  <2>2. CreateFile(c, t)
    <3>1. ~CreateFails(c, t)
      <4>1. CreateFails(c, t) => writing' = None
        BY DEF CreateFails, Polling
      <4> QED BY <4>1
    <3>2. ~FinishFile(c, t) /\ ~FinishFails(c, t)
      BY DEF FinishFile, FinishFails
    <3> QED BY <3>1, <3>2 DEF FileIsNext
  <2>3. FileName(c, t) \in DOMAIN files'
    BY <2>2 DEF CreateFile, Insert
  <2> QED BY <1>1, <2>1, <2>3
<1>5. ReadableFilesAreExact'
  <2>1. (\A n \in DOMAIN files : files[n].footer => IsExact(n, files[n]))
        /\ files = [n \in DOMAIN files |-> files[n]]
    BY ExactFiles DEF Shape, RunIsWhole
  <2>2. IsExact(FileName(c, t), [rows |-> groups[c][t], footer |-> TRUE])
    BY <1>1, SortedFileIsExact DEF GroupsAreSorted
  <2>3. \A n \in DOMAIN files' : files'[n].footer => IsExact(n, files'[n])
    <3>1. CASE files' = files
      BY <2>1, <3>1
    <3>2. CASE files' = Insert(files, FileName(c, t), [rows |-> <<>>, footer |-> FALSE])
      BY <2>1, <3>2 DEF Insert
    <3>3. CASE /\ FileName(c, t) \in DOMAIN files
               /\ files' = [files EXCEPT ![FileName(c, t)] = [rows |-> groups[c][t], footer |-> TRUE]]
      BY <2>1, <2>2, <3>3
    <3> QED BY <3>1, <3>2, <3>3, FileMoves
  <2> QED BY <2>3 DEF ReadableFilesAreExact, IsExact
<1> QED BY <1>3, <1>4, <1>5

LEMMA ContentsOfRuns ==
  ASSUME Shape, Contents, RunIsNext
  PROVE  Contents'
<1> USE DEF Contents
<1>1. files' = files
  BY DEF RunIsNext, StartRejected, Start, Return, Crash, Rerun
<1>2. ReadableFilesAreExact'
  BY <1>1 DEF ReadableFilesAreExact, RowsIn
<1>3. CASE StartRejected \/ Return \/ Crash
  <2>1. UNCHANGED <<stage, groups, writing>>
    BY <1>3 DEF StartRejected, Return, Crash, chunkVars
  <2> QED BY <1>1, <1>2, <2>1 DEF GroupsAreSorted, OpenFileIsInHand
<1>4. CASE Start \/ Rerun
  <2>1. \A d \in DOMAIN stage' : stage'[d] # "writing"
    BY <1>4 DEF Start, Rerun, EmptyMap
  <2>2. writing' = None
    BY <1>4 DEF Start, Rerun, Shape, RunIsWhole
  <2> QED BY <1>2, <2>1, <2>2 DEF GroupsAreSorted, OpenFileIsInHand
<1> QED BY <1>3, <1>4 DEF RunIsNext

-----------------------------------------------------------------------------
(* What was not written *)

Accounts == TypesAreAccountedFor /\ FailuresNameEveryGap

\* A chunk is accounted for as long as its files, its failures and its rows in
\* hand stay.
LEMMA ReadableIsOnDisk ==
  ASSUME Shape, ReadableFilesAreExact, NEW c \in DOMAIN stage, NEW l \in LogsIn(c),
         Decoded(l), l.has_metadata, Readable(FileName(c, l.topic0))
  PROVE  OnDisk(l, c)
<1>1. PICK n : n = FileName(c, l.topic0)
  OBVIOUS
<1>2. n \in DOMAIN files /\ files[n].footer
  BY <1>1 DEF Readable
<1>3. RowsIn(files[n]) = {m \in Chain : /\ m.topic0 = n.type /\ m.well_formed /\ m.has_metadata
                                        /\ n.first <= m.block /\ m.block <= n.last}
  BY <1>2 DEF ReadableFilesAreExact
<1>4. n.type = l.topic0 /\ n.first = c.first /\ n.last = c.last
  BY <1>1 DEF FileName
<1>5. l \in RowsIn(files[n])
  BY <1>3, <1>4 DEF LogsIn, Decoded
<1> QED BY <1>1, <1>2, <1>5 DEF OnDisk

\* When all that is in hand is written, only what failures tell of or what lacks
\* its metadata is not on disk.
LEMMA CompleteChunkHasNoGap ==
  ASSUME Shape, Contents, Accounts, NEW c \in DOMAIN stage, stage[c] = "writing",
         groups[c] = EmptyMap, NEW l \in DecodableIn(c)
  PROVE  \/ OnDisk(l, c)
         \/ \E f \in failures : Tells(f, l, c)
         \/ ~l.has_metadata /\ c \in missing
<1>1. l \in LogsIn(c) /\ Decoded(l)
  BY DEF DecodableIn
<1>2. CASE ~l.has_metadata
  BY <1>1, <1>2 DEF Accounts, TypesAreAccountedFor, LacksMetadata
<1>3. CASE l.has_metadata
  <2>1. l.topic0 \in TypesIn(c)
    BY <1>1, <1>3 DEF TypesIn, RowsOfType, Decoded
  <2>2. l.topic0 \notin DOMAIN groups[c]
    BY DEF EmptyMap
  <2>3. \/ Readable(FileName(c, l.topic0))
        \/ [what |-> "write", chunk |-> c, type |-> l.topic0] \in failures
    BY <2>1, <2>2 DEF Accounts, TypesAreAccountedFor
  <2>4. CASE Readable(FileName(c, l.topic0))
    BY <1>1, <1>3, <2>4, ReadableIsOnDisk DEF Contents
  <2>5. CASE [what |-> "write", chunk |-> c, type |-> l.topic0] \in failures
    BY <2>5 DEF Tells
  <2> QED BY <2>3, <2>4, <2>5
<1> QED BY <1>2, <1>3

LEMMA AccountsOfChunks ==
  ASSUME Shape, Contents, Accounts, NEW c \in DOMAIN stage, ChunkIsNext(c)
  PROVE  Accounts'
<1>1. PICK x \in {"acquiring", "fetching", "writing", "done"} :
        stage' = [stage EXCEPT ![c] = x]
  BY ChunkMoves
<1>2. /\ files' = files /\ failures \subseteq failures' /\ missing \subseteq missing'
      /\ DOMAIN groups = DOMAIN stage
  BY ChunkMoves DEF Shape, TypeOK
<1>3. DOMAIN stage' = DOMAIN stage /\ \A d \in DOMAIN stage : stage'[d] = IF d = c THEN x ELSE stage[d]
  BY <1>1
<1>4. \A d \in DOMAIN stage : d # c => groups'[d] = groups[d]
  BY <1>2, ChunkMoves
<1>5. \A n : Readable(n)' <=> Readable(n)
  BY <1>2 DEF Readable
<1>6. \A l, d : OnDisk(l, d)' <=> OnDisk(l, d)
  BY <1>2 DEF OnDisk, RowsIn
<1>7. TypesAreAccountedFor'
  <2> SUFFICES ASSUME NEW d \in DOMAIN stage, stage'[d] = "writing"
               PROVE  /\ \A t \in TypesIn(d) :
                           \/ t \in DOMAIN groups'[d]
                           \/ Readable(FileName(d, t))'
                           \/ [what |-> "write", chunk |-> d, type |-> t] \in failures'
                      /\ LacksMetadata(d) => d \in missing'
    BY <1>3 DEF TypesAreAccountedFor
  <2>1. CASE d # c
    BY <1>2, <1>3, <1>4, <1>5, <2>1 DEF Accounts, TypesAreAccountedFor
  <2>2. CASE d = c
    <3>1. Fetched(c)
      BY <1>1, <1>3, <2>2 DEF ChunkIsNext, StartChunk, AcquirePermit, FetchFails, ChunkComplete
    <3>2. PICK rows : /\ rows \in [TypesIn(c) -> UNION {Sorted(RowsOfType(c, u)) : u \in TypesIn(c)}]
                      /\ groups' = [groups EXCEPT ![c] = rows]
      BY <3>1 DEF Fetched
    <3>3. DOMAIN groups'[c] = TypesIn(c)
      BY <1>2, <3>2
    <3>4. LacksMetadata(c) => c \in missing'
      BY <3>1 DEF Fetched
    <3> QED BY <2>2, <3>3, <3>4
  <2> QED BY <2>1, <2>2
<1>8. FailuresNameEveryGap'
  <2> SUFFICES ASSUME NEW d \in DOMAIN stage, stage'[d] = "done", NEW l \in DecodableIn(d)
               PROVE  OnDisk(l, d) \/ \E f \in failures' : Tells(f, l, d)
    BY <1>3, <1>6 DEF FailuresNameEveryGap
  <2>1. CASE d # c
    BY <1>2, <1>3, <2>1 DEF Accounts, FailuresNameEveryGap
  <2>2. CASE d = c
    <3>1. FetchFails(c) \/ ChunkComplete(c)
      BY <1>1, <1>3, <2>2 DEF ChunkIsNext, StartChunk, AcquirePermit, Fetched
    <3>2. CASE FetchFails(c)
      <4>1. PICK f : f = [what |-> "fetch", chunk |-> c, type |-> None]
        OBVIOUS
      <4>2. f \in failures' /\ f.chunk = c /\ f.what = "fetch"
        BY <3>2, <4>1 DEF FetchFails
      <4> QED BY <2>2, <4>2 DEF Tells
    <3>3. CASE ChunkComplete(c)
      <4>1. CASE ~l.has_metadata /\ c \in missing
        <5>1. PICK f : f = [what |-> "metadata", chunk |-> c, type |-> None]
          OBVIOUS
        <5>2. f \in failures' /\ f.chunk = c /\ f.what = "metadata"
          BY <3>3, <4>1, <5>1 DEF ChunkComplete
        <5> QED BY <2>2, <4>1, <5>2 DEF Tells
      <4>2. CASE ~(~l.has_metadata /\ c \in missing)
        <5>1. stage[c] = "writing" /\ groups[c] = EmptyMap
          BY <3>3 DEF ChunkComplete
        <5> QED BY <1>2, <2>2, <4>2, <5>1, CompleteChunkHasNoGap
      <4> QED BY <4>1, <4>2
    <3> QED BY <3>1, <3>2, <3>3
  <2> QED BY <2>1, <2>2
<1> QED BY <1>7, <1>8 DEF Accounts

LEMMA AccountsOfFiles ==
  ASSUME Shape, Contents, Accounts,
         NEW c \in DOMAIN stage, NEW t \in EventTypes, FileIsNext(c, t)
  PROVE  Accounts'
<1> USE DEF Contents
<1>1. /\ UNCHANGED <<stage, missing, config>> /\ stage[c] = "writing" /\ t \in DOMAIN groups[c]
      /\ failures \subseteq failures'
      /\ DOMAIN groups = DOMAIN stage
      /\ files = [n \in DOMAIN files |-> files[n]]
  BY FileMoves DEF Shape, TypeOK, RunIsWhole
\* A file of another name is as before.
<1>2. \A n \in DOMAIN files : n # FileName(c, t) => n \in DOMAIN files' /\ files'[n] = files[n]
  <2>1. CASE files' = files
    BY <2>1
  <2>2. CASE files' = Insert(files, FileName(c, t), [rows |-> <<>>, footer |-> FALSE])
    BY <2>2 DEF Insert
  <2>3. CASE files' = [files EXCEPT ![FileName(c, t)] = [rows |-> groups[c][t], footer |-> TRUE]]
    BY <1>1, <2>3
  <2> QED BY <2>1, <2>2, <2>3, FileMoves
<1>3. ASSUME NEW d \in DOMAIN stage, NEW u, d # c \/ u # t
      PROVE  FileName(d, u) # FileName(c, t)
  BY <1>3, RunningChunks, NamesOfChunks
\* The type in hand stays in hand, is written, or is a failure.
<1>4. \/ t \in DOMAIN groups'[c]
      \/ Readable(FileName(c, t))'
      \/ [what |-> "write", chunk |-> c, type |-> t] \in failures'
  <2>1. CASE CreateFile(c, t)
    BY <1>1, <2>1 DEF CreateFile, chunkVars
  <2>2. CASE FinishFile(c, t)
    <3>1. FileName(c, t) \in DOMAIN files
      <4>1. writing = [chunk |-> c, type |-> t]
        BY <2>2 DEF FinishFile
      <4>2. writing # None
        BY <4>1, RunningChunks, NoneAssumption
      <4> QED BY <4>1, <4>2 DEF OpenFileIsInHand
    <3>2. files' = [files EXCEPT ![FileName(c, t)] = [rows |-> groups[c][t], footer |-> TRUE]]
      BY <2>2 DEF FinishFile
    <3> QED BY <3>1, <3>2 DEF Readable
  <2>3. CASE CreateFails(c, t) \/ FinishFails(c, t)
    BY <2>3 DEF CreateFails, FinishFails, WriteFailed
  <2> QED BY <2>1, <2>2, <2>3 DEF FileIsNext
<1>5. ASSUME NEW d \in DOMAIN stage, NEW u, d # c \/ u # t
      PROVE  u \in DOMAIN groups[d] => u \in DOMAIN groups'[d]
  <2>1. groups' = groups \/ groups' = [groups EXCEPT ![c] = Remove(@, t)]
    BY FileMoves
  <2> QED BY <1>1, <1>5, <2>1 DEF Remove
<1>6. TypesAreAccountedFor'
  <2> SUFFICES ASSUME NEW d \in DOMAIN stage, stage[d] = "writing"
               PROVE  /\ \A u \in TypesIn(d) :
                           \/ u \in DOMAIN groups'[d]
                           \/ Readable(FileName(d, u))'
                           \/ [what |-> "write", chunk |-> d, type |-> u] \in failures'
                      /\ LacksMetadata(d) => d \in missing
    BY <1>1 DEF TypesAreAccountedFor
  <2>1. LacksMetadata(d) => d \in missing
    BY DEF Accounts, TypesAreAccountedFor
  <2>2. ASSUME NEW u \in TypesIn(d), d # c \/ u # t
        PROVE  \/ u \in DOMAIN groups'[d]
               \/ Readable(FileName(d, u))'
               \/ [what |-> "write", chunk |-> d, type |-> u] \in failures'
    <3>1. Readable(FileName(d, u)) => Readable(FileName(d, u))'
      BY <1>2, <1>3, <2>2 DEF Readable
    <3>2. \/ u \in DOMAIN groups[d]
          \/ Readable(FileName(d, u))
          \/ [what |-> "write", chunk |-> d, type |-> u] \in failures
      BY DEF Accounts, TypesAreAccountedFor
    <3> QED BY <1>1, <1>5, <2>2, <3>1, <3>2
  <2> QED BY <1>4, <2>1, <2>2
<1>7. FailuresNameEveryGap'
  <2> SUFFICES ASSUME NEW d \in DOMAIN stage, stage[d] = "done", NEW k \in DecodableIn(d)
               PROVE  OnDisk(k, d)' \/ \E f \in failures' : Tells(f, k, d)
    BY <1>1 DEF FailuresNameEveryGap
  <2>1. d # c
    BY <1>1
  <2>2. ASSUME NEW l, OnDisk(l, d) PROVE OnDisk(l, d)'
    <3>1. FileName(d, l.topic0) # FileName(c, t)
      BY <1>3, <2>1
    <3> QED BY <1>2, <2>2, <3>1 DEF OnDisk, RowsIn
  <2> QED BY <1>1, <2>2 DEF Accounts, FailuresNameEveryGap
<1> QED BY <1>6, <1>7 DEF Accounts

LEMMA AccountsOfRuns ==
  ASSUME Shape, Contents, Accounts, RunIsNext
  PROVE  Accounts'
<1> USE DEF Accounts
<1>1. CASE StartRejected \/ Return \/ Crash
  <2>1. UNCHANGED <<stage, groups, missing, failures, files>>
    BY <1>1 DEF StartRejected, Return, Crash, chunkVars
  <2> QED BY <2>1 DEF TypesAreAccountedFor, FailuresNameEveryGap, Readable, OnDisk, RowsIn
<1>2. CASE Start \/ Rerun
  <2>1. \A d \in DOMAIN stage' : stage'[d] # "writing" /\ stage'[d] # "done"
    BY <1>2 DEF Start, Rerun, EmptyMap
  <2> QED BY <2>1 DEF TypesAreAccountedFor, FailuresNameEveryGap
<1> QED BY <1>1, <1>2 DEF RunIsNext

-----------------------------------------------------------------------------
(* The invariant *)

LEMMA InvParts == BackfillInv <=> Shape /\ Contents /\ Accounts
BY DEF BackfillInv, Shape, Contents, Accounts

LEMMA InvInit == Init => BackfillInv
<1> SUFFICES ASSUME Init PROVE BackfillInv
  OBVIOUS
<1>1. DOMAIN stage = {} /\ DOMAIN files = {} /\ writing = None
  BY DEF Init, EmptyMap
<1>2. Contents
  BY <1>1 DEF Contents, GroupsAreSorted, OpenFileIsInHand, ReadableFilesAreExact
<1>3. Accounts
  BY <1>1 DEF Accounts, TypesAreAccountedFor, FailuresNameEveryGap
<1> QED BY <1>2, <1>3, ShapeInit, InvParts

LEMMA InvNext == BackfillInv /\ [Next]_vars => BackfillInv'
<1> SUFFICES ASSUME Shape, Contents, Accounts, [Next]_vars
             PROVE  Shape' /\ Contents' /\ Accounts'
  BY InvParts DEF BackfillInv, Shape, Contents, Accounts
<1>1. ASSUME NEW c \in DOMAIN stage, ChunkIsNext(c) PROVE Shape' /\ Contents' /\ Accounts'
  BY <1>1, ShapeOfChunks, ContentsOfChunks, AccountsOfChunks
<1>2. ASSUME NEW c \in DOMAIN stage, NEW t \in EventTypes, FileIsNext(c, t)
      PROVE Shape' /\ Contents' /\ Accounts'
  BY <1>2, ShapeOfFiles, ContentsOfFiles, AccountsOfFiles DEF Contents
<1>3. CASE RunIsNext
  BY <1>3, ShapeOfRuns, ContentsOfRuns, AccountsOfRuns
<1>4. ASSUME UNCHANGED <<stage, groups, missing, writing, failures, files>>
      PROVE  Contents' /\ Accounts'
  <2>1. Contents'
    <3>1. GroupsAreSorted'
      BY <1>4 DEF Contents, GroupsAreSorted
    <3>2. OpenFileIsInHand'
      BY <1>4 DEF Contents, OpenFileIsInHand
    <3>3. ReadableFilesAreExact'
      BY <1>4 DEF Contents, ReadableFilesAreExact, RowsIn
    <3> QED BY <3>1, <3>2, <3>3 DEF Contents
  <2>2. Accounts'
    BY <1>4 DEF Accounts, TypesAreAccountedFor, FailuresNameEveryGap, Readable, OnDisk, RowsIn
  <2> QED BY <2>1, <2>2
<1>5. CASE RefillStep
  <2>1. UNCHANGED <<stage, groups, missing, writing, failures, files>>
    BY <1>5 DEF RefillStep, chunkVars
  <2> QED BY <1>4, <1>5, <2>1, ShapeOfRefills
<1>6. CASE UNCHANGED vars
  <2>1. /\ UNCHANGED <<config, pc, stage, groups, missing, writing, failures, result, files>>
        /\ UNCHANGED <<permits, available>>
    BY <1>6 DEF vars, chunkVars, limiterVars
  <2>2. TheChunks' = TheChunks
    BY <2>1 DEF TheChunks
  <2>3. Shape'
    BY <2>1, <2>2 DEF Shape, TypeOK, RunIsWhole, RefillIsBounded
  <2> QED BY <1>4, <2>1, <2>3
<1> QED BY <1>1, <1>2, <1>3, <1>5, <1>6, StepKinds

\* Every run over the directory, with its failures, its crash and the runs after
\* it, keeps the invariant.
THEOREM BackfillInvariance == Spec => []BackfillInv
BY InvInit, InvNext, PTL DEF Spec

\* backfill::run keeps its state well formed: chunks are those of the request,
\* groups and failures are of those chunks, files have names of chunks, and the
\* semaphore never has more than max_per_second permits.
THEOREM BackfillTypeCorrect == Spec => []TypeOK
<1>1. BackfillInv => TypeOK
  BY DEF BackfillInv
<1> QED BY <1>1, BackfillInvariance, PTL

\* A chunk that is over has its decodable logs on disk or is named by a failure,
\* however the chunks in flight interleave and whatever earlier runs left.
THEOREM GapsAreNamed == Spec => []FailuresNameEveryGap
<1>1. BackfillInv => FailuresNameEveryGap
  BY DEF BackfillInv
<1> QED BY <1>1, BackfillInvariance, PTL

\* A file that can be read has exactly the rows its name promises, in order,
\* whatever crashed between File::create and close.
THEOREM FilesExact == Spec => []ReadableFilesAreExact
<1>1. BackfillInv => ReadableFilesAreExact
  BY DEF BackfillInv
<1> QED BY <1>1, BackfillInvariance, PTL

\* run() returns Ok only when every decodable log of the requested blocks is on
\* disk, in the file of exactly one of its chunks.
THEOREM OkIsComplete == Spec => []OkMeansComplete
<1>1. BackfillInv => OkMeansComplete
  <2> SUFFICES ASSUME BackfillInv, result = "ok", NEW l \in Chain, Decoded(l),
                      config.start <= l.block, l.block <= config.end
               PROVE  /\ \E c \in TheChunks : OnDisk(l, c)
                      /\ \A c, d \in TheChunks : OnDisk(l, c) /\ OnDisk(l, d) => c = d
    BY DEF OkMeansComplete
  <2>1. /\ DOMAIN stage = TheChunks /\ config.size > 0 /\ failures = {} /\ config \in Configs
        /\ \A c \in DOMAIN stage : stage[c] = "done"
    BY DEF BackfillInv, RunIsWhole, TypeOK
  <2>2. config.start \in Nat /\ config.end \in Nat /\ config.size \in Nat /\ l.block \in Nat
    BY <2>1, ConfigsAssumption, ChainAssumption
  <2>3. PICK c \in TheChunks : c.first <= l.block /\ l.block <= c.last
    BY <2>1, <2>2, ChunksCover DEF TheChunks
  <2>4. l \in DecodableIn(c)
    BY <2>3 DEF DecodableIn, LogsIn
  <2>5. OnDisk(l, c)
    BY <2>1, <2>3, <2>4 DEF BackfillInv, FailuresNameEveryGap
  <2>6. ASSUME NEW d \in TheChunks, OnDisk(l, d)
        PROVE  d.first <= l.block /\ l.block <= d.last
    <3>1. PICK n : n = FileName(d, l.topic0)
      OBVIOUS
    <3>2. n \in DOMAIN files /\ files[n].footer /\ l \in RowsIn(files[n])
      BY <2>6, <3>1 DEF OnDisk
    <3>3. n.first <= l.block /\ l.block <= n.last
      BY <3>2 DEF BackfillInv, ReadableFilesAreExact
    <3> QED BY <3>1, <3>3 DEF FileName
  <2>7. ASSUME NEW d \in TheChunks, NEW e \in TheChunks, OnDisk(l, d), OnDisk(l, e)
        PROVE  d = e
    <3>1. /\ d.first <= l.block /\ l.block <= d.last
          /\ e.first <= l.block /\ l.block <= e.last
      BY <2>6, <2>7
    <3> QED BY <2>1, <2>2, <3>1, ChunksAreDisjoint DEF TheChunks
  <2> QED BY <2>5, <2>7
<1> QED BY <1>1, BackfillInvariance, PTL
=============================================================================
