------------------------------ MODULE Backfill ------------------------------
(***************************************************************************)
(* backfill::run of src/backfill.rs and the runs that an operator starts   *)
(* after it over the same directory.  A run cuts its blocks into chunks,   *)
(* keeps up to parallelism of them in flight, and for each one waits for a *)
(* permit, fetches its logs, decodes and groups them, and writes a file    *)
(* per event type.  What fails is recorded, and the run goes on.           *)
(*                                                                         *)
(* The chunks' futures are all polled by one task, and write_parquet_file  *)
(* has no await: no other chunk moves between its two steps here, though   *)
(* the process may die there and the refill task may run.  A file is       *)
(* truncated by File::create and can be read once ArrowWriter::close has   *)
(* written its footer.                                                     *)
(*                                                                         *)
(* The provider returns, in any order, the logs that the chain has in the  *)
(* blocks it is asked for, or an error.                                    *)
(*                                                                         *)
(* A definition marked Mutant is not part of the model: it is a bug, put   *)
(* in the place of the definition after it to see a property fail.         *)
(***************************************************************************)
EXTENDS RateLimiter, Decode, Chunks, Sequences, FiniteSets

CONSTANTS
  Chain,    \* the logs of the chain, see Decode; each has an index too
  Configs,  \* BackfillConfig: [start, end, size, parallelism,
            \* url_ok, auth_key, header_ok]
  None

\* No two logs of a block have the same log_index.
ASSUME ChainAssumption ==
  /\ IsFiniteSet(Chain)
  /\ \A l \in Chain : l.block \in Nat /\ l.index \in Nat
  /\ \A l, m \in Chain : l.block = m.block /\ l.index = m.index => l = m

\* u64s and a usize
ASSUME ConfigsAssumption ==
  \A g \in Configs : {g.start, g.end, g.size, g.parallelism} \subseteq Nat

ASSUME NoneAssumption ==
  None \notin {"ok", "err"} \union [chunk : [first : Nat, last : Nat], type : EventTypes]

VARIABLES
  config,   \* the parameters of run()
  pc,       \* start, running, returned, dead
  stage,    \* chunk -> queued, acquiring, fetching, writing, done
  groups,   \* by_event: chunk -> event type -> rows, of what is not yet written
  missing,  \* the chunks whose missing_metadata_count is not 0
  writing,  \* the file in the hands of write_parquet_file, or None
  failures, \* Vec<String>, as records
  result,   \* what run() returned: None, ok, err
  files     \* the directory: file name -> [rows, footer]

chunkVars == <<stage, groups, missing>>
vars == <<config, pc, chunkVars, writing, failures, result, files, limiterVars>>

-----------------------------------------------------------------------------
EmptyMap == [k \in {} |-> k]

\* HashMap::insert
Insert(map, key, value) ==
  [k \in DOMAIN map \union {key} |-> IF k = key THEN value ELSE map[k]]

Remove(map, key) == [k \in DOMAIN map \ {key} |-> map[k]]

TheChunks == ChunksOf(config.start, config.end, config.size)

InFlight == {c \in DOMAIN stage : stage[c] \notin {"queued", "done"}}

Before(l, m) == l.block < m.block \/ (l.block = m.block /\ l.index < m.index)

\* Mutant: the order in which the provider gave them.
AsFetched(logs) == {s \in [1 .. Cardinality(logs) -> logs] :
                      \A i, j \in DOMAIN s : i # j => s[i] # s[j]}

\* sort_by block_number and then log_index
Sorted(logs) == {s \in [1 .. Cardinality(logs) -> logs] :
                   /\ \A i, j \in DOMAIN s : i # j => s[i] # s[j]
                   /\ \A i, j \in DOMAIN s : i < j => ~Before(s[j], s[i])}

LogsIn(c) == {l \in Chain : c.first <= l.block /\ l.block <= c.last}

\* The logs that become rows of a type; a log is decoded before its metadata is
\* looked at, so a log that is not decoded is skipped whatever it lacks.
RowsOfType(c, t) ==
  {l \in LogsIn(c) : Decoded(l) /\ l.topic0 = t /\ l.has_metadata}

TypesIn(c) == {t \in EventTypes : RowsOfType(c, t) # {}}

LacksMetadata(c) == \E l \in LogsIn(c) : Decoded(l) /\ ~l.has_metadata

\* <output>/<event_type>/<first>-<last>.parquet
FileName(c, t) == [type |-> t, first |-> c.first, last |-> c.last]

\* A chunk's future can be polled.
Polling == pc = "running" /\ writing = None

-----------------------------------------------------------------------------
Init ==
  /\ config \in Configs
  /\ pc = "start"
  /\ stage = EmptyMap
  /\ groups = EmptyMap
  /\ missing = {}
  /\ writing = None
  /\ failures = {}
  /\ result = None
  /\ files = EmptyMap
  /\ permits = 0
  /\ available = NoRead

\* build_http_url and build_auth_headers: a key, if there is one, needs a header
\* name and a header value.
HttpClientIsBuilt ==
  /\ config.url_ok
  /\ config.auth_key = "given" => config.header_ok

Valid ==
  /\ config.start <= config.end
  /\ config.size > 0
  /\ config.parallelism > 0
  /\ MaxPerSecond > 0
  /\ HttpClientIsBuilt

\* A parameter is refused, or no client can be built from the URL and header.
StartRejected ==
  /\ pc = "start"
  /\ ~Valid
  /\ pc' = "returned"
  /\ result' = "err"
  /\ UNCHANGED <<config, chunkVars, writing, failures, files, limiterVars>>

Start ==
  /\ pc = "start"
  /\ Valid
  /\ pc' = "running"
  /\ LimiterStarts
  /\ stage' = [c \in TheChunks |-> "queued"]
  /\ groups' = [c \in TheChunks |-> EmptyMap]
  /\ UNCHANGED <<config, missing, writing, failures, result, files>>

\* for_each_concurrent takes the chunks in order.
StartChunk(c) ==
  /\ Polling
  /\ stage[c] = "queued"
  /\ \A d \in DOMAIN stage : stage[d] = "queued" => c.first <= d.first
  /\ Cardinality(InFlight) < config.parallelism
  /\ stage' = [stage EXCEPT ![c] = "acquiring"]
  /\ UNCHANGED <<config, pc, groups, missing, writing, failures, result, files,
                 limiterVars>>

AcquirePermit(c) ==
  /\ Polling
  /\ stage[c] = "acquiring"
  /\ Acquire
  /\ stage' = [stage EXCEPT ![c] = "fetching"]
  /\ UNCHANGED <<config, pc, groups, missing, writing, failures, result, files>>

FetchFails(c) ==
  /\ Polling
  /\ stage[c] = "fetching"
  /\ stage' = [stage EXCEPT ![c] = "done"]
  /\ failures' = failures \union {[what |-> "fetch", chunk |-> c, type |-> None]}
  /\ UNCHANGED <<config, pc, groups, missing, writing, result, files, limiterVars>>

\* get_logs returns: the logs are decoded, grouped and sorted.
Fetched(c) ==
  /\ Polling
  /\ stage[c] = "fetching"
  /\ stage' = [stage EXCEPT ![c] = "writing"]
  /\ \E rows \in [TypesIn(c) -> UNION {Sorted(RowsOfType(c, t)) : t \in TypesIn(c)}] :
       /\ \A t \in TypesIn(c) : rows[t] \in Sorted(RowsOfType(c, t))
       /\ groups' = [groups EXCEPT ![c] = rows]
  /\ missing' = IF LacksMetadata(c) THEN missing \union {c} ELSE missing
  /\ UNCHANGED <<config, pc, writing, failures, result, files, limiterVars>>

-----------------------------------------------------------------------------
(* write_parquet_file, for one event type of a chunk *)

CreateFile(c, t) ==
  /\ Polling
  /\ stage[c] = "writing"
  /\ t \in DOMAIN groups[c]
  /\ files' = Insert(files, FileName(c, t), [rows |-> <<>>, footer |-> FALSE])
  /\ writing' = [chunk |-> c, type |-> t]
  /\ UNCHANGED <<config, pc, chunkVars, failures, result, limiterVars>>

\* The loop over by_event goes to the next event type.
TypeIsOver(c, t) == groups' = [groups EXCEPT ![c] = Remove(@, t)]

WriteFailed(c, t) ==
  failures' = failures \union {[what |-> "write", chunk |-> c, type |-> t]}

\* Mutant: the first write that fails ends the loop over by_event.
CreateFailsAndLeaves(c, t) ==
  /\ Polling
  /\ stage[c] = "writing"
  /\ t \in DOMAIN groups[c]
  /\ WriteFailed(c, t)
  /\ groups' = [groups EXCEPT ![c] = EmptyMap]
  /\ UNCHANGED <<config, pc, stage, missing, writing, result, files, limiterVars>>

\* The directory or the file cannot be created.
CreateFails(c, t) ==
  /\ Polling
  /\ stage[c] = "writing"
  /\ t \in DOMAIN groups[c]
  /\ WriteFailed(c, t)
  /\ TypeIsOver(c, t)
  /\ UNCHANGED <<config, pc, stage, missing, writing, result, files, limiterVars>>

FinishFile(c, t) ==
  /\ pc = "running"
  /\ writing = [chunk |-> c, type |-> t]
  /\ files' = [files EXCEPT ![FileName(c, t)] =
                 [rows |-> groups[c][t], footer |-> TRUE]]
  /\ writing' = None
  /\ TypeIsOver(c, t)
  /\ UNCHANGED <<config, pc, stage, missing, failures, result, limiterVars>>

\* The new file cannot take a writer, the rows or the footer.
FinishFails(c, t) ==
  /\ pc = "running"
  /\ writing = [chunk |-> c, type |-> t]
  /\ WriteFailed(c, t)
  /\ writing' = None
  /\ TypeIsOver(c, t)
  /\ UNCHANGED <<config, pc, stage, missing, result, files, limiterVars>>

-----------------------------------------------------------------------------
\* Mutant: rows without metadata are only a warning.
ChunkCompleteWarns(c) ==
  /\ Polling
  /\ stage[c] = "writing"
  /\ groups[c] = EmptyMap
  /\ stage' = [stage EXCEPT ![c] = "done"]
  /\ UNCHANGED <<config, pc, groups, missing, writing, failures, result, files,
                 limiterVars>>

ChunkComplete(c) ==
  /\ Polling
  /\ stage[c] = "writing"
  /\ groups[c] = EmptyMap
  /\ stage' = [stage EXCEPT ![c] = "done"]
  /\ failures' = IF c \in missing
                   THEN failures \union {[what |-> "metadata", chunk |-> c, type |-> None]}
                   ELSE failures
  /\ UNCHANGED <<config, pc, groups, missing, writing, result, files, limiterVars>>

Return ==
  /\ Polling
  /\ \A c \in DOMAIN stage : stage[c] = "done"
  /\ pc' = "returned"
  /\ result' = IF failures = {} THEN "ok" ELSE "err"
  /\ LimiterStops
  /\ UNCHANGED <<config, chunkVars, writing, failures, files>>

\* The backfill handles no signal: SIGINT, like SIGKILL or a panic, ends it.
Crash ==
  /\ pc = "running"
  /\ pc' = "dead"
  /\ LimiterStops
  /\ UNCHANGED <<config, chunkVars, writing, failures, result, files>>

\* The operator runs a backfill again, with these parameters or others.
Rerun ==
  /\ pc \in {"returned", "dead"}
  /\ config' \in Configs
  /\ pc' = "start"
  /\ stage' = EmptyMap
  /\ groups' = EmptyMap
  /\ missing' = {}
  /\ writing' = None
  /\ failures' = {}
  /\ result' = None
  /\ permits' = 0
  /\ UNCHANGED <<files, available>>

-----------------------------------------------------------------------------
ChunkStep ==
  \E c \in DOMAIN stage :
    \/ StartChunk(c) \/ AcquirePermit(c)
    \/ FetchFails(c) \/ Fetched(c)
    \/ \E t \in EventTypes : CreateFile(c, t) \/ CreateFails(c, t)
                               \/ FinishFile(c, t) \/ FinishFails(c, t)
    \/ ChunkComplete(c)

RefillStep ==
  /\ pc = "running"
  /\ RefillRead \/ RefillAdd
  /\ UNCHANGED <<config, pc, chunkVars, writing, failures, result, files>>

Next == StartRejected \/ Start \/ ChunkStep \/ RefillStep \/ Return \/ Crash \/ Rerun

Spec == Init /\ [][Next]_vars

\* The provider answers or refuses each request, the executor polls the task, and
\* the interval ticks.
FairSpec == Spec /\ WF_vars(ChunkStep \/ Return) /\ WF_vars(RefillStep)

-----------------------------------------------------------------------------
Names == UNION {{FileName(c, t) : c \in ChunksOf(g.start, g.end, g.size), t \in EventTypes} :
                  g \in {h \in Configs : h.size > 0}}

TypeOK ==
  /\ config \in Configs
  /\ pc \in {"start", "running", "returned", "dead"}
  /\ DOMAIN stage # {} => DOMAIN stage = TheChunks
  /\ \A c \in DOMAIN stage : stage[c] \in {"queued", "acquiring", "fetching", "writing", "done"}
  /\ DOMAIN groups = DOMAIN stage
  /\ \A c \in DOMAIN groups : DOMAIN groups[c] \subseteq EventTypes
  /\ missing \subseteq DOMAIN stage
  /\ writing \in [chunk : DOMAIN stage, type : EventTypes] \union {None}
  /\ failures \subseteq [what : {"fetch", "write", "metadata"}, chunk : DOMAIN stage,
                         type : EventTypes \union {None}]
  /\ result \in {None, "ok", "err"}
  /\ DOMAIN files \subseteq Names
  /\ \A n \in DOMAIN files : files[n].footer \in BOOLEAN /\ files[n].rows \in Seq(Chain)
  /\ permits \in 0 .. MaxPerSecond
  /\ available \in 0 .. MaxPerSecond \union {NoRead}

\* The logs whose topic is one of the indexer's and whose data decodes.
DecodableIn(c) == {l \in LogsIn(c) : Decoded(l)}

RowsIn(file) == {file.rows[k] : k \in DOMAIN file.rows}

OnDisk(l, c) ==
  LET n == FileName(c, l.topic0)
  IN n \in DOMAIN files /\ files[n].footer /\ l \in RowsIn(files[n])

\* A failure that tells that l is not in the files of its chunk: the chunk was not
\* fetched, the file of its type was not written, or logs without metadata were
\* dropped and l is one.
Tells(f, l, c) ==
  /\ f.chunk = c
  /\ \/ f.what = "fetch"
     \/ f.what = "write" /\ f.type = l.topic0
     \/ f.what = "metadata" /\ ~l.has_metadata

\* When a chunk is over, each of its decodable logs is on disk or some failure
\* tells of it: neither another chunk's failure, nor another type's, nor missing
\* metadata of another log, nor a file of an earlier run hides a gap.
FailuresNameEveryGap ==
  \A c \in DOMAIN stage : stage[c] = "done" =>
    \A l \in DecodableIn(c) : OnDisk(l, c) \/ \E f \in failures : Tells(f, l, c)

\* A run that returns Ok leaves every decodable log of the requested blocks in a
\* file that can be read, in exactly one of those of this run's chunks.
OkMeansComplete ==
  result = "ok" =>
    \A l \in Chain : Decoded(l) /\ config.start <= l.block /\ l.block <= config.end =>
      /\ \E c \in TheChunks : OnDisk(l, c)
      /\ \A c, d \in TheChunks : OnDisk(l, c) /\ OnDisk(l, d) => c = d

\* Whatever crashed or failed, a file that can be read has exactly the rows of
\* its type in the blocks of its name, in order of block and index.
ReadableFilesAreExact ==
  \A n \in DOMAIN files : files[n].footer =>
    LET rows == files[n].rows IN
    /\ RowsIn(files[n]) =
         {l \in Chain : /\ l.topic0 = n.type /\ l.well_formed /\ l.has_metadata
                        /\ n.first <= l.block /\ l.block <= n.last}
    /\ \A i \in 1 .. (Len(rows) - 1) : Before(rows[i], rows[i + 1])

\* A run ends, for a provider that answers or refuses each request.
RunEnds == pc = "running" ~> pc # "running"

-----------------------------------------------------------------------------
(* What makes the invariants inductive *)

Readable(n) == n \in DOMAIN files /\ files[n].footer

\* The maps are functions, over the chunks of a run that was not refused.
RunIsWhole ==
  /\ stage = [c \in DOMAIN stage |-> stage[c]]
  /\ groups = [c \in DOMAIN groups |-> groups[c]]
  /\ files \in [DOMAIN files -> [rows : Seq(Chain), footer : BOOLEAN]]
  /\ pc = "start" => DOMAIN stage = {} /\ writing = None
  /\ pc = "running" => DOMAIN stage = TheChunks /\ config.size > 0
  /\ DOMAIN stage # {} => config.size > 0
  /\ result = "ok" => /\ DOMAIN stage = TheChunks /\ config.size > 0
                      /\ \A c \in DOMAIN stage : stage[c] = "done"
                      /\ failures = {}
  /\ result # None => pc = "returned"

\* Between the two steps of a refill permits are only taken.
RefillIsBounded == available # NoRead => permits <= available

\* The rows in hand are those of the chunk and type they are kept under.
GroupsAreSorted ==
  \A c \in DOMAIN stage : stage[c] = "writing" =>
    \A t \in DOMAIN groups[c] : groups[c][t] \in Sorted(RowsOfType(c, t))

\* The file that is being written has its rows still in hand.
OpenFileIsInHand ==
  writing # None =>
    /\ stage[writing.chunk] = "writing"
    /\ writing.type \in DOMAIN groups[writing.chunk]
    /\ FileName(writing.chunk, writing.type) \in DOMAIN files

\* Each type of a chunk that is being written is in hand, on disk or a failure of
\* its own, and logs without metadata are not forgotten.
TypesAreAccountedFor ==
  \A c \in DOMAIN stage : stage[c] = "writing" =>
    /\ \A t \in TypesIn(c) :
         \/ t \in DOMAIN groups[c]
         \/ Readable(FileName(c, t))
         \/ [what |-> "write", chunk |-> c, type |-> t] \in failures
    /\ LacksMetadata(c) => c \in missing

BackfillInv ==
  /\ TypeOK
  /\ RunIsWhole
  /\ RefillIsBounded
  /\ GroupsAreSorted
  /\ OpenFileIsInHand
  /\ TypesAreAccountedFor
  /\ FailuresNameEveryGap
  /\ ReadableFilesAreExact
=============================================================================
