----------------------------- MODULE ChunkRanges -----------------------------
(***************************************************************************)
(* chunk_ranges of src/backfill.rs: the loop that cuts the blocks from     *)
(* start to end into ranges of size blocks, one step per iteration, in u64 *)
(* arithmetic.  A release build wraps an addition that overflows; a build  *)
(* with overflow checks panics.                                            *)
(***************************************************************************)
EXTENDS Chunks, Sequences

CONSTANTS
  MaxU64,     \* u64::MAX
  Requests,   \* the calls considered: [start, end, size, overflow_checks]
  MaxRanges   \* bound of the model: ranges pushed

ASSUME MaxU64Assumption == MaxU64 \in Nat

\* run() has checked that size is not 0.  overflow_checks is the build's: it
\* panics on overflow (debug) or wraps (release).
ASSUME RequestsAssumption ==
  Requests \subseteq [start : 0 .. MaxU64, end : 0 .. MaxU64, size : 1 .. MaxU64,
                      overflow_checks : BOOLEAN]

VARIABLES
  request,  \* the arguments, fixed
  current,
  ranges,   \* Vec<(u64, u64)>
  pc        \* loop, done, panicked

vars == <<request, current, ranges, pc>>

start  == request.start
end    == request.end
size   == request.size

Init ==
  /\ request \in Requests
  /\ current = request.start
  /\ ranges = <<>>
  /\ pc = "loop"

Overflows == request.overflow_checks /\ current + size > MaxU64

\* Mutants: a chunk with one block too many, and a last chunk that is not cut.
ChunkEndInclusive == IF current + size < end THEN current + size ELSE end

ChunkEndUncapped == current + size - 1

\* (current + size - 1).min(end)
ChunkEnd ==
  LET last == current + size - 1
      u64  == IF last > MaxU64 THEN last - (MaxU64 + 1) ELSE last
  IN IF u64 < end THEN u64 ELSE end

\* An iteration that breaks out, and one that goes on.
LastChunk ==
  /\ pc = "loop"
  /\ current <= end
  /\ ~Overflows
  /\ ChunkEnd = end
  /\ ranges' = Append(ranges, [first |-> current, last |-> end])
  /\ pc' = "done"
  /\ UNCHANGED <<request, current>>

\* Mutant: the next chunk starts with the last block of this one.
NextChunkOverlaps ==
  /\ pc = "loop"
  /\ current <= end
  /\ Len(ranges) < MaxRanges
  /\ ~Overflows
  /\ ChunkEnd # end
  /\ ranges' = Append(ranges, [first |-> current, last |-> ChunkEnd])
  /\ current' = ChunkEnd
  /\ UNCHANGED <<request, pc>>

NextChunk ==
  /\ pc = "loop"
  /\ current <= end
  /\ Len(ranges) < MaxRanges
  /\ ~Overflows
  /\ ChunkEnd # end
  /\ ranges' = Append(ranges, [first |-> current, last |-> ChunkEnd])
  /\ current' = ChunkEnd + 1
  /\ UNCHANGED <<request, pc>>

Panic ==
  /\ pc = "loop"
  /\ current <= end
  /\ Overflows
  /\ pc' = "panicked"
  /\ UNCHANGED <<request, current, ranges>>

\* The loop condition fails, which it does for an empty request.
NoChunk ==
  /\ pc = "loop"
  /\ current > end
  /\ pc' = "done"
  /\ UNCHANGED <<request, current, ranges>>

\* The call is over, or its ranges are more than the model keeps.
Ended == (pc # "loop" \/ Len(ranges) = MaxRanges) /\ UNCHANGED vars

Next == LastChunk \/ NextChunk \/ Panic \/ NoChunk \/ Ended

Spec == Init /\ [][Next]_vars

FairSpec == Spec /\ WF_vars(Next)

-----------------------------------------------------------------------------
TypeOK ==
  /\ request \in Requests
  /\ current \in 0 .. MaxU64
  /\ ranges \in Seq([first : 0 .. MaxU64, last : 0 .. MaxU64])
  /\ pc \in {"loop", "done", "panicked"}

\* A request that is far enough from the end of u64 not to overflow; every
\* block number of a chain is.
Ordinary == end + size <= MaxU64

\* The blocks of the ranges are those from start up to, but not including, n.
RangesCover(n) ==
  \A b \in 0 .. MaxU64 :
    (start <= b /\ b < n) <=>
      \E i \in DOMAIN ranges : ranges[i].first <= b /\ b <= ranges[i].last

\* No block is in two ranges, in whatever order the chunks are fetched.
RangesAreDisjoint ==
  \A i, j \in DOMAIN ranges :
    i < j => ranges[i].last < ranges[j].first

\* No range asks the provider for more than size blocks, or for none.
RangesFitSize ==
  \A i \in DOMAIN ranges :
    /\ ranges[i].first <= ranges[i].last
    /\ ranges[i].last - ranges[i].first < size

\* What the loop has pushed so far, for the ordinary requests.
LoopInv ==
  Ordinary =>
    /\ RangesAreDisjoint
    /\ RangesFitSize
    /\ pc = "loop" => /\ RangesCover(current)
                      /\ current >= start
                      /\ \A i \in DOMAIN ranges : ranges[i].last < current
    /\ pc = "loop" /\ current > end => current = start
    /\ pc = "done" => RangesCover(end + 1)
    /\ pc # "panicked"

\* chunk_ranges returns a partition of the blocks of its request: each block is
\* fetched once, by one chunk, and no other block is.
ReturnsPartition ==
  Ordinary /\ pc = "done" =>
    /\ \A b \in start .. end :
         \E i \in DOMAIN ranges : ranges[i].first <= b /\ b <= ranges[i].last
    /\ \A i \in DOMAIN ranges : start <= ranges[i].first /\ ranges[i].last <= end
    /\ RangesAreDisjoint
    /\ RangesFitSize

\* They are the chunks that Backfill fetches, in order of their blocks.
ReturnsChunks ==
  Ordinary /\ pc = "done" =>
    {ranges[i] : i \in DOMAIN ranges} = ChunksOf(start, end, size)

\* What makes it inductive: each iteration starts a multiple of size after start.
RangesAreChunks ==
  Ordinary =>
    /\ \A i \in DOMAIN ranges : ranges[i] \in ChunksOf(start, end, size)
    /\ pc = "loop" => (current - start) % size = 0

\* The loop ends, and does not panic.
OrdinaryRequestsReturn == Ordinary ~> pc = "done"

\* spec/0004_backfill-cli.md:11 has a file named {start}-{end}.parquet, "where
\* start/end are the block range covered by that file": the ranges are ranges,
\* and of the requested blocks.
RangesAreOfRequest ==
  \A i \in DOMAIN ranges :
    /\ ranges[i].first <= ranges[i].last
    /\ start <= ranges[i].first
    /\ ranges[i].last <= end
=============================================================================
