------------------------------- MODULE Chunks -------------------------------
(***************************************************************************)
(* What chunk_ranges of src/backfill.rs returns, as a set: the chunks of   *)
(* size blocks from start on, the last one cut at end.  ChunkRanges has    *)
(* the loop, and its property ReturnsChunks says that it returns these.    *)
(***************************************************************************)
EXTENDS Naturals

ChunksOf(start, end, size) ==
  {[first |-> b, last |-> IF b + size - 1 < end THEN b + size - 1 ELSE end] :
     b \in {n \in start .. end : (n - start) % size = 0}}
=============================================================================
