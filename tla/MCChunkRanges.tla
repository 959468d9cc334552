---------------------------- MODULE MCChunkRanges ----------------------------
(***************************************************************************)
(* Instances of ChunkRanges for TLC: every request of a small u64.         *)
(***************************************************************************)
EXTENDS ChunkRanges

MCRequests ==
  [start : 0 .. MaxU64, end : 0 .. MaxU64, size : 1 .. MaxU64,
   overflow_checks : BOOLEAN]
=============================================================================
