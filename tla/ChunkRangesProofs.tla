-------------------------- MODULE ChunkRangesProofs --------------------------
(***************************************************************************)
(* Proofs, for every width of u64 and every set of requests, that          *)
(* chunk_ranges partitions the blocks of an ordinary request, into the     *)
(* chunks that Backfill fetches.                                           *)
(***************************************************************************)
EXTENDS ChunkRanges, TLAPS

Inv == TypeOK /\ LoopInv

LEMMA Element ==
  ASSUME NEW S, NEW s \in Seq(S), NEW i \in 1 .. Len(s)
  PROVE  s[i] \in S
OBVIOUS

\* What the arguments are.
LEMMA Arguments ==
  ASSUME request \in Requests
  PROVE  /\ start \in 0 .. MaxU64 /\ end \in 0 .. MaxU64 /\ size \in 1 .. MaxU64
         /\ MaxU64 \in Nat
BY MaxU64Assumption, RequestsAssumption DEF start, end, size

\* A chunk that starts in an ordinary request ends in it, size blocks later at
\* most, and stops short of the end of the request only when it is full.
LEMMA ChunkEndIsInRequest ==
  ASSUME TypeOK, Ordinary, current <= end
  PROVE  /\ ChunkEnd \in current .. end
         /\ ChunkEnd - current < size
         /\ ~(current + size > MaxU64)
BY Arguments DEF TypeOK, Ordinary, ChunkEnd

\* One more range, from current to last, after ranges that cover the blocks up
\* to current.
LEMMA PushRange ==
  ASSUME TypeOK, LoopInv, Ordinary, pc = "loop", current <= end,
         NEW last \in current .. end, last - current < size,
         ranges' = Append(ranges, [first |-> current, last |-> last]),
         UNCHANGED request
  PROVE  /\ ranges' \in Seq([first : 0 .. MaxU64, last : 0 .. MaxU64])
         /\ RangesAreDisjoint'
         /\ RangesFitSize'
         /\ RangesCover(last + 1)'
         /\ \A i \in DOMAIN ranges' : ranges'[i].last < last + 1
<1> DEFINE r == [first |-> current, last |-> last]
<1>1. /\ start \in 0 .. MaxU64 /\ end \in 0 .. MaxU64 /\ size \in 1 .. MaxU64
      /\ MaxU64 \in Nat /\ current \in 0 .. MaxU64 /\ last \in 0 .. MaxU64
  BY Arguments DEF TypeOK
<1>2. ranges \in Seq([first : 0 .. MaxU64, last : 0 .. MaxU64])
  BY DEF TypeOK
<1>3. r \in [first : 0 .. MaxU64, last : 0 .. MaxU64]
  BY <1>1
<1>4. ranges' \in Seq([first : 0 .. MaxU64, last : 0 .. MaxU64])
  BY <1>2, <1>3
<1>5. /\ DOMAIN ranges = 1 .. Len(ranges) /\ Len(ranges) \in Nat
      /\ DOMAIN ranges' = 1 .. (Len(ranges) + 1)
      /\ \A i \in 1 .. Len(ranges) : ranges'[i] = ranges[i]
      /\ ranges'[Len(ranges) + 1] = r
  BY <1>2, <1>3
<1>6. \A i \in 1 .. Len(ranges) : ranges[i].first \in Nat /\ ranges[i].last \in Nat
  <2> TAKE i \in 1 .. Len(ranges)
  <2>1. ranges[i] \in [first : 0 .. MaxU64, last : 0 .. MaxU64]
    BY <1>2, Element
  <2> QED BY <1>1, <2>1
<1>7. /\ RangesAreDisjoint /\ RangesFitSize /\ RangesCover(current)
      /\ current >= start
      /\ \A i \in DOMAIN ranges : ranges[i].last < current
  BY DEF LoopInv
<1>8. start' = start /\ end' = end /\ size' = size
  BY DEF start, end, size
<1> HIDE DEF r
<1>9. r.first = current /\ r.last = last
  BY DEF r
<1>10. RangesAreDisjoint'
  <2> SUFFICES ASSUME NEW i \in 1 .. (Len(ranges) + 1), NEW j \in 1 .. (Len(ranges) + 1),
                      i < j
               PROVE  ranges'[i].last < ranges'[j].first
    BY <1>5 DEF RangesAreDisjoint
  <2>1. CASE j = Len(ranges) + 1
    BY <2>1, <1>5, <1>7, <1>9
  <2>2. CASE j # Len(ranges) + 1
    BY <2>2, <1>5, <1>7 DEF RangesAreDisjoint
  <2> QED BY <2>1, <2>2
<1>11. RangesFitSize'
  <2> SUFFICES ASSUME NEW i \in 1 .. (Len(ranges) + 1)
               PROVE  /\ ranges'[i].first <= ranges'[i].last
                      /\ ranges'[i].last - ranges'[i].first < size
    BY <1>5, <1>8 DEF RangesFitSize
  <2> QED BY <1>1, <1>5, <1>7, <1>9 DEF RangesFitSize
<1>12. RangesCover(last + 1)'
  <2> SUFFICES ASSUME NEW b \in 0 .. MaxU64
               PROVE  (start <= b /\ b < last + 1) <=>
                        \E i \in 1 .. (Len(ranges) + 1) :
                          ranges'[i].first <= b /\ b <= ranges'[i].last
    BY <1>5, <1>8 DEF RangesCover
  <2>1. (start <= b /\ b < current) <=>
          \E i \in 1 .. Len(ranges) : ranges[i].first <= b /\ b <= ranges[i].last
    BY <1>5, <1>7 DEF RangesCover
  <2>2. (\E i \in 1 .. (Len(ranges) + 1) :
           ranges'[i].first <= b /\ b <= ranges'[i].last)
        <=> \/ \E i \in 1 .. Len(ranges) : ranges[i].first <= b /\ b <= ranges[i].last
            \/ current <= b /\ b <= last
    BY <1>5, <1>9
  <2> QED BY <2>1, <2>2, <1>1, <1>7
<1>13. \A i \in DOMAIN ranges' : ranges'[i].last < last + 1
  BY <1>1, <1>5, <1>6, <1>7, <1>9
<1> QED BY <1>4, <1>10, <1>11, <1>12, <1>13

\* The loop invariant holds when the loop is entered.
LEMMA Entered == Init => Inv
<1> SUFFICES ASSUME Init PROVE Inv
  OBVIOUS
<1>1. TypeOK
  BY Arguments DEF Init, TypeOK, start
<1>2. ranges = <<>> /\ current = start /\ pc = "loop"
  BY DEF Init, start
<1>3. LoopInv
  BY <1>1, <1>2, Arguments
     DEF TypeOK, LoopInv, RangesAreDisjoint, RangesFitSize, RangesCover
<1> QED BY <1>1, <1>3 DEF Inv

\* Every iteration keeps it.
LEMMA Iterated == Inv /\ [Next]_vars => Inv'
<1> SUFFICES ASSUME Inv, [Next]_vars PROVE Inv'
  OBVIOUS
<1> USE DEF Inv
<1>0. /\ start \in 0 .. MaxU64 /\ end \in 0 .. MaxU64 /\ size \in 1 .. MaxU64
      /\ MaxU64 \in Nat /\ current \in 0 .. MaxU64
  BY Arguments DEF TypeOK
<1>1. CASE LastChunk
  <2>1. request' = request /\ current' = current /\ pc = "loop" /\ pc' = "done"
        /\ current <= end /\ ChunkEnd = end
        /\ ranges' = Append(ranges, [first |-> current, last |-> end])
    BY <1>1 DEF LastChunk
  <2>2. start' = start /\ end' = end /\ size' = size /\ (Ordinary' <=> Ordinary)
    BY <2>1 DEF start, end, size, Ordinary
  <2>3. TypeOK'
    BY <1>0, <2>1 DEF TypeOK
  <2>4. LoopInv'
    <3> SUFFICES ASSUME Ordinary PROVE LoopInv'
      BY <2>2 DEF LoopInv
    <3>1. end \in current .. end /\ end - current < size
      BY <2>1, ChunkEndIsInRequest
    <3>2. PICK last \in current .. end : last = end
      BY <3>1
    <3>3. RangesAreDisjoint' /\ RangesFitSize' /\ RangesCover(last + 1)'
      BY <2>1, <3>1, <3>2, PushRange
    <3>4. RangesCover(end + 1)'
      BY <2>2, <3>2, <3>3 DEF RangesCover
    <3> QED BY <2>1, <3>3, <3>4 DEF LoopInv
  <2> QED BY <2>3, <2>4
<1>2. CASE NextChunk
  <2>1. request' = request /\ pc = "loop" /\ pc' = "loop"
        /\ current <= end /\ ChunkEnd # end /\ current' = ChunkEnd + 1
        /\ ranges' = Append(ranges, [first |-> current, last |-> ChunkEnd])
    BY <1>2 DEF NextChunk
  <2>2. start' = start /\ end' = end /\ size' = size /\ (Ordinary' <=> Ordinary)
    BY <2>1 DEF start, end, size, Ordinary
  <2>3. ChunkEnd \in 0 .. end
    BY <1>0 DEF ChunkEnd
  <2>4. TypeOK'
    BY <1>0, <2>1, <2>3 DEF TypeOK
  <2>5. LoopInv'
    <3> SUFFICES ASSUME Ordinary PROVE LoopInv'
      BY <2>2 DEF LoopInv
    <3>1. ChunkEnd \in current .. end /\ ChunkEnd - current < size
      BY <2>1, ChunkEndIsInRequest
    <3>2. PICK last \in current .. end : last = ChunkEnd
      BY <3>1
    <3>3. /\ RangesAreDisjoint' /\ RangesFitSize' /\ RangesCover(last + 1)'
          /\ \A i \in DOMAIN ranges' : ranges'[i].last < last + 1
      BY <2>1, <3>1, <3>2, PushRange
    <3>4. current' = last + 1 /\ current' <= end /\ current' >= start
      BY <1>0, <2>1, <3>2 DEF LoopInv
    <3>5. RangesCover(current)'
      BY <3>3, <3>4 DEF RangesCover
    <3>6. \A i \in DOMAIN ranges' : ranges'[i].last < current'
      BY <3>3, <3>4
    <3>7. /\ pc' = "loop"
          /\ current' >= start'
          /\ ~(current' > end')
      BY <1>0, <2>2, <2>1, <3>2, <3>4
    <3> QED BY <3>3, <3>5, <3>6, <3>7 DEF LoopInv
  <2> QED BY <2>4, <2>5
<1>3. CASE Panic
  <2>1. request' = request /\ current' = current /\ ranges' = ranges /\ pc' = "panicked"
        /\ current <= end /\ current + size > MaxU64
    BY <1>3 DEF Panic, Overflows
  <2>2. TypeOK'
    BY <2>1 DEF TypeOK
  <2>3. ~Ordinary'
    BY <1>0, <2>1 DEF Ordinary, end, size
  <2> QED BY <2>2, <2>3 DEF LoopInv
<1>4. CASE NoChunk
  <2>1. request' = request /\ current' = current /\ ranges' = ranges
        /\ pc = "loop" /\ pc' = "done" /\ current > end
    BY <1>4 DEF NoChunk
  <2>2. TypeOK'
    BY <2>1 DEF TypeOK
  <2>3. start' = start /\ end' = end /\ size' = size /\ (Ordinary' <=> Ordinary)
    BY <2>1 DEF start, end, size, Ordinary
  <2>4. LoopInv'
    <3> SUFFICES ASSUME Ordinary PROVE LoopInv'
      BY <2>3 DEF LoopInv
    <3>1. /\ current = start /\ RangesAreDisjoint /\ RangesFitSize
          /\ RangesCover(current)
      BY <2>1 DEF LoopInv
    <3>2. RangesAreDisjoint' /\ RangesFitSize'
      BY <2>1, <2>3, <3>1 DEF RangesAreDisjoint, RangesFitSize
    <3>3. RangesCover(end + 1)'
      BY <1>0, <2>1, <2>3, <3>1 DEF RangesCover
    <3> QED BY <2>1, <2>3, <3>2, <3>3 DEF LoopInv, RangesCover
  <2> QED BY <2>2, <2>4
<1>5. CASE UNCHANGED vars
  BY <1>5 DEF vars, TypeOK, LoopInv, Ordinary, start, end, size,
              RangesAreDisjoint, RangesFitSize, RangesCover
<1> QED BY <1>1, <1>2, <1>3, <1>4, <1>5 DEF Next, Ended

\* The loop of chunk_ranges keeps its invariant: what it has pushed is disjoint,
\* of at most size blocks each, and exactly the blocks before current.
THEOREM LoopInvariance == Spec => []LoopInv
<1>1. Spec => []Inv
  BY Entered, Iterated, PTL DEF Spec
<1>2. Inv => LoopInv
  BY DEF Inv
<1> QED BY <1>1, <1>2, PTL

\* chunk_ranges returns a partition of the blocks of every ordinary request.
THEOREM Partition == Spec => []ReturnsPartition
<1>1. Spec => []Inv
  BY Entered, Iterated, PTL DEF Spec
<1>2. Inv => ReturnsPartition
  <2> SUFFICES ASSUME Inv, Ordinary, pc = "done" PROVE ReturnsPartition
    BY DEF ReturnsPartition
  <2>1. /\ start \in 0 .. MaxU64 /\ end \in 0 .. MaxU64 /\ MaxU64 \in Nat
        /\ ranges \in Seq([first : 0 .. MaxU64, last : 0 .. MaxU64])
    BY Arguments DEF Inv, TypeOK
  <2>2. RangesAreDisjoint /\ RangesFitSize /\ RangesCover(end + 1)
    BY DEF Inv, LoopInv
  <2>3. ASSUME NEW b \in start .. end
        PROVE  \E i \in DOMAIN ranges : ranges[i].first <= b /\ b <= ranges[i].last
    <3>1. b \in 0 .. MaxU64 /\ start <= b /\ b < end + 1
      BY <2>1
    <3> QED BY <2>2, <3>1 DEF RangesCover
  <2>4. ASSUME NEW i \in DOMAIN ranges
        PROVE  start <= ranges[i].first /\ ranges[i].last <= end
    <3>0. ranges[i] \in [first : 0 .. MaxU64, last : 0 .. MaxU64]
      <4>1. i \in 1 .. Len(ranges)
        BY <2>1
      <4> QED BY <2>1, <4>1, Element
    <3>1. ranges[i].first \in 0 .. MaxU64 /\ ranges[i].last \in 0 .. MaxU64
      BY <3>0
    <3>2. ranges[i].first <= ranges[i].last
      BY <2>2 DEF RangesFitSize
    <3>3. start <= ranges[i].first
      BY <2>1, <2>2, <3>1, <3>2 DEF RangesCover
    <3>4. ranges[i].last < end + 1
      BY <2>1, <2>2, <3>1, <3>2 DEF RangesCover
    <3> QED BY <2>1, <3>1, <3>3, <3>4
  <2> QED BY <2>2, <2>3, <2>4 DEF ReturnsPartition
<1> QED BY <1>1, <1>2, PTL

\* The loop of chunk_ranges keeps its variables within u64, whatever overflows.
THEOREM ChunkTypeCorrect == Spec => []TypeOK
<1>1. Spec => []Inv
  BY Entered, Iterated, PTL DEF Spec
<1>2. Inv => TypeOK
  BY DEF Inv
<1> QED BY <1>1, <1>2, PTL

-----------------------------------------------------------------------------
(* The ranges are the chunks *)

LEMMA MultipleIsProduct ==
  ASSUME NEW s \in Nat, s > 0, NEW a \in Nat, a % s = 0
  PROVE  \E p \in Nat : a = s * p
OBVIOUS

LEMMA NextMultiple ==
  ASSUME NEW s \in Nat, s > 0, NEW a \in Nat, a % s = 0
  PROVE  (a + s) % s = 0
<1>1. PICK p \in Nat : a = s * p
  BY MultipleIsProduct
<1>2. PICK q \in Nat : q = p + 1
  OBVIOUS
<1>3. a + s = s * q
  BY <1>1, <1>2
<1>4. (s * q) % s = 0
  OBVIOUS
<1> QED BY <1>3, <1>4

LEMMA MultiplesAreApart ==
  ASSUME NEW s \in Nat, s > 0, NEW a \in Nat, NEW b \in Nat,
         a % s = 0, b % s = 0, a < b
  PROVE  a + s <= b
<1>1. PICK p \in Nat : a = s * p
  BY MultipleIsProduct
<1>2. PICK q \in Nat : b = s * q
  BY MultipleIsProduct
<1> QED BY <1>1, <1>2

ChunkInv == Inv /\ RangesAreChunks

\* One more chunk after ranges that are chunks.
LEMMA PushChunk ==
  ASSUME TypeOK, RangesAreChunks, Ordinary, NEW r \in ChunksOf(start, end, size),
         ranges' = Append(ranges, r), UNCHANGED request
  PROVE  \A i \in DOMAIN ranges' : ranges'[i] \in ChunksOf(start, end, size)'
<1>1. ranges \in Seq([first : 0 .. MaxU64, last : 0 .. MaxU64])
  BY DEF TypeOK
<1>2. /\ DOMAIN ranges = 1 .. Len(ranges) /\ Len(ranges) \in Nat
      /\ DOMAIN ranges' = 1 .. (Len(ranges) + 1)
      /\ \A i \in 1 .. Len(ranges) : ranges'[i] = ranges[i]
      /\ ranges'[Len(ranges) + 1] = r
  BY <1>1
<1>3. ChunksOf(start, end, size)' = ChunksOf(start, end, size)
  BY DEF start, end, size
<1>4. \A i \in 1 .. Len(ranges) : ranges[i] \in ChunksOf(start, end, size)
  BY <1>2 DEF RangesAreChunks
<1> QED BY <1>2, <1>3, <1>4

LEMMA ChunkInvInit == Init => ChunkInv
<1> SUFFICES ASSUME Init PROVE ChunkInv
  OBVIOUS
<1>1. Inv
  BY Entered
<1>2. ranges = <<>> /\ current = start /\ start \in Nat /\ size \in Nat /\ size > 0
  BY <1>1, Arguments DEF Init, start, Inv, TypeOK
<1>3. (current - start) % size = 0
  BY <1>2
<1> QED BY <1>1, <1>2, <1>3 DEF ChunkInv, RangesAreChunks

LEMMA ChunkInvNext == ChunkInv /\ [Next]_vars => ChunkInv'
<1> SUFFICES ASSUME ChunkInv, [Next]_vars PROVE ChunkInv'
  OBVIOUS
<1> USE DEF ChunkInv
<1>1. Inv'
  BY Iterated
<1>2. TypeOK /\ LoopInv
  BY DEF Inv
<1>3. /\ start \in Nat /\ end \in Nat /\ size \in Nat /\ size > 0
      /\ MaxU64 \in Nat /\ current \in Nat /\ start <= MaxU64 /\ end <= MaxU64
  BY <1>2, Arguments DEF TypeOK
<1>4. ASSUME LastChunk \/ NextChunk, Ordinary'
      PROVE  RangesAreChunks'
  <2>1. /\ request' = request /\ pc = "loop" /\ current <= end
        /\ ranges' = Append(ranges, [first |-> current, last |-> ChunkEnd])
    BY <1>4 DEF LastChunk, NextChunk
  <2>2. /\ start' = start /\ end' = end /\ size' = size /\ Ordinary
        /\ ChunksOf(start, end, size)' = ChunksOf(start, end, size)
    BY <1>4, <2>1 DEF start, end, size, Ordinary
  <2>3. current >= start /\ (current - start) % size = 0
    BY <1>2, <2>1, <2>2 DEF LoopInv, RangesAreChunks
  <2>4. ChunkEnd = IF current + size - 1 < end THEN current + size - 1 ELSE end
    BY <1>3, <2>1, <2>2 DEF ChunkEnd, Ordinary
  <2>5. [first |-> current, last |-> ChunkEnd] \in ChunksOf(start, end, size)
    <3>1. current \in start .. end
      BY <1>3, <2>1, <2>3
    <3> QED BY <2>3, <2>4, <3>1 DEF ChunksOf
  <2>6. \A i \in DOMAIN ranges' : ranges'[i] \in ChunksOf(start, end, size)'
    BY <1>2, <2>1, <2>2, <2>5, PushChunk
  <2>7. CASE LastChunk
    BY <2>6, <2>7 DEF LastChunk, RangesAreChunks
  <2>8. CASE NextChunk
    <3>1. current' = current + size
      BY <1>3, <2>4, <2>8 DEF NextChunk
    <3>2. PICK a \in Nat : a = current - start
      BY <1>3, <2>3
    <3>3. (a + size) % size = 0
      BY <1>3, <2>3, <3>2, NextMultiple
    <3>4. current' - start' = a + size
      BY <1>3, <2>2, <3>1, <3>2
    <3> QED BY <2>2, <2>6, <3>3, <3>4 DEF RangesAreChunks
  <2> QED BY <1>4, <2>7, <2>8
<1>5. CASE NoChunk \/ UNCHANGED vars
  <2>1. request' = request /\ current' = current /\ ranges' = ranges /\ (pc' = "loop" => pc = "loop")
    BY <1>5 DEF NoChunk, vars
  <2>2. start' = start /\ end' = end /\ size' = size
    BY <2>1 DEF start, end, size
  <2> QED BY <1>1, <2>1, <2>2 DEF RangesAreChunks, Ordinary
<1>6. CASE Panic
  BY <1>1, <1>6 DEF Panic, Inv, LoopInv, RangesAreChunks
<1> QED BY <1>1, <1>4, <1>5, <1>6 DEF Next, Ended, RangesAreChunks

\* chunk_ranges returns the chunks that Backfill fetches, for every ordinary
\* request: the closed form that Backfill starts from is what the loop computes.
THEOREM ChunksReturned == Spec => []ReturnsChunks
<1>1. Spec => []ChunkInv
  BY ChunkInvInit, ChunkInvNext, PTL DEF Spec
<1>2. ChunkInv => ReturnsChunks
  <2> SUFFICES ASSUME ChunkInv, Ordinary, pc = "done"
               PROVE  {ranges[i] : i \in DOMAIN ranges} = ChunksOf(start, end, size)
    BY DEF ReturnsChunks
  <2>1. /\ start \in Nat /\ end \in Nat /\ size \in Nat /\ size > 0
        /\ MaxU64 \in Nat /\ start <= MaxU64 /\ end <= MaxU64
    BY Arguments DEF ChunkInv, Inv, TypeOK
  <2>2. /\ RangesCover(end + 1) /\ RangesFitSize
        /\ \A i \in DOMAIN ranges : ranges[i] \in ChunksOf(start, end, size)
    BY DEF ChunkInv, Inv, LoopInv, RangesAreChunks
  <2>3. ASSUME NEW c \in ChunksOf(start, end, size)
        PROVE  \E i \in DOMAIN ranges : ranges[i] = c
    <3>1. /\ c.first \in Nat /\ start <= c.first /\ c.first <= end
          /\ (c.first - start) % size = 0
          /\ \A d \in ChunksOf(start, end, size) : d.first = c.first => d = c
      BY <2>1 DEF ChunksOf
    <3>2. PICK i \in DOMAIN ranges : ranges[i].first <= c.first /\ c.first <= ranges[i].last
      <4>1. PICK b \in 0 .. MaxU64 : b = c.first
        BY <2>1, <3>1
      <4>2. start <= b /\ b < end + 1
        BY <2>1, <3>1, <4>1
      <4>3. \E i \in DOMAIN ranges : ranges[i].first <= b /\ b <= ranges[i].last
        BY <2>2, <4>2 DEF RangesCover
      <4> QED BY <4>1, <4>3
    <3>3. PICK d \in ChunksOf(start, end, size) : d = ranges[i]
      BY <2>2
    <3>4. /\ d.first \in Nat /\ d.last \in Nat /\ start <= d.first
          /\ (d.first - start) % size = 0 /\ d.last - d.first < size
      BY <2>1, <2>2, <3>3 DEF ChunksOf, RangesFitSize
    <3>5. PICK a \in Nat : a = d.first - start
      BY <2>1, <3>4
    <3>6. PICK b \in Nat : b = c.first - start
      BY <2>1, <3>1
    <3>7. a < b => a + size <= b
      BY <2>1, <3>1, <3>4, <3>5, <3>6, MultiplesAreApart
    <3>8. a = b
      BY <2>1, <3>1, <3>2, <3>3, <3>4, <3>5, <3>6, <3>7
    <3>9. d.first = c.first
      BY <2>1, <3>1, <3>4, <3>5, <3>6, <3>8
    <3> QED BY <3>1, <3>3, <3>9
  <2> QED BY <2>2, <2>3
<1> QED BY <1>1, <1>2, PTL
=============================================================================
