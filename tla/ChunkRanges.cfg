\* Every request of a four-bit u64, in both builds.
SPECIFICATION FairSpec
CONSTANTS
  Requests <- MCRequests
  MaxU64 = 15
  MaxRanges = 16
INVARIANTS
  TypeOK
  LoopInv
  ReturnsPartition
  ReturnsChunks
PROPERTIES
  OrdinaryRequestsReturn
