\* Requests that reach past u64::MAX.
SPECIFICATION Spec
CONSTANTS
  Requests <- MCRequests
  MaxU64 = 15
  MaxRanges = 16
INVARIANTS
  RangesAreOfRequest
