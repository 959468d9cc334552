\* A backfill of the first block, and two frontfill processes.
SPECIFICATION HandoffSpec
CONSTANTS
  Chain <- MCChain
  BackfillEnd = 1
  MaxHead = 3
  MaxSubscriptions = 3
  Logs <- MCLogs
  Configs <- MCConfigs
  MaxU64 = 6
  MaxU32 = 0
  MaxClock = 1
  MaxLogs = 5
  None = None
INVARIANTS
  HandoffIsComplete
  RepeatsAreOfReplays
