\* The files and the metrics of two processes over one directory.
SPECIFICATION Spec
CONSTANTS
  Logs <- MCLogs
  Configs <- MCConfigs
  MaxU64 = 5
  MaxU32 = 0
  MaxClock = 1
  MaxLogs = 4
  None = None
INVARIANTS
  IndInv
  TypeOK
  EveryRowIsKeptOnce
  GracefulExitKeepsEveryRow
  OpenRowsBelowTarget
  FilesSpanFlushBlocks
  GaugeFollowsStream
  TypeCountersMatchRows
  LogCountersMatchDeliveries
PROPERTIES
  FilesAreAppendOnly
  KeepsSinkContract
