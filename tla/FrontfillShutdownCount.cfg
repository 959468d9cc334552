\* A close that fails skips the shutdown metrics.
SPECIFICATION Spec
CONSTANTS
  Logs <- MCOneLog
  Configs <- MCMetricsConfigs
  MaxU64 = 5
  MaxU32 = 0
  MaxClock = 0
  MaxLogs = 1
  None = None
PROPERTIES
  ShutdownSignalIsCounted
