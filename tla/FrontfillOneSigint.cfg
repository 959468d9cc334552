\* One SIGINT may not be enough.
SPECIFICATION RecoveringSpec
CONSTANTS
  Logs <- MCOneLog
  Configs <- MCMetricsConfigs
  MaxU64 = 5
  MaxU32 = 1
  MaxClock = 0
  MaxLogs = 0
  None = None
PROPERTIES
  SigintStops
