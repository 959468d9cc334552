\* Losing the stream and getting it back, and stopping.
SPECIFICATION RecoveringSpec
CONSTANTS
  Logs <- MCOneLog
  Configs <- MCStreamConfigs
  MaxU64 = 5
  MaxU32 = 7
  MaxClock = 0
  MaxLogs = 2
  None = None
PROPERTIES
  BackoffDoubles
  Reconnects
  RepeatedSigintStops
