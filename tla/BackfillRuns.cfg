\* Runs over one directory, that fail in part, crash and are repeated.
SPECIFICATION FairSpec
CONSTANTS
  Chain <- MCChain
  Configs <- MCConfigs
  MaxPerSecond = 1
  NoRead = NoRead
  None = None
INVARIANTS
  TypeOK
  FailuresNameEveryGap
  OkMeansComplete
  ReadableFilesAreExact
PROPERTIES
  RunEnds
