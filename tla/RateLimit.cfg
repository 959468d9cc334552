\* Two calls a second, ticks that are late by a second and more.
SPECIFICATION Spec
CONSTANTS
  MaxPerSecond = 2
  NoRead = NoRead
  Second = 2
  MaxDelay = 3
  MaxNow = 7
INVARIANTS
  TypeOK
  PermitsComeFromTicks
  AverageIsCapped
  WindowIsBounded
