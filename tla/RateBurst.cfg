\* Two calls a second, ticks on time.
SPECIFICATION Spec
CONSTANTS
  MaxPerSecond = 2
  NoRead = NoRead
  Second = 2
  MaxDelay = 0
  MaxNow = 4
INVARIANTS
  EverySecondIsCapped
