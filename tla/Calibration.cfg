\* Three samples of two counters that wrap at 3.
CONSTANTS
  PkgRange = 3
  DramRange = 3
  Measurements = 3
  LongMax = 100
  MaxEnergy = 1
SPECIFICATION Spec
INVARIANTS TypeOK LastOrNothing MinBelowAverage IdleIsConsumption
CHECK_DEADLOCK FALSE
