\* The DRAM counter wraps at 2, the package counter at 3.
CONSTANTS
  PkgRange = 3
  DramRange = 2
  Measurements = 3
  LongMax = 100
  MaxEnergy = 1
SPECIFICATION Spec
INVARIANT IdleIsConsumption
CHECK_DEADLOCK FALSE
