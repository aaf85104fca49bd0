\* Every mode, every set of readable domains; the package's counter wraps at 3, DRAM's at 2.
CONSTANTS
  t1 = t1
  Tasks = {t1}
  MaxRange = 3
  PkgRange = 3
  DramRange = 2
  IdleConsumption = 1
  IdleMin = 1
  MaxEnergy = 2
  MaxCycles = 2
SPECIFICATION Spec
INVARIANTS TypeOK NoCycleCountedTwice
PROPERTIES TotalIsWindowEnergy PkgLedger DramLedger MoreThanTotalOnlyBy
