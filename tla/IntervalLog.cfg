\* Five records fit; an interval has up to six.
CONSTANTS
  Capacity = 5
  MaxEntries = 4
  MaxGpus = 1
  MaxIntervals = 4
SPECIFICATION Spec
INVARIANTS WholeIntervals AtMostOneMissing OverflowOnlyBy
CHECK_DEADLOCK FALSE
