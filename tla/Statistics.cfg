\* Sums up to 5 in words of 8 values; one restart.
CONSTANTS
  Word = 8
  MaxUsage = 5
  MaxRestarts = 1
SPECIFICATION Spec
INVARIANTS TypeOK IntervalIsUsage LogMatchesInterval
