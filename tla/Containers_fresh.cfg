CONSTANTS
  a = a
  b = b
  Ids = {a, b}
  MaxContainers = 2
  MaxCpus = 1
  MaxFd = 8
  MaxStarts = 1
SYMMETRY IdSymmetry
SPECIFICATION Spec
INVARIANT FreshCounts
CHECK_DEADLOCK FALSE
