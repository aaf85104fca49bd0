CONSTANTS
  a = a
  b = b
  c = c
  Ids = {a, b, c}
  MaxContainers = 3
  MaxCpus = 2
  MaxFd = 10
  MaxStarts = 1
SYMMETRY IdSymmetry
SPECIFICATION Spec
INVARIANT OwnCycles
CHECK_DEADLOCK FALSE
