CONSTANTS
  a = a
  b = b
  c = c
  Ids = {a, b, c}
  MaxContainers = 2
  MaxCpus = 1
  MaxFd = 6
  MaxStarts = 1

SPECIFICATION Spec
PROPERTIES EventuallyMonitored EventuallyRemoved
CHECK_DEADLOCK FALSE
