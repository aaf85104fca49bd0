\* Two entries of two events for three containers, each of which may start twice.
CONSTANTS
  a = a
  b = b
  c = c
  Ids = {a, b, c}
  MaxContainers = 2
  MaxCpus = 2
  MaxFd = 10
  MaxStarts = 2
SYMMETRY IdSymmetry
SPECIFICATION Spec
INVARIANTS TypeOK DistinctEntries UpdateOnce EventsMatchEntries NoEventLeaked EstimatedFromOwn
CHECK_DEADLOCK FALSE
