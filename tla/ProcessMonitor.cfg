\* Three entries naming either of two processes in any state; any read may fail.
CONSTANTS
  p1 = p1
  p2 = p2
  N = 3
  Procs = {p1, p2}
SPECIFICATION Spec
INVARIANTS TypeOK Ordered DroppedAsRead EventsOfListed SweepOnce
PROPERTIES Terminates GoneRemoved
CHECK_DEADLOCK FALSE
