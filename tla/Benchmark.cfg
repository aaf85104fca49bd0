CONSTANTS
  c = c
  java = java
  loop = loop
  sort = sort
  Langs = {c, java}
  Algs = {loop, sort}
  MaxDaemons = 1
SPECIFICATION Spec
INVARIANTS AllMeasured MisnamedIsRepeated IsolatedRuns CyclesOnlyOfDaemons 
PROPERTY Terminates
CHECK_DEADLOCK FALSE
