SPECIFICATION Spec
CONSTANT MaxSamples = 4
INVARIANTS SinceReset LogMatchesPrint
PROPERTY NotTwice
CHECK_DEADLOCK FALSE
