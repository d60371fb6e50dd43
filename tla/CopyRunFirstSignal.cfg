SPECIFICATION Spec
CONSTANTS
  k1 = k1
  k2 = k2
  FK <- MCFK
  MaxSignals = 3
INVARIANTS FirstSignalIsGraceful
CHECK_DEADLOCK FALSE
