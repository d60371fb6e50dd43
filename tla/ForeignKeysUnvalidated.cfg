SPECIFICATION Spec
CONSTANTS
  f1 = f1
  f2 = f2
  f3 = f3
  noKey = noKey
  FK <- MCFK
  Incoming <- MCIncoming
  None = noKey
  MaxRetries = 3
  MaxRuns = 2

PROPERTIES RecoveredKeysValidated
CHECK_DEADLOCK FALSE
