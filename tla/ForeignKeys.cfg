SPECIFICATION FairSpec
CONSTANTS
  f1 = f1
  f2 = f2
  f3 = f3
  noKey = noKey
  FK <- MCFK
  Incoming <- MCIncoming
  None = noKey
  MaxRetries = 3
  MaxRuns = 2
INVARIANTS TypeOK BackupCoversMissing DetectionComplete
PROPERTIES CleanExitRestores OutgoingUntouched LedgerSpec EveryKeyReturns
CHECK_DEADLOCK FALSE
