SPECIFICATION Spec
CONSTANTS
  Row <- MCRow
  BatchSize = 2
  RowsPerStatement = 1
  ClearAttempts = 3
  MaxWrites = 2
INVARIANTS AllOrNothing CopyComplete NoRowTwice CommittedPrefix ProgressExact
PROPERTIES EverythingEnds
CHECK_DEADLOCK FALSE
