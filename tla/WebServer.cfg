SPECIFICATION Spec
CONSTANTS
  Connections = 2
  MaxClients = 1
  MaxChanges <- Changes
INVARIANTS OutcomeOnItsWay RowCountsOnTheirWay NoReaderForgotten
PROPERTIES BroadcastsForward HandlersEnd
CHECK_DEADLOCK FALSE
