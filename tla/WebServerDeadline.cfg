SPECIFICATION Spec
CONSTANTS
  Connections = 2
  MaxClients = 1
  MaxChanges <- Changes
PROPERTIES ReadersKept
CHECK_DEADLOCK FALSE
