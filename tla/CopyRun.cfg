SPECIFICATION FairSpec
CONSTANTS
  k1 = k1
  k2 = k2
  FK <- MCFK
  MaxSignals = 3
INVARIANTS VitalWhileKeysMissing KeysAccountedFor HonestStatus GraceHonoured
PROPERTIES OutcomeFinal SignalEnds PreparedRunEnds
CHECK_DEADLOCK FALSE
