SPECIFICATION Spec
CONSTANTS
  a = a
  b = b
  c = c
  outside = outside
  k1 = k1
  k2 = k2
  k3 = k3
  k4 = k4
  Table <- MCTable
  Planned <- MCPlanned
  FK <- MCFK
INVARIANTS TypeOK EachTableOnce ParentsFirst OnlyCyclesRemain EarliestLayer
CHECK_DEADLOCK FALSE
