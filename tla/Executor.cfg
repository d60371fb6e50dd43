SPECIFICATION Spec
CONSTANTS
  t1 = t1
  t2 = t2
  t3 = t3
  t4 = t4
  w1 = w1
  w2 = w2
  noTable = noTable
  panicError = panicError
  Table <- MCTable
  Layers <- MCLayers
  Worker <- MCWorker
  Parallel = 2
  Rows = 1
  Panicking <- MCPanicking
  NoTable = noTable
  PanicError = panicError
INVARIANTS TypeOK OneWorkerPerTable LayerBarrier ReturnedErrors SummaryAgrees NoGoroutineLeft
PROPERTIES StatusForward Termination
CHECK_DEADLOCK FALSE
