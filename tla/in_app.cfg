CONSTANTS
  Bpis = {1, 2}
  FramesIn <- MCFramesIn
  BoundaryCap = 1
  WaifCap = 2
  MaxBeat = 2
  MaxTasks = 2
SPECIFICATION SendersSpec
PROPERTIES RoundsAreClosed StoppedTasksEnd
CONSTRAINT OneKind
CHECK_DEADLOCK FALSE
