CONSTANTS
  Callers = {c1, c2}
  NoOne = NoOne
  CmdCap = 1
  MaxSessions = 2
  MaxCommands = 3
SPECIFICATION Spec
PROPERTIES WaitsOnlyForOthers 
CHECK_DEADLOCK FALSE
