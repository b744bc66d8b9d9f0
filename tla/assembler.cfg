SPECIFICATION Spec
CONSTANTS
  Window = 3
  Threshold = 3
  Deadband = 1
  SlewMax = 1
  SlewMin = 2
  Length = {6, 7}
  Tempo = {1}
  Size = {1, 2, 4}
  Deviation <- Wild
  None = None
  MaxBeat = 18
  MaxChanges = 1
INVARIANTS NothingKeptBack PlacedByItsStamp
PROPERTY WindowsChain
CHECK_DEADLOCK FALSE
