SPECIFICATION Spec
CONSTANTS
  Stream = {a, b}
  Frames = 2
  RestartGap = 2
  PlcMax = 1
  DroppedGrace = 1
  GoneGrace = 2
  None = None
  Gone = Gone
  MaxSlot = 4
  MaxLost = 1
  MaxWall = 8
  MaxStall = 2
  MaxRestarts = 1
  MaxChanges = 1
  Lengths = {"longer"}
  ShortSlot = 3
  ShortWall = 5
SYMMETRY Symmetry
CONSTRAINT Bounded
INVARIANTS StreamsShareTheRound NothingWaitsTwice
PROPERTIES RetirementIsPrompt  DeadRunStaysDead 
CHECK_DEADLOCK FALSE
