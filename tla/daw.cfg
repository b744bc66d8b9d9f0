SPECIFICATION DawSpec
CONSTANTS
  Peer = {1, 2}
  Identity <- MCIdentity
  PeerId <- MCPeerId
  JoinBpm <- MCJoinBpm
  Bpm = {12000, 14000}
  DefaultBpm = 12000
  Clock = {1, 2}
  MaxDrops = 1
  MaxActs = 2
  MaxRejects = 1
  Shapes = TRUE
  Overlap = FALSE
  Daws = {1}
  Band = 1
  Regime = 50
  Snap = 10
  Whole = 100
  Floor = 2
  Window = 4
  Hold = 1
  Guard = 1
  Depth = 1
  MaxTurns = 1
INVARIANTS   StampNamesOneTempo
PROPERTIES  StampsOnlyGrow
CHECK_DEADLOCK FALSE
CONSTRAINT Bounded
