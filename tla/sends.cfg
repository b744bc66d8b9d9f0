SPECIFICATION Spec
CONSTANTS
  Channel = {c1}
  Key = {k1}
  RoomKey = {}
  Remembered = {k1}
  None = None
  MaxStreams = 2
  MaxStarts = 2
  MaxActs = 3
  Sender = {tone}
  UserStream = {9}
  Capacity = 2
  Declared = 1
  MaxDrops = 1
INVARIANTS SourcesAreOwned
PROPERTIES   ClosedDrainsEnd StopReturns
CHECK_DEADLOCK FALSE
