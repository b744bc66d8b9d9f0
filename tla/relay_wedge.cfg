SPECIFICATION Spec
CONSTANTS
  Conn = {c1, c2, c3}
  Peer = {p1, p2}
  Room = {r1}
  RoomObj = {o1, o2, o3, o4}
  Password = {nopw}
  NoPassword = nopw
  None = None
  StreamCounts = {1}
  MaxStreams = 1
  Capacity = 2
  Rejoin = {}
  Metrics = TRUE
  MaxRestarts = 0
SYMMETRY Symmetry
INVARIANT HubNotWedged
CHECK_DEADLOCK FALSE
