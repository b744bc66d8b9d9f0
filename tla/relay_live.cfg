SPECIFICATION FairSpec
CONSTANTS
  Conn = {c1, c2}
  Peer = {p1}
  Room = {r1}
  RoomObj = {o1, o2, o3}
  Password = {nopw, pw}
  NoPassword = nopw
  None = None
  StreamCounts = {1}
  MaxStreams = 1
  Capacity = 2
  Rejoin = {c1}
  Metrics = FALSE
  MaxRestarts = 1
PROPERTIES JoinAnswered EvictedConnectionEnds EmptyRoomForgotten
CHECK_DEADLOCK FALSE
