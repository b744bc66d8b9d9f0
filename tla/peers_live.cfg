SPECIFICATION Spec
CONSTANTS
  p1 = p1
  p2 = p2
  i1 = i1
  Nothing = Nothing
  Peer = {p1, p2}
  Identity = {i1}
  IdOf <- MCIdOf
  Stream = {0}
  NSlots = 2
  Soft = 0
  Hard = 1
  Silent = 1
  MaxLosses = 1
  MaxBlips = 1
  MaxSays = 0
  Players = {}
PROPERTIES FirstHelloCompletes 
