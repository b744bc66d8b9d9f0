SPECIFICATION Spec
CONSTANTS
  NumSlots = 2
  Modulus = 4
  Buffer <- MCBuffer
  Nothing = Nothing
  MaxBuffers = 5
  MaxWindows = 2
  MaxFrames = 4
  SeqModulus = 8
  FirstSeq = 6
  PaceDepth = 1
  OutDepth = 1
  RelayDepth = 1
  InDepth = 1
INVARIANTS SlotNotShared  LossIsExact
PROPERTY RingIsQueue
