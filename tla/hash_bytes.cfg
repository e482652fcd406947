CONSTANTS
  Size = 3
  ByteBits = 2
SPECIFICATION Spec
INVARIANTS
  CarryLoopAddsOnRing
  InRangeIsClockwise
  DistanceForward
CHECK_DEADLOCK FALSE
