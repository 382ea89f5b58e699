SPECIFICATION Spec
CONSTANTS
  MaxFrames = 2
  MaxLen = 3
  HeadLen = 2
  Buf = 4
CHECK_DEADLOCK FALSE
INVARIANT
  LengthDecides
