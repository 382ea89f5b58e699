SPECIFICATION FairSpec
CONSTANTS
  MaxSize = 7  Chunk = 3  SizeT = 32  BoundaryLen = 3  PartHead = 5
CHECK_DEADLOCK FALSE
INVARIANTS
  InOrder Served Stored
PROPERTIES
  TransferEnds
