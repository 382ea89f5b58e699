SPECIFICATION FairSpec
CONSTANTS
  MaxFrames = 3
  MaxLen = 4
  HeadLen = 2
  Buf = 3
CHECK_DEADLOCK FALSE
INVARIANTS
  KeepsStep HistoryWhole EndsForReason
PROPERTY
  EndsWithConnection
