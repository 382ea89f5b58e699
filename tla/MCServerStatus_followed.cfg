SPECIFICATION Spec
CONSTANTS
  r1 = r1
  r2 = r2
  Requests <- OneRequest
  MaxInFlight = 2
  MaxBreaks = 1
INVARIANT StatusFollowed
CHECK_DEADLOCK FALSE
