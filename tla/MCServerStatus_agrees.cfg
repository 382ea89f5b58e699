SPECIFICATION Spec
CONSTANTS
  r1 = r1
  r2 = r2
  Requests <- TwoRequests
  MaxInFlight = 2
  MaxBreaks = 1
INVARIANTS
  TypeOK
  StatusAgrees
  WakesPaid
  SuspensionsPaid
  SuspendHeld
SYMMETRY Symmetric
\* The operators stop asking: a suspended game then stays suspended.
CHECK_DEADLOCK FALSE
