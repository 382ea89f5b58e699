SPECIFICATION Spec
CONSTANTS
  r1 = r1  r2 = r2  r3 = r3  t1 = t1  t2 = t2
  None = None  Pending = Pending  Stdin = Stdin
  Requests <- ThreeRequests
  Kinds <- Views
  TaskIDs <- TwoTaskIDs
  MaxTasks = 1
INVARIANTS
  SlotsBounded
