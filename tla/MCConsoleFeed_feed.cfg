SPECIFICATION FairSpec
CONSTANTS
  c1 = c1  w1 = w1
  Greeting = Greeting  History = History  None = None
  Controllers <- OneController
  Terminals <- OneTerminal
  Patient <- OneTerminal
  MaxPieces = 1
CHECK_DEADLOCK FALSE
INVARIANTS
  TypeOK FramesWhole GreetingFirst NoGap
PROPERTIES
  WritersOfLiving FeedNotHeld AttachEnds ImplementsFeedPromise
