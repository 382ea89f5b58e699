SPECIFICATION FairSpec
CONSTANTS
  MaxNodes = 3
  NodeSize = 3
  MaxText = 7
  MaxWritten = 12
INVARIANTS
  TypeOK ListConsistent GotFits
PROPERTIES
  ImplementsRecentText AppendEnds
