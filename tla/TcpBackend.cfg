SPECIFICATION FairSpec
CONSTANTS
  Clients = {c1, c2, c3}
  NumFds = 2
  None = None
INVARIANTS
  TypeOK
  DescriptorsKnown
  NeverBlocks
  OneOwnAnswer
PROPERTY Answered
CHECK_DEADLOCK FALSE
