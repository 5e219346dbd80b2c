SPECIFICATION FairSpec
CONSTANTS
  users <- TwoUsers
  Stranger = "bob"
  Capacity = 3
  Home <- Colliding
  Workers = {w1, w2}
  Browsers = {b1}
  ArenaSize = 2
  Cost <- Units
  None = None
  Garbled = Garbled
INVARIANT OneSlotPerToken
PROPERTIES
  ImplementsSessionSet
  EveryRequestEnds
