SPECIFICATION Spec
CONSTANTS
  users <- TwoUsers
  Stranger = "bob"
  Capacity = 3
  Home <- Distinct
  Workers = {w1, w2}
  Browsers = {b1, b2}
  ArenaSize = 3
  Cost <- Units
  None = None
  Garbled = Garbled
SYMMETRY Symmetry
INVARIANTS
  TypeOK
  OwnAnswers
