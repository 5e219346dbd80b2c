SPECIFICATION FairSpec
CONSTANTS
  classic = classic
  desfire = desfire
  Cards = {classic, desfire}
  Double = {desfire}
  Shown <- MCShown
  Atqa <- MCAtqa
  Blocks = {1, 3}
  Sectors = 2
  Programs = {"read_card", "get_uid", "test", "micropython", "client"}
  CommandTries = 2
  TransceiveTries = 2
  FifoAttempts = 1
  Limits = {0, 255}
  MaxResets = 1
  Mixed = Mixed
  Garbled = Garbled
  Lucky = Lucky
  Own = Own
  None = None
INVARIANTS
  TypeOK
  OneCardPerTurn
PROPERTY CardRead
