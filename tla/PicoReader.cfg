SPECIFICATION FairSpec
CONSTANTS
  Cards <- TwoCards
  UidLen = 2
  Pcbs = {c1, c2}
  NULL = NULL
INVARIANTS
  TypeOK
  TimerWatches
  NeverBusy
  NoDangling
  OneConnection
  AnswerForCard
PROPERTY ServerCannotHold
