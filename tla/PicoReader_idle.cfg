SPECIFICATION FairSpec
CONSTANTS
  Cards <- OneCard
  UidLen = 2
  Pcbs = {c1}
  NULL = NULL
PROPERTY BackToIdle
