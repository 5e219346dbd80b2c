SPECIFICATION FairSpec
CONSTANTS
  Workers = {w1}
  Clients = {c1}
  Silent = {}
  MaxQueue = 2
  MaxSignals = 1
  Main = Main
  Cli = Cli
  Sig = Sig
  None = None
PROPERTY WakesAllThreads
CHECK_DEADLOCK FALSE
