SPECIFICATION FairSpec
CONSTANTS
  Workers = {w1, w2}
  Clients = {c1, c2, c3}
  Silent = {c3}
  MaxQueue = 2
  MaxSignals = 0
  Main = Main
  Cli = Cli
  Sig = Sig
  None = None
PROPERTIES
  EventuallyServed
  ShutdownDrains
CHECK_DEADLOCK FALSE
