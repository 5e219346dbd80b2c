SPECIFICATION Spec
CONSTANTS
  Workers = {w1, w2, w3}
  Clients = {c1, c2, c3, c4}
  Silent = {}
  MaxQueue = 2
  MaxSignals = 1
  Main = Main
  Cli = Cli
  Sig = Sig
  None = None
SYMMETRY Symmetry
INVARIANTS
  TypeOK
  OneOwner
  SleepersNotNeeded
  NoTaskAbandoned
  NoLostProducer
PROPERTY ImplementsPool
\* The server stops after "quit" or SIGINT: a state without successor is its end.
CHECK_DEADLOCK FALSE
