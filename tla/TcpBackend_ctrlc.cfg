SPECIFICATION FairSpec
CONSTANTS
  Clients = {c1, c2}
  NumFds = 2
  None = None
PROPERTY GracefulShutdown
CHECK_DEADLOCK FALSE
