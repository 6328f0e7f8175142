SPECIFICATION FairSpec
CONSTANTS
  Calls = {c1, c2}
  MaxConnections = 1
  MaxParallel = 2
PROPERTIES
  ConnectSettles
  ClosingCompletes
CHECK_DEADLOCK FALSE
