SPECIFICATION Spec
CONSTANTS
  Calls = {c1, c2}
  MaxConnections = 1
  MaxParallel = 2
INVARIANT FallbackMeansNoListener
CHECK_DEADLOCK FALSE
