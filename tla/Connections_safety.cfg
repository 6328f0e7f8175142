SPECIFICATION Spec
CONSTANTS
  Calls = {c1, c2, c3}
  MaxConnections = 1
  MaxParallel = 2
SYMMETRY CallSymmetry
INVARIANTS
  TypeOK
  OvershootBound
  RegisteredEntrySound
  FallbackJustified
  ChannelsAccounted
  SessionsAccounted
PROPERTIES
  AbortHonoured
  ImplementsLease
CHECK_DEADLOCK FALSE
