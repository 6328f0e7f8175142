SPECIFICATION FairSpec
CONSTANTS
  g1 = g1
  g2 = g2
  t1 = t1
  t2 = t2
  Calls = {c1, c2}
  Graphs = {g1, g2}
  GraphTypes = {t1, t2}
  NoGraph = NoGraph
  NoType = NoType
  NoCall = NoCall
  NoListing = NoListing
  FirstCatalogs <- MCFirstCatalogs
  MaxSegments = 2
  MaxChanged = 1
INVARIANTS TypeOK OneFetchPerType PresentedWithKeys TrackingExact SchemaOnSessionGraph
PROPERTIES CallsSettle
CHECK_DEADLOCK FALSE
