SPECIFICATION ViewSpec
SYMMETRY ViewSymmetry
CONSTANTS
  Ids = {i1, i2, i3, i4}
  MaxNodes = 3
  MaxEdges = 3
  RenderNodes = 2
  RenderEdges = 2
  MaxCells = 4
  Turns = {t1, t2}
  MaxEvents = 6
  DataNodes <- MCDataNodes
  DataEdges <- MCDataEdges
  PaletteSize = 2
  TooltipMax = 2
  MaxElements = 3
  DescRows <- MCDescRows
  MaxTypes = 4
INVARIANTS
  ViewTypeOK
  NothingLostSilently
  PlaceholdersLackCells
  NoDanglingDrawn
  FinalGraphDrawn
  NoStrandedOverlay
  ElementShown
  SchemaFaithful
CHECK_DEADLOCK FALSE
