SPECIFICATION ColumnSpec
SYMMETRY TypeSymmetry
CONSTANTS
  NodeTypes = {A, B}
  EdgeTypes = {E}
  Props = {x, y}
  MaxHops = 1
  ByteBase = 4
  SafeMax = 1000
  YearRange = 8
  ZoneRange = 64
  Mantissas <- MCMantissas
  MonthsPerYear = 2
  DaysPerMonth = 2
  HoursPerDay = 2
  MinutesPerHour = 2
  SecondsPerMinute = 2
  MillisPerSecond = 2
  MicrosPerMilli = 2
  TwoDigitYears = 2
  Century = 4
  Samples <- MCSamples
  Texts <- MCTexts
  Shapes <- MCShapes
  InlineMax = 1
  MaxItems = 2
  Columns <- MCColumns
  MaxRecords = 2
  Zones <- MCZones
  MaxRows = 2
INVARIANTS
  ColumnTypeOK
  DecodedFaithfully
  NeverThrows
  ValuesFaithful
  LiteralsReadBack
