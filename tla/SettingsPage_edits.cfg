SPECIFICATION Spec
CONSTANTS
  Pages = {g, h}
  Aliases = {a, b}
  Profiles = {p}
  Refs = {r}
  NoAlias = NoAlias
  FirstSections <- OneDefault
  MaxWrites = 2
  MaxRequests = 1
SYMMETRY NameSymmetry
INVARIANTS
  TypeOK
  StoredSound
  OneEditAtATime
  PagesCatchUp
CHECK_DEADLOCK FALSE
