SPECIFICATION Spec
CONSTANTS
  Pages = {g, h}
  Aliases = {a, b}
  Profiles = {p, q}
  Refs = {r}
  NoAlias = NoAlias
  FirstSections <- OneDefault
  MaxWrites = 2
  MaxRequests = 1
PROPERTIES
  DraftReplacesItsSeed
CHECK_DEADLOCK FALSE
