SPECIFICATION Spec
CONSTANTS
  staging = staging
  prod = prod
  host1 = host1
  host2 = host2
  host3 = host3
  cert1 = cert1
  cert2 = cert2
  ref1 = ref1
  ref2 = ref2
  Refs = {ref1, ref2}
  Values = {v, w}
  NoValue = NoValue
  Ambient = {ref2}
  MaxWrites = 2
  Aliases = {staging, prod}
  Hosts = {host1, host2, host3}
  Certs = {cert1, cert2}
  Unset = Unset
  Blank = Blank
  Configs <- MCConfigs
  Sections <- MCSections
  Asked <- MCAsked
  MaxEdits = 1
  Permits <- MCPermits
  Addable = {ref1}
  blanks = blanks
  name = name
  padded = padded
  words = words
  plain9669 = plain9669
  hex9669 = hex9669
  plain65536 = plain65536
  half = half
  zero = zero
  auto = auto
  local = local
  lan = lan
  far = far
  Half = Half
  Empty = Empty
  Texts = {Empty, blanks, name, padded, words, plain9669, hex9669, plain65536, half, zero}
  Trim <- MCTrim
  Numbers <- MCNumbers
  Fractions = {Half}
  NaN = NaN
  Number <- MCNumber
  Printed <- MCPrinted
  AliasTexts = {name, words}
  TlsModes = {on, auto}
  AutoMode = auto
  Absent = Absent
  Machines = {local, lan, far}
  Ports = {1}
  AnyPort = AnyPort
  Loopback = {local}
  Nothing = Nothing
  FirstStored <- MCFirstStored
  TrustedHosts <- MCTrustedHosts
  OtherRequests <- MCOtherRequests
  Typed <- MCTyped
  MaxTyped = 2
SYMMETRY ValueSymmetry
INVARIANTS TypeOK OneConfiguration PolicyEnforced PasswordOfReference FlagsCatchUp
PROPERTIES DraftsKept FormKeeps
CHECK_DEADLOCK FALSE
