SPECIFICATION Spec
CONSTANTS
  p = p
  q = q
  v = v
  w = w
  a = a
  b = b
  Projects = {p, q}
  Vaults = {v, w}
  Aliases = {a, b}
  None = None
  Data = Data
  BaseName <- SameName
  Configured = {p}
  MaxCommands = 3
  MaxHands = 1
  MaxTroubles = 1
SYMMETRY EitherVault
INVARIANTS
  LinksRemembered
PROPERTIES
  CommandsComplete
  OthersStay
CHECK_DEADLOCK FALSE
