SPECIFICATION TreeSpec
CONSTANTS
  r = r
  x = x
  y = y
  z = z
  one = one
  two = two
  None = None
  Trees <- TwoTrees
  b1 = b1
  b2 = b2
  Bindings = {b1, b2}
  Words <- SomeWords
  Long = {y}
  Queries <- SomeQueries
SYMMETRY EitherBinding
INVARIANTS
  InUseIsVisible
  DetailsBelong
PROPERTIES
  SnapshotsKeepView
CHECK_DEADLOCK FALSE
