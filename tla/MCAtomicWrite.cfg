CONSTANTS
  N = 3
  MaxGen = 3
SPECIFICATION Spec
INVARIANTS
  OriginalsKept
PROPERTIES
  AllOrNothing
CHECK_DEADLOCK FALSE
