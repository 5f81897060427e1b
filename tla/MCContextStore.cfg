SPECIFICATION FairSpec
CONSTANTS
  Jobs = {j1, j2}
  Kinds = {"v3", "garbage"}
  None = None
  Empty = Empty
  MaxChanges = 2
  MaxFaults = 1
INVARIANTS
  NothingLeftOpen
PROPERTIES
  DetailIsFresh
  Settles
CHECK_DEADLOCK FALSE
