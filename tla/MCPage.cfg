SPECIFICATION FairSpec
CONSTANTS
  a = a
  b = b
  Nodes = {a, b}
  TreeOf <- SecondWithoutB
  None = None
  MaxChanges = 1
  MaxFaults = 1
INVARIANTS
  LateAnswersDropped
PROPERTIES
  NeverBack
  CatchesUp
CHECK_DEADLOCK FALSE
