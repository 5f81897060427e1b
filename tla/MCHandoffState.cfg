SPECIFICATION StateSpec
CONSTANTS
  l1 = l1
  l2 = l2
  Labels = {l1, l2}
  Singleton <- Status
  Listed <- Lists
  Uninferred <- Kept
  Edits <- EditKinds
  MaxId = 2
  MaxEdits = 2
SYMMETRY SameLabels
INVARIANTS
  StateTypeOK
  AlwaysLoadable
  SectionsFollowInference
PROPERTIES
  IdsNeverReused
  UserNodesKept
  BodiesKept
  AgentTextStable
CHECK_DEADLOCK FALSE
