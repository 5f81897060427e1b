CONSTANTS
  Kinds = {"v3"}
  MaxGen = 6
  Faults = {}
  Kills = TRUE
  MaxTroubles = 1
SPECIFICATION Spec
CHECK_DEADLOCK FALSE
INVARIANTS
  ContentSurvives
