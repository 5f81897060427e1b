CONSTANTS
  Kinds = {"empty", "legacy", "v2", "v3"}
  MaxGen = 6
  Faults = {"write", "rename", "undo", "cleanup"}
  Kills = TRUE
  MaxTroubles = 2
SPECIFICATION FairSpec
INVARIANTS
  TextSurvives
  ConfigUpgradesLast
  LoadableAfterSave
PROPERTIES
  RerunSucceeds
CHECK_DEADLOCK FALSE
