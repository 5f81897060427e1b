SPECIFICATION FairSpec
CONSTANTS
  p1 = p1
  p2 = p2
  r1 = r1
  r2 = r2
  r3 = r3
  r4 = r4
  Requests = {r1, r2, r3, r4}
  Projects = {p1, p2}
  ProjectOf <- FourOfTwo
  NoStore = NoStore
  MaxSessions = 2
  MaxFaults = 1
INVARIANTS
  StoresFollowSessions
  AnswersHold
PROPERTIES
  EvictsOldest
  ShutdownEnds
CHECK_DEADLOCK FALSE
