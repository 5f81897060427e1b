SPECIFICATION FairSpec
CONSTANTS
  c1 = c1
  c2 = c2
  Callers = {c1, c2}
  Prior = Prior
  NoDaemon = NoDaemon
  Starts = {"old"}
  Leftovers = {"none"}
  Slow = FALSE
  KillPoints = {"mark", "starting", "listening"}
  MaxTroubles = 1
INVARIANTS
  LockExcludes
  OldGoneFirst
PROPERTIES
  CallersFinish
  DaemonsStop
CHECK_DEADLOCK FALSE
