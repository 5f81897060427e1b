SPECIFICATION StorageSpec
CONSTANTS
  n1 = n1
  n2 = n2
  Notes = {n1, n2}
  Runtimes = {"node", "deno"}
  Projects = {"new", "clone"}
  MaxCommits = 4
  MaxFaults = 2
INVARIANTS
  SavedSurvives
  FailuresAreContained
