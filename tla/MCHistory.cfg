SPECIFICATION HistorySpec
CONSTANTS
  a = a
  b = b
  c = c
  title = title
  None = None
  SectionOrder <- MCSectionOrder
  Words <- MCWords
  Tokens <- MCTokens
  DefaultBudget = 5
  ConflictLabel = title
  Protocol = 2
  Starts <- MCStarts
  Options <- MCOptions
  Labels <- MCLabels
  Bodies <- MCBodies
  Extras <- MCExtras
  Pieces <- MCPieces
  Widths <- MCWidths
  Retention = 3
INVARIANTS
  OneHierarchy
  BaselineIsPrevious
  DiffReplays
  CutsAreLastResort
PROPERTIES
  MigrationKeepsAll
