CONSTANTS
  d1 = d1
  d2 = d2
  p1 = p1
  Ids <- MCIds
  Paths <- MCPaths
  Posix = TRUE
  MaxExits = 1
SPECIFICATION Spec
INVARIANTS
  TypeOK
  CancelIsSafe
  CompletedIsWhole
  NoOrphanPartial
PROPERTIES
  OutcomeIsFinal
  LibraryIndexesWhole
  JobSpec
CHECK_DEADLOCK FALSE
SYMMETRY Symmetry
