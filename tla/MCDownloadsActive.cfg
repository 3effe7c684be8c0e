CONSTANTS
  d1 = d1
  d2 = d2
  p1 = p1
  Ids <- MCIds
  Paths <- MCPaths
  Posix = TRUE
  MaxExits = 0
SPECIFICATION Spec
INVARIANT ListedAsActiveIsRunning
CHECK_DEADLOCK FALSE
