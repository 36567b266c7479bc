SPECIFICATION Spec
CONSTANTS
  Paths <- MCPaths
  PathLength <- MCPathLength
  NameOrder <- MCNameOrder
  RootNames = {"sbctl"}
  Archives = {}
  Directories <- RootDirectories
INVARIANT RootMost
\* A bundle is searched once.
CHECK_DEADLOCK FALSE
