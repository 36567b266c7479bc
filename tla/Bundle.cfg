SPECIFICATION Spec
CONSTANTS
  Paths <- MCPaths
  PathLength <- MCPathLength
  NameOrder <- MCNameOrder
  RootNames = {"sbctl", "cluster-resources"}
  Archives <- MCArchives
  Directories <- MCDirectories
INVARIANTS
  TypeOK
  ExtractedSoFar
  ExtractsIffSound
  FoundIffThere
  NotNested
\* A bundle is extracted and searched once.
CHECK_DEADLOCK FALSE
