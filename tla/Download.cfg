SPECIFICATION Spec
CONSTANTS
  Downloads = {"d1", "d2"}
  Bundles = {"a", "b"}
  Parts <- MCParts
  Environments <- MCEnvironments
  OldParts = {3}
INVARIANTS
  TypeOK
  ReportedIsWhole
  EarlierFileKept
  TokenSent
\* Every download ends.
CHECK_DEADLOCK FALSE
