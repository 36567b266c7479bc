SPECIFICATION FairSpec
CONSTANTS
  Modes = {"serve", "run", "tty"}
  Locations = {"url", "archive", "dir"}
INVARIANTS
  TypeOK
  DirectoryKept
  CleanAfterServing
  FilesLiveWhileServing
  ShellTidies
  ShellRemovesBundle
PROPERTIES
  ArchiveLostOnlyEarly
  InterruptEnds
  ShellEnds
\* The process ends, and "sbctl serve" waits for an interrupt that need not come.
CHECK_DEADLOCK FALSE
