SPECIFICATION Spec
CONSTANTS
  Modes = {"serve", "tty"}
  Locations = {"archive"}
INVARIANT ArchiveKept
\* The process ends, and "sbctl serve" waits for an interrupt that need not come.
CHECK_DEADLOCK FALSE
