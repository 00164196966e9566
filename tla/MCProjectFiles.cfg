SPECIFICATION Spec
CONSTANTS
  Files <- MCFiles
  Edited <- MCEdited
INVARIANTS
  WrittenIsStable
  ModernCanBeSaved
PROPERTIES
  FileIsDesign
  LegacyIsKept
CHECK_DEADLOCK FALSE
