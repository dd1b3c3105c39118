SPECIFICATION Spec
CONSTANTS
  Files <- ThreeFiles
  MaxWrites = 1
  MaxBackups = 3
INVARIANTS LatestIsRestored
CHECK_DEADLOCK FALSE
