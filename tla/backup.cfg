SPECIFICATION Spec
CONSTANTS
  Files <- ThreeFiles
  MaxWrites = 2
  MaxBackups = 3
INVARIANTS TypeOK OriginalRecoverable RestoredIsOneSnapshot FailedRestoreChangesNothing
PROPERTIES PublishedIsCurrent
CHECK_DEADLOCK FALSE
