SPECIFICATION FairSpec
CONSTANTS
  Kinds <- BothKinds
  PublishMayFail = TRUE
  KillMayFail = TRUE
INVARIANTS TypeOK GracefulMeansJoined CleanStopIsNotForced FailureIsProven
PROPERTIES CoreShutsDownUndisturbed StopReturnsOrCoreHolds OrphanEndsOrHolds
CHECK_DEADLOCK FALSE
