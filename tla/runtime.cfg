SPECIFICATION FairSpec
CONSTANTS
  Modes <- EveryMode
  Count = 3
  PublishMayFail = TRUE
  ObserverMayFail = TRUE
INVARIANTS TypeOK CoreOutlivesListeners GracefulMeansJoined FailedStartLeavesNoListener
PROPERTIES LostPartEndsWorker
CHECK_DEADLOCK FALSE
