SPECIFICATION FairSpec
CONSTANTS
  Kinds <- CoreOnly
  PublishMayFail = TRUE
  KillMayFail = FALSE
PROPERTIES StopReturns
CHECK_DEADLOCK FALSE
