SPECIFICATION FairSpec
CONSTANTS
  MaxEvents = 5
INVARIANTS TypeOK ButtonsFitTab TransitionHasRequest
PROPERTIES StaleAnswerKeepsLock TabSettles
CHECK_DEADLOCK FALSE
