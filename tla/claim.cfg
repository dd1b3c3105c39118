SPECIFICATION Spec
CONSTANTS
  s1 = s1
  s2 = s2
  c1 = c1
  c2 = c2
  Nobody = Nobody
  Sessions <- TwoSessions
  Commands <- TwoCommands
  Leases <- ShortLeases
  MaxClock = 2
  MaxTransitions = 3
SYMMETRY Alike
INVARIANTS TypeOK TransitionWonOnce EpochHasOneSession FencedOut NothingIsOverwritten
PROPERTIES RefinesFencedLease
CHECK_DEADLOCK FALSE
