CONSTANTS
  Desktops = {d1}
  Workers = {w1, w2}
  Calls = {c1, c2}
  None = None
  OverlapAllowed = TRUE
SPECIFICATION FairSpec
PROPERTY CommandsReturn
PROPERTY OrphanTerminates
CHECK_DEADLOCK FALSE
