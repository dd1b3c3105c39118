CONSTANTS
  Desktops = {d1, d2}
  Workers = {w1, w2}
  Calls = {c1, c2}
  None = None
  OverlapAllowed = TRUE
SPECIFICATION Spec
SYMMETRY Interchangeable
INVARIANT TypeOK
INVARIANT OneOwnerPerDesktop
PROPERTY EachDesktopImplementsOwnerSlots
CHECK_DEADLOCK FALSE
