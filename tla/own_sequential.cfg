CONSTANTS
  Desktops = {d1, d2, d3}
  Workers = {w1, w2, w3}
  Calls = {c1}
  None = None
  OverlapAllowed = FALSE
SPECIFICATION Spec
SYMMETRY Interchangeable
INVARIANT LiveOwnerHoldsLease
PROPERTY ImplementsOwnerSlots
CHECK_DEADLOCK FALSE
