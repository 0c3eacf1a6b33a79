SPECIFICATION Spec
CONSTANTS
  Conns = {c1, c2}
  Sessions = {s1, s2}
  None = none
  MaxSent = 2
CHECK_DEADLOCK FALSE
INVARIANTS
  OwnImage
PROPERTIES
  InOrder
  InputArrives
