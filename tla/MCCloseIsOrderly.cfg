SPECIFICATION Spec
CONSTANT Conns = {c1, c2}
CHECK_DEADLOCK FALSE
INVARIANTS
  CloseIsOrderly
