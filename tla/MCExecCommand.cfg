SPECIFICATION Spec
CONSTANTS
  Execs = {e1, e2}
  User = User
  Enter = Enter
  Timeouts = {1}
  WriteTimeout = 2
  MaxKeys = 1
  MaxLag = 0
CHECK_DEADLOCK FALSE
SYMMETRY Symmetry
INVARIANTS
  DoneIsComplete
  CleanResult
