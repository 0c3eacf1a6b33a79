SPECIFICATION LoginSpec
CONSTANTS
  Reqs = {r1, r2, r3}
  MaxAttempts = 3
  Window = 2
  BaseLockout = 1
  MaxTime = 19
  Tokens = {t1, t2}
  SessionTimeout = 2
CHECK_DEADLOCK FALSE
SYMMETRY Symmetry
INVARIANTS
  TwoWindows
  LateBound
  LeaseKept
PROPERTIES
  CleanupIsLate
