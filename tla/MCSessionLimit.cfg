SPECIFICATION Spec
CONSTANTS
  Ids = {s1, s2, s3}
  NoId = NoId
  Reqs = {r1, r2}
  Reaper = Reaper
  MaxSessions = 1
  IdleTimeout = FALSE
SYMMETRY Symmetry
INVARIANTS
  CapacityBound
