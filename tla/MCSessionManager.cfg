SPECIFICATION Spec
CONSTANTS
  Ids = {s1, s2}
  NoId = NoId
  Reqs = {r1, r2}
  Reaper = Reaper
  MaxSessions = 1
  IdleTimeout = TRUE
SYMMETRY Symmetry
INVARIANTS
  TypeOK
  SoleCloser
  LiveIsPersisted
PROPERTIES
  DeadStaysDead
  NoLateZombie
  StrayOnlyFromUpsert
  OrphanOnlyFromHalt
