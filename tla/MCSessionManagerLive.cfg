SPECIFICATION ListFairSpec
CONSTANTS
  Ids = {s1}
  NoId = NoId
  Reqs = {r1, r2}
  Reaper = Reaper
  MaxSessions = 0
  IdleTimeout = TRUE
PROPERTIES
  ImplementsRegistry
  ReapsAbandoned
  ExitIsNoticed
  CallsReturn
