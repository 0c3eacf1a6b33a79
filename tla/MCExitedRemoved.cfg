SPECIFICATION FairSpec
CONSTANTS
  Ids = {s1}
  NoId = NoId
  Reqs = {r1}
  Reaper = Reaper
  MaxSessions = 0
  IdleTimeout = FALSE
PROPERTIES
  ExitedAreRemoved
