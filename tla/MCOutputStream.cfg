SPECIFICATION FairSpec
CONSTANTS
  Conns = {c1, c2}
  Capacity = 1
  MaxChunks = 3
CHECK_DEADLOCK FALSE
INVARIANTS
  OrderKept
  OverlapBound
  FiledFirst
PROPERTIES
  LossNeedsFullChannel
  OutputFlows
