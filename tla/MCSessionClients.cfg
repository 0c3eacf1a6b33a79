SPECIFICATION FairSpec
CONSTANT Conns = {c1, c2}
CHECK_DEADLOCK FALSE
INVARIANTS
  TypeOK
  IdleWhenEmpty
  RegisteredWhileServed
  PanicNeedsClose
PROPERTIES
  LeaversAreRemoved
  CloseReachesClients
  AbandonedIsTakenDown
