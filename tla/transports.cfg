SPECIFICATION FairSpec
CONSTANTS
  Conns = {c1, c2}
  Addrs = {a1}
  MaxClients = 3
INVARIANTS
  EverySessionHasAnEnd
  NothingRunsAfterExit
PROPERTIES
  ImplementsSessionLife
  ServerStops
CHECK_DEADLOCK FALSE
