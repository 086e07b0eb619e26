SPECIFICATION FanInSpec
CONSTANTS
  Addrs = {a1}
  MaxPeers = 3
  Inbound = {i1}
  Outbound = {}
INVARIANTS
  TablesAgree
  NobodyVanishes
  OneLastWord
PROPERTIES
 
  FanInStops
CHECK_DEADLOCK FALSE
