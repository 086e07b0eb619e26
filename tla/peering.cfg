SPECIFICATION TCPFairSpec
CONSTANTS
  Inbound = {i1, i2}
  Outbound = {o1}
INVARIANTS
  OwnIdIsEnough
  OnlyDialsOutliveStop
PROPERTIES
  EventsInOrder
  StopWaitsForStrangersOnly
CHECK_DEADLOCK FALSE
