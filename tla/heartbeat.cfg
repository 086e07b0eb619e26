SPECIFICATION HeartFairSpec
CONSTANTS
  Ends = {a, b}
  Dials = {a}
  BeatEvery = 2
  Timeout = 6
  MaxLost = 4
INVARIANT
  HeartTypeOK
PROPERTIES
  LossesAreTolerated
  LinkHealsOrDies
