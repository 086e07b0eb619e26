SPECIFICATION Spec
CONSTANTS
  Tasks = {t1}
  NoOwner = noOwner
  Watcher = watcher
  Sessions = {s1, s2}
  App = app
  Width = 2
  MaxClaims = 3
SYMMETRY Symmetry
INVARIANTS
  TypeOK
  OwnedIsExact
  InFlightIsOwned
  
CHECK_DEADLOCK FALSE
