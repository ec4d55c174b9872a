SPECIFICATION Spec
CONSTANTS
  Recipient = {r1, r2}
  Primary = {r1}
  Satellite = {s1, s2}
  NoSatellite = NoSatellite
  Scenarios <- Lifecycle
INVARIANTS TypeOK  
PROPERTY ClosedForGood
CHECK_DEADLOCK FALSE
