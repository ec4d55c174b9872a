SPECIFICATION FairSpec
CONSTANTS
  Recipient = {r1}
  Satellite = {s1}
  NoSatellite = NoSatellite
  QueueMin = 2
  QueueMax = 3
  MaxReports = 2
  Scenarios <- Rough
PROPERTY ClaimEnds
CHECK_DEADLOCK FALSE
