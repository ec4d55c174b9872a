SPECIFICATION Spec
CONSTANTS
  Recipient = {r1, r2}
  Satellite = {s1}
  NoSatellite = NoSatellite
  QueueMin = 2
  QueueMax = 3
  MaxReports = 2
  Scenarios <- OneStop
INVARIANT SentIsReportedSent
CHECK_DEADLOCK FALSE
