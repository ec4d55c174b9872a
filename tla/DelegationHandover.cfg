SPECIFICATION Spec
CONSTANTS
  Recipient = {r1, r2}
  Satellite = {s1, s2}
  NoSatellite = NoSatellite
  QueueMin = 2
  QueueMax = 3
  MaxReports = 2
  Scenarios <- Everything
INVARIANTS TypeOK SentMeansMailed NotSentAgain SingleHolder
PROPERTIES MailedOnce OutcomeKept ImplementsLedger
CHECK_DEADLOCK FALSE
