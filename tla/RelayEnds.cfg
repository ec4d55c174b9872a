SPECIFICATION FairSpec
CONSTANTS
  Recipient = {r1, r2}
  NoRecipient = NoRecipient
  QueueId = {q1, q2}
  Name = {n1, n2, n3, n4, n5}
  NoName = NoName
  Host = {h1, h2}
  Domain = n1
  n1 = n1
  h1 = h1
  h2 = h2
  Scenarios <- Mixed
INVARIANTS InUseIsOpen LookupRight
PROPERTIES OutcomeStays RejectedInSeries GoingEnds
CHECK_DEADLOCK FALSE
