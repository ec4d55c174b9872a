SPECIFICATION FairSpec
CONSTANTS
  Recipient = {a, b, c, e, x}
  Mailing = {m1, m2, m3}
  Domain = {d1, d2, d3}
  a = a
  b = b
  c = c
  e = e
  x = x
  m1 = m1
  m2 = m2
  m3 = m3
  d1 = d1
  d2 = d2
  d3 = d3
  MailingOf <- Mailings
  DomainOf <- Domains
  Testing = {m3}
  Refused = {d3}
  MaxPerQueue = 2
  Scenarios <- Mixed
INVARIANTS NobodyForgotten OneQueueEach WithinLimits
PROPERTY WaitingEnds
CHECK_DEADLOCK FALSE
