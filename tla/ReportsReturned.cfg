SPECIFICATION FairSpec
CONSTANTS
  Recipient = {r1, r2}
  r1 = r1
  r2 = r2
  Rank <- Order
  Scenarios <- Mixed
INVARIANT ContentComesFirst
PROPERTIES ChangesReturned DsnKept NoneLeftOut
