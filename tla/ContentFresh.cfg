SPECIFICATION FairSpec
CONSTANTS
  Recipient = {r1, r2}
  Scenarios <- Everything
INVARIANTS TypeOK RestartRefreshes FreshContent
PROPERTIES ContentComes OverIsForgotten
CHECK_DEADLOCK FALSE
