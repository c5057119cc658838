SPECIFICATION FairSpec
CONSTANTS
  Runs = {r1, r2}
  Limit = 1
  Budgets <- Disturbed
INVARIANTS TypeOK SaidAsStamped NoticeMatchesOutcome
PROPERTIES ClaimIsDelivered
CHECK_DEADLOCK FALSE
