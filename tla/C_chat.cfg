SPECIFICATION FairSpec
CONSTANTS
  Threads = {a}
  ChatSlots = 1
  MaxRuns = 3
  MaxSessions = 4
  Budgets <- Chat
INVARIANTS TypeOK WatermarkIsShown ResumesWholeSession SilenceIsTrue
PROPERTIES LedgerImplemented
CHECK_DEADLOCK FALSE
