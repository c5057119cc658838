SPECIFICATION FairSpec
CONSTANTS
  Threads = {a, b}
  ChatSlots = 1
  MaxRuns = 3
  MaxSessions = 4
  Budgets <- Lane
PROPERTIES EveryWordShown
CHECK_DEADLOCK FALSE
