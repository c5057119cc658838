SPECIFICATION Spec
CONSTANTS
  Tasks = {t1, t2}
  Loops = {l1}
  NoLoop = NoLoop
  Targets = {"backlog", "in_progress"}
  Slots = 1
  MaxRuns = 2
  Budgets <- Lane
INVARIANTS TypeOK LaneBounded
PROPERTIES ReviewAfterClose NoAutoRetry
