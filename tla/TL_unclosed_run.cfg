SPECIFICATION FairSpec
CONSTANTS
  Tasks = {t1}
  Loops = {l1}
  NoLoop = NoLoop
  Targets = {"backlog", "in_progress"}
  Slots = 1
  MaxRuns = 2
  Budgets <- OneFault
PROPERTIES EveryRunEnds
