SPECIFICATION Spec
CONSTANTS
  Tasks = {t1}
  Loops = {l1, l2}
  NoLoop = NoLoop
  Targets = {"backlog", "in_progress"}
  Slots = 1
  MaxRuns = 2
  Budgets <- TwoLoops
SYMMETRY AnyLoop
INVARIANTS OneLiveRun FiberOwnsRun
PROPERTIES LedgerImplemented
