SPECIFICATION Spec
CONSTANTS
  Files = {f1, f2}
  Paths = {p1, p2}
  Bodies = {x, y}
  Empty = Empty
  Hooks = {h1, h2}
  Clicks = {c1, c2}
  MaxRows = 3
  Budgets <- Answers
SYMMETRY Alike
INVARIANTS TypeOK AskedOnce AcceptedWasWritten OnlyWhatWasRead
PROPERTIES NothingDropped AnsweredOnce
CHECK_DEADLOCK FALSE
