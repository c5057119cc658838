SPECIFICATION Spec
CONSTANTS
  Runs = {r1}
  Limit = 1
  Budgets <- Undisturbed
INVARIANTS ReviewIsAsked
CHECK_DEADLOCK FALSE
