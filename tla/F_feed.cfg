SPECIFICATION FairSpec
CONSTANTS
  MaxLines = 3
  Page = 2
  Budgets <- Pairs
INVARIANTS TypeOK RowIsItsLine TimelineWhole
PROPERTIES FollowerIsServed TimelineImplemented
CHECK_DEADLOCK FALSE
