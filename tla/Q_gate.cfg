SPECIFICATION FairSpec
CONSTANTS
  Subjects = {c1, c2}
  Slots = 2
  Levels <- Readings
  Unreadable = Unreadable
  Reached = Reached
  Threshold = 95
  Headroom = 5
  PollInterval = 1
  Cooldown = 2
  MaxCooldown = 3
  NoPause = NoPause
  Never = Never
  Mishaps = 2
INVARIANTS TypeOK
PROPERTIES PauseBindsLaterAsks HealthyIsServed
