CONSTANTS
  Proc = {p1}
  Cooldown = 2
  PruneAge = 9
  Busy = TRUE
  MaxClock = 2
  MaxOccur = 3
SPECIFICATION LiveSpec
CHECK_DEADLOCK FALSE
INVARIANTS TypeOK SilentOnlyAfterDelivery
PROPERTY CrashReturns
