CONSTANTS
  f1 = f1
  f2 = f2
  c1 = c1
  c2 = c2
  NoFp = NoFp
  Fp = {f1, f2}
  Caller = {c1}
  Cooldown = 1
  PruneAge = 0
  QueueSize = 1
  FaultKinds = {"store", "thread", "render"}
  MaxClock = 1
  MaxOccur = 3
  MaxFaults = 1
  MaxKills = 1
SPECIFICATION LiveSpec
CHECK_DEADLOCK FALSE
INVARIANTS InFlightExact SuppressionsConserved NotifiedMeansDelivered PendingAlerts
PROPERTIES InFlightDrains KeepsThePromises
