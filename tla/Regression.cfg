CONSTANTS
  f1 = f1
  f2 = f2
  c1 = c1
  c2 = c2
  NoFp = NoFp
  Fp = {f1}
  Caller = {c1}
  Cooldown = 2
  PruneAge = 3
  QueueSize = 1
  FaultKinds = {}
  MaxClock = 2
  MaxOccur = 3
  MaxFaults = 0
  MaxKills = 0
SPECIFICATION Spec
CHECK_DEADLOCK FALSE
PROPERTIES RegressionSurfaces
