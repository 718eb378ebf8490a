CONSTANTS
  f1 = f1
  f2 = f2
  c1 = c1
  c2 = c2
  NoFp = NoFp
  Fp = {f1, f2}
  Caller = {c1, c2}
  Cooldown = 2
  PruneAge = 3
  QueueSize = 1
  FaultKinds = {}
  MaxClock = 2
  MaxOccur = 4
  MaxFaults = 0
  MaxKills = 0
SPECIFICATION Spec
SYMMETRY Symmetry
CHECK_DEADLOCK FALSE
INVARIANTS TypeOK EveryOccurrenceAccounted LastMessageIsPending
PROPERTIES CooldownHonoured
