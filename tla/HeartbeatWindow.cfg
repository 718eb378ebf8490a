CONSTANTS
  f1 = f1
  p1 = p1
  p2 = p2
  Fp = {f1}
  Proc = {p1}
  Day = 2
  Target = 1
  MaxClock = 3
  MaxOccur = 1
  MaxFaults = 0
  MaxKills = 0
SPECIFICATION Spec
PROPERTIES SinceLastSuccessful
