CONSTANTS
  f1 = f1
  p1 = p1
  p2 = p2
  Fp = {f1}
  Proc = {p1}
  Day = 2
  Target = 0
  MaxClock = 3
  MaxOccur = 2
  MaxFaults = 1
  MaxKills = 1
SPECIFICATION Spec
INVARIANTS CountersConserved DigestCoverage
