CONSTANTS
  f1 = f1
  p1 = p1
  p2 = p2
  Fp = {f1}
  Proc = {p1, p2}
  Day = 2
  Target = 0
  MaxClock = 5
  MaxOccur = 0
  MaxFaults = 1
  MaxKills = 1
SPECIFICATION LiveSpec
INVARIANTS TypeOK
PROPERTIES OneDigestPerSlot HeartbeatMonotone SlotClaimed
