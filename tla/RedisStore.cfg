CONSTANTS
  p1 = p1
  p2 = p2
  Proc = {p1, p2}
  Cooldown = 1
  TTL = 2
  Scenarios <- MCScenarios
SPECIFICATION Spec
SYMMETRY Symmetry
CHECK_DEADLOCK FALSE
INVARIANTS TypeOK SuppressionsConserved RowsExpire CountersConserved SilentOnlyAfterDelivery
