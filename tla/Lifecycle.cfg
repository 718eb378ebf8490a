CONSTANTS
  Caller = {c1, c2}
  QueueSize = 1
  MaxInits = 2
  MaxAlerts = 2
SPECIFICATION CloseFair
CHECK_DEADLOCK FALSE
INVARIANTS TypeOK ClosedMeansFlushed
PROPERTIES CloseReturns EarlyAlertsSent
