CONSTANTS
  NoThread = NoThread
  Thread = {t1, t2, t3}
SPECIFICATION LiveSpec
CHECK_DEADLOCK FALSE
INVARIANTS NoSelfDeadlock OnlyInnerDropped
PROPERTY EveryCallReturns
