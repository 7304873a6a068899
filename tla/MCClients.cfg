CONSTANTS
  Value = {v1}
  Uninit = Uninit
  Thread = {t1, t2, t3}
  NoThread = NoThread
  Capacities = {1}
  MaxCalls = 2
  MaxSpurious = 1
SPECIFICATION ClientsSpec
CHECK_DEADLOCK FALSE
PROPERTIES
  HangsOnlyIfBlocked
  NonBlockingReturns
