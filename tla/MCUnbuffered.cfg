CONSTANTS
  Value = {v1}
  Uninit = Uninit
  Thread = {t1, t2}
  NoThread = NoThread
  Capacities = {0}
  MaxCalls = 1
  MaxSpurious = 0
SPECIFICATION ClientsSpec
CHECK_DEADLOCK FALSE
PROPERTIES
  UnbufferedMeet
