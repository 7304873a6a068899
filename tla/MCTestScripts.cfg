CONSTANTS
  Value = {"Message", "Message1", "Message2", "Message3", "NULL"}
  Uninit = Uninit
  Thread = {0, 1, 2, 3, 4, 5, 6}
  NoThread = NoThread
  Capacities = {}
  Programs <- AllTests
  MaxSpurious = 1
SPECIFICATION ScriptSpec
CHECK_DEADLOCK FALSE
INVARIANTS
  AssertsHold
  DestroyedWhenFinished
PROPERTIES
  TestsEnd
