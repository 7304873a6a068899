CONSTANTS
  Value = {v1, v2}
  Uninit = Uninit
  Thread = {t1, t2, t3}
  NoThread = NoThread
  Capacities = {0, 1, 2}
SPECIFICATION Spec
SYMMETRY Symmetry
INVARIANTS
  TypeOK
  MutexInv
  SleepersInv
  NoSleepOnClosed
  NoLostWakeup
  NoUseAfterFree
  ReturnInv
PROPERTIES
  ClosedIsFinal
  ImplementsAtomic
