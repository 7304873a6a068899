CONSTANTS
  Value = {v1}
  Uninit = Uninit
  Thread = {t1}
  NoThread = NoThread
  Capacities = {1}
SPECIFICATION Spec
PROPERTIES
  CloseOfNullIsGenError
