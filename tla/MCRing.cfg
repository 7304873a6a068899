CONSTANTS
  num_channel = 3
  buffer_size = 1
  LoadPercent = 84
  SleepLongEnough = TRUE
SPECIFICATION Spec
INVARIANTS
  TypeOK
  EachMessageOnce
  AssertsHold
  DrainedBeforeStop
  DestroyedAfterUse
PROPERTIES
  Terminates
