CONSTANTS
  num_channel = 3
  buffer_size = 1
  LoadPercent = 84
  SleepLongEnough = FALSE
SPECIFICATION Spec
INVARIANTS
  AssertsHold
