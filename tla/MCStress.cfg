CONSTANTS
  num_channel = 3
  inf_distance = 7
  Networks <- LineAndRing
  main_buffer_size = 1
  secondary_buffer_size = 1
  SelectWorks = TRUE
  Garbage = {0}
  NULL = NULL
SPECIFICATION Spec
INVARIANTS
  TypeOK
  AssertsHold
  NextStatePrivate
  DistancesSound
  RestWhenAccepted
PROPERTIES
  Terminates
