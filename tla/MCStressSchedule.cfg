CONSTANTS
  num_channel = 8
  inf_distance = 127
  Networks <- Relayed
  main_buffer_size = 1
  secondary_buffer_size = 1
  SelectWorks = TRUE
  Garbage = {0}
  NULL = NULL
CHECK_DEADLOCK FALSE
SPECIFICATION Scheduled
INVARIANTS
  AssertsHold
