CONSTANTS
  num_channel = 3
  inf_distance = 7
  Networks <- UnlinkedToo
  main_buffer_size = 1
  secondary_buffer_size = 1
  SelectWorks = FALSE
  Garbage = {0, 1, 2, 4}
  NULL = NULL
CHECK_DEADLOCK FALSE
SPECIFICATION Spec
INVARIANTS
  NeverAccepted
