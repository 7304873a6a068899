--------------------------- MODULE MCTestScripts ---------------------------
(***************************************************************************)
(* Small instances of TestScripts for TLC: fewer helpers than in test.c.   *)
(***************************************************************************)
EXTENDS TestScripts

Settings(name, senders, receivers, capacity, sleep_long_enough) ==
  [name |-> name, senders |-> senders, receivers |-> receivers, capacity |-> capacity,
   sleep_long_enough |-> sleep_long_enough]

(* Tests whose usleep decides nothing, with the capacity of test.c.        *)
NoSleepNeeded ==
  {Settings("test_send_correctness", 3, 0, 2, FALSE),
   Settings("test_receive_correctness", 0, 2, 2, FALSE),
   Settings("test_free", 0, 0, 2, FALSE),
   Settings("test_channel_close_with_send", 5, 0, 2, FALSE),
   Settings("test_channel_close_with_receive", 0, 5, 2, FALSE)}

(* The other tests.                                                        *)
OneSlot ==
  {Settings("test_overall_send_receive", 3, 3, 1, TRUE),
   Settings("test_non_blocking_send", 4, 0, 1, TRUE),
   Settings("test_non_blocking_receive", 2, 4, 1, TRUE),
   Settings("test_channel_close_with_receive", 0, 4, 1, TRUE)}

AllTests == NoSleepNeeded \cup OneSlot
=============================================================================
