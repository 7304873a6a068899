--------------------------- MODULE MCStressSchedule ---------------------------
(***************************************************************************)
(* One schedule of Stress on one network of eight routers, for a failure   *)
(* that needs more steps than TLC can search for.  Every step is a step of *)
(* Stress; a schedule only says who is the first to be run.                *)
(***************************************************************************)
EXTENDS Stress

Main == num_channel            (* check_done, among the routers           *)
inf == inf_distance

(***************************************************************************)
(* Routers 1 to 4 learn of a short way to 0 when 5 tells 1, and of a short *)
(* way to 7 when 6 tells 2.  Between them they need four broadcasts each   *)
(* to find the best one.  Router 0 then has a shorter way to 7 through 1.  *)
(***************************************************************************)
Links ==
  << <<  0,   1, inf, inf, inf,  90,  90,  17 >>,
     << 60,   0,  10,   5,   1,  10,  90, inf >>,
     << inf, 10,   0,   1,   5,  90,  10, inf >>,
     << inf, 20,   1,   0,   1,  90,  90, inf >>,
     << inf,  1,  20,   1,   0,  90,  90, inf >>,
     <<  1,   2,   5,   4,   3,   0,  15,  15 >>,
     << 50,  50,  50,  50,  50,  50,   0,   1 >>,
     << 70, inf, inf, inf, inf,  70,  70,   0 >> >>

(* What floyd_warshall makes of it. *)
Shortest ==
  << <<  0,  1,  4,  3,  2, 11, 14, 15 >>,
     << 11,  0,  3,  2,  1, 10, 13, 14 >>,
     << 14,  3,  0,  1,  2, 13, 10, 11 >>,
     << 13,  2,  1,  0,  1, 12, 11, 12 >>,
     << 12,  1,  2,  1,  0, 11, 12, 13 >>,
     <<  1,  2,  5,  4,  3,  0, 15, 15 >>,
     << 50, 50, 50, 50, 50, 50,  0,  1 >>,
     << 70, 71, 74, 73, 72, 70, 70,  0 >> >>

Rows(table) == [a \in Router |-> [b \in Router |-> table[a + 1][b + 1]]]

Relayed == {[topology |-> Rows(Links), solution |-> Rows(Shortest)]}

(***************************************************************************)
(* The stages of the schedule.  In each of them the first thread in order  *)
(* that can move does, until none can.  A thread whose next step would be  *)
(* a send that is held is not run: its list of neighbours decides whom it  *)
(* sends to, and not the schedule.                                         *)
(***************************************************************************)
Stages ==
  << (* The routers settle, but for what 5 and 6 have to say. *)
     [order |-> <<0, 1, 2, 3, 4, 5, 6, 7>>, held |-> {<<5, 1>>, <<6, 2>>}],
     (* check_done asks 0 to 4; 0 answers, and the others are about to. *)
     [order |-> <<0, 1, 2, 3, 4, Main>>, held |-> {<<Main, 5>>}],
     (* 5 tells 1, and 6 tells 2. *)
     [order |-> <<5, 6>>, held |-> {}],
     (* All answer the first round, and 0 the second; the news spreads. *)
     [order |-> <<5, 6, 7, Main, 2, 3, 4, 1, 0>>,
      held |-> {<<2, 3>>, <<4, 3>>, <<Main, 1>>}],
     (* The news spreads: 1 to 4 have now cycled four times each. *)
     [order |-> <<5, 6, 7, 2, 1, 4, 3, 0>>, held |-> {}],
     (* The others answer the second round. *)
     [order |-> <<5, 6, 7, 2, 1, 4, 3, Main>>, held |-> {}] >>

VARIABLE stage

order == Stages[stage].order
held == Stages[stage].held

SendsTo(a, n) ==
  IF a = Main THEN main = "flush" /\ i = n ELSE n \in to_send[a] /\ n \notin to_send'[a]

Step(a) ==
  /\ IF a = Main THEN run_stress ELSE router(a)
  /\ \A hold \in held : hold[1] = a => ~SendsTo(a, hold[2])

ScheduledInit == Init /\ stage = 1

ScheduledNext ==
  \/ /\ \E k \in DOMAIN order :
          Step(order[k]) /\ \A j \in 1 .. k - 1 : ~ENABLED Step(order[j])
     /\ UNCHANGED stage
  \/ /\ stage < Len(Stages) /\ \A k \in DOMAIN order : ~ENABLED Step(order[k])
     /\ stage' = stage + 1 /\ UNCHANGED vars

Scheduled == ScheduledInit /\ [][ScheduledNext]_<<vars, stage>>
=============================================================================
