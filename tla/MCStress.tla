------------------------------ MODULE MCStress ------------------------------
(***************************************************************************)
(* Small instances of Stress for TLC.                                      *)
(***************************************************************************)
EXTENDS Stress

(* The network with a link of length w[{a, b}] between a and b. *)
Network(w) ==
  LET t == [a \in Router |-> [b \in Router |->
              IF a = b THEN 0
              ELSE IF {a, b} \in DOMAIN w THEN w[{a, b}] ELSE inf_distance]]
  IN  [topology |-> t, solution |-> ShortestWalks(t)]

Unlinked == Network(<<>>)

Line == Network([e \in {{a, a + 1} : a \in 0 .. num_channel - 2} |-> 1])

(* A ring whose longest link has a detour. *)
Ring3 == Network([e \in {{0, 1}, {1, 2}, {0, 2}} |-> IF e = {0, 2} THEN 3 ELSE 1])

LineAndRing == {Line, Ring3}
UnlinkedToo == {Unlinked, Line}
=============================================================================
