------------------------------ MODULE Topology ------------------------------
(***************************************************************************)
(* create_topology of stress.c: reading the links of a network from a file *)
(* and computing the expected distances with floyd_warshall.               *)
(***************************************************************************)
EXTENDS Distance

CONSTANTS
  LinkInts,       (* the integers the file may hold for a link             *)
  DiagonalInts    (* ... and from a router to itself                       *)

ASSUME FileAssumption ==
  LinkInts \cup DiagonalInts \subseteq -(inf_distance + 1) .. inf_distance

VARIABLES
  pc,             (* read, relax, done: the loop that runs                 *)
  topology,
  solution,
  intermediate, src, dst   (* the loop counters                            *)

vars == <<pc, topology, solution, intermediate, src, dst>>

-----------------------------------------------------------------------------
(* Mutant: negative integers stay the large unsigned numbers they are read *)
(* as.                                                                     *)
ConvertedRaw(v) == v % Modulus

(* fscanf stores the int in an unsigned int. *)
Converted(v) ==
  LET distance == v % Modulus
  IN  IF distance > inf_distance THEN inf_distance ELSE distance

LastPair == src = num_channel - 1 /\ dst = num_channel - 1

(* dst is the counter of the innermost loop. *)
NextPair ==
  /\ dst' = IF dst = num_channel - 1 THEN 0 ELSE dst + 1
  /\ src' = IF dst # num_channel - 1 THEN src
            ELSE IF src = num_channel - 1 THEN 0 ELSE src + 1

(* create_topology reads a number; after the last one floyd_warshall       *)
(* starts with a copy of the topology.                                     *)
ReadLink ==
  /\ pc = "read"
  /\ \E v \in IF src = dst THEN DiagonalInts ELSE LinkInts :
       topology' = [topology EXCEPT ![src][dst] = Converted(v)]
  /\ NextPair
  /\ pc' = IF LastPair THEN "relax" ELSE "read"
  /\ solution' = IF LastPair THEN topology' ELSE solution
  /\ UNCHANGED intermediate

Detour == Plus(solution[src][intermediate], solution[intermediate][dst])

Relaxed ==
  IF Detour < solution[src][dst]
  THEN [solution EXCEPT ![src][dst] = Detour] ELSE solution

(* Mutant: intermediate is the counter of the innermost loop. *)
RelaxInnermost ==
  /\ pc = "relax"
  /\ solution' = Relaxed
  /\ intermediate' = IF intermediate = num_channel - 1 THEN 0 ELSE intermediate + 1
  /\ IF intermediate = num_channel - 1 THEN NextPair ELSE UNCHANGED <<src, dst>>
  /\ pc' = IF LastPair /\ intermediate = num_channel - 1 THEN "done" ELSE pc
  /\ UNCHANGED topology

Relax ==
  /\ pc = "relax"
  /\ solution' = Relaxed
  /\ NextPair
  /\ intermediate' = IF LastPair THEN intermediate + 1 ELSE intermediate
  /\ pc' = IF LastPair /\ intermediate = num_channel - 1 THEN "done" ELSE pc
  /\ UNCHANGED topology

-----------------------------------------------------------------------------
Init ==
  /\ pc = "read"
  /\ topology = [a \in Router |-> [b \in Router |-> 0]]
  /\ solution = [a \in Router |-> [b \in Router |-> 0]]
  /\ intermediate = 0 /\ src = 0 /\ dst = 0

Terminated == pc = "done" /\ UNCHANGED vars

Next == ReadLink \/ Relax \/ Terminated

Spec == Init /\ [][Next]_vars

-----------------------------------------------------------------------------
(* Entries are distances of at most inf_distance, counters stay in range.  *)
TypeOK ==
  /\ pc \in {"read", "relax", "done"}
  /\ topology \in Matrix /\ solution \in Matrix
  /\ intermediate \in 0 .. num_channel
  /\ pc = "relax" => intermediate < num_channel
  /\ src \in Router /\ dst \in Router

(* The sum that floyd_warshall compares never wraps around, also when both *)
(* terms are infinite: a wrapped sum would look like a short cut.          *)
NoWrap ==
  pc = "relax" =>
    solution[src][intermediate] + solution[intermediate][dst] < Modulus

(* floyd_warshall ends with the lengths of the shortest walks, or          *)
(* inf_distance where none is shorter than that.                           *)
SolutionIsShortest == pc = "done" => solution = ShortestWalks(topology)

(* ... which is the largest matrix below the topology without short cuts.  *)
SolutionCorrect == pc = "done" => IsSolution(solution, topology)
=============================================================================
