--------------------------- MODULE TopologyProofs ---------------------------
(***************************************************************************)
(* floyd_warshall computes the distances of any network, of any size, with *)
(* any width of distance_t.                                                *)
(***************************************************************************)
EXTENDS Topology, TLAPS

(* The detour through intermediate, and what the pair gets in this round.  *)
Via(m, k, a, b) == m[a][k] + m[k][b]
Target(m, k, a, b) == IF Via(m, k, a, b) < m[a][b] THEN Via(m, k, a, b) ELSE m[a][b]

(* The pairs that this round has been through. *)
Processed(a, b) == a < src \/ (a = src /\ b < dst)

(* Every matrix below the topology without short cuts is below m. *)
Greatest(m) ==
  \A n \in Matrix : Below(n, topology) /\ NoShortcut(n) => Below(n, m)

RelaxInv ==
  /\ \A a, b \in Router :
       Processed(a, b) => solution[a][b] <= Via(solution, intermediate, a, b)
  /\ \A a, b, c \in Router : c < intermediate =>
       Target(solution, intermediate, a, b)
         <= Target(solution, intermediate, a, c) + Target(solution, intermediate, c, b)

(***************************************************************************)
(* The invariant: what the finished rounds have achieved holds of the      *)
(* targets of the present round, not of the entries, some of which are     *)
(* already relaxed and some are not.                                       *)
(***************************************************************************)
IInv ==
  /\ TypeOK
  /\ pc = "read" => intermediate = 0
  /\ pc # "read" => Below(solution, topology) /\ Greatest(solution)
  /\ pc = "relax" => RelaxInv
  /\ pc = "done" => NoShortcut(solution)

-----------------------------------------------------------------------------
(* Two distances of at most inf_distance add up without wrapping around.   *)
LEMMA PlusExact ==
  ASSUME NEW x \in Distances, NEW y \in Distances
  PROVE  Plus(x, y) = x + y /\ x + y < Modulus
<1>1. inf_distance \in Nat  BY DistanceAssumption
<1>2. x + y \in 0 .. Modulus - 1  BY <1>1 DEF Distances, Modulus
<1>3. Modulus \in Nat \ {0}  BY <1>1 DEF Modulus
<1>4. \A s \in Int, m \in Nat \ {0} : s \in 0 .. m - 1 => s % m = s  OBVIOUS
<1> QED  BY <1>2, <1>3, <1>4 DEF Plus, Distances

(* Whatever integer the file holds, the distance is at most inf_distance.  *)
LEMMA ConvertedInRange ==
  ASSUME NEW v \in LinkInts \cup DiagonalInts
  PROVE  Converted(v) \in Distances
<1>1. inf_distance \in Nat /\ v \in Int  BY DistanceAssumption, FileAssumption
<1>2. Modulus \in Nat \ {0}  BY <1>1 DEF Modulus
<1>3. v % Modulus \in 0 .. Modulus - 1  BY <1>1, <1>2
<1> QED  BY <1>1, <1>3 DEF Converted, Distances, Modulus

(* floyd_warshall's assignment gives the current pair its target and       *)
(* touches neither the row nor the column of the intermediate router.      *)
LEMMA RelaxedPair ==
  ASSUME TypeOK, pc = "relax"
  PROVE  /\ Relaxed \in Matrix
         /\ Relaxed[src][dst] = Target(solution, intermediate, src, dst)
         /\ \A a, b \in Router :
              a # src \/ b # dst => Relaxed[a][b] = solution[a][b]
         /\ \A a \in Router : Relaxed[a][intermediate] = solution[a][intermediate]
         /\ \A b \in Router : Relaxed[intermediate][b] = solution[intermediate][b]
<1> DEFINE i == intermediate
<1>1. /\ i \in Router /\ src \in Router /\ dst \in Router
      /\ num_channel \in Nat /\ inf_distance \in Nat
  BY DistanceAssumption DEF TypeOK, Router
<1>2. \A a, b \in Router : solution[a][b] \in Distances
  BY DEF TypeOK, Matrix
<1>3. Detour = Via(solution, i, src, dst)
  BY <1>1, <1>2, PlusExact DEF Detour, Via
<1>4. Detour < solution[src][dst] => Detour \in Distances
  BY <1>1, <1>2, <1>3 DEF Via, Distances
<1>5. Relaxed \in Matrix
  BY <1>1, <1>4 DEF Relaxed, TypeOK, Matrix
<1>6. Relaxed[src][dst] = Target(solution, i, src, dst)
  BY <1>1, <1>3 DEF Relaxed, Target, TypeOK, Matrix
<1>7. \A a, b \in Router : a # src \/ b # dst => Relaxed[a][b] = solution[a][b]
  BY <1>1 DEF Relaxed, TypeOK, Matrix
<1>8. \A a \in Router : Relaxed[a][i] = solution[a][i]
  BY <1>1, <1>2, <1>6, <1>7 DEF Target, Via, Distances
<1>9. \A b \in Router : Relaxed[i][b] = solution[i][b]
  BY <1>1, <1>2, <1>6, <1>7 DEF Target, Via, Distances
<1> QED  BY <1>5, <1>6, <1>7, <1>8, <1>9

(* So every pair keeps its target. *)
LEMMA TargetsKept ==
  ASSUME TypeOK, pc = "relax"
  PROVE  \A a, b \in Router :
           /\ Via(Relaxed, intermediate, a, b) = Via(solution, intermediate, a, b)
           /\ Target(Relaxed, intermediate, a, b) = Target(solution, intermediate, a, b)
<1>1. \A a, b \in Router : solution[a][b] \in Int
  BY DEF TypeOK, Matrix, Distances
<1>2. intermediate \in Router /\ src \in Router /\ dst \in Router
  BY DistanceAssumption DEF TypeOK, Router
<1> TAKE a, b \in Router
<1>3. Via(Relaxed, intermediate, a, b) = Via(solution, intermediate, a, b)
  BY RelaxedPair DEF Via
<1>4. CASE a = src /\ b = dst
  BY <1>1, <1>2, <1>3, <1>4, RelaxedPair DEF Target, Via
<1>5. CASE a # src \/ b # dst
  BY <1>3, <1>5, RelaxedPair DEF Target
<1> QED  BY <1>3, <1>4, <1>5

(* An assignment of floyd_warshall leaves the matrix above every matrix    *)
(* without short cuts that was below it.                                   *)
LEMMA RelaxedAbove ==
  ASSUME TypeOK, pc = "relax", NEW n \in Matrix, NoShortcut(n), Below(n, solution)
  PROVE  Below(n, Relaxed)
<1>1. \A a, b \in Router : solution[a][b] \in Int /\ n[a][b] \in Int
  BY DEF TypeOK, Matrix, Distances
<1>2. intermediate \in Router /\ src \in Router /\ dst \in Router
  BY DistanceAssumption DEF TypeOK, Router
<1> SUFFICES ASSUME NEW a \in Router, NEW b \in Router
             PROVE  n[a][b] <= Relaxed[a][b]
  BY DEF Below
<1>3. CASE a = src /\ b = dst
  <2>1. n[a][b] <= n[a][intermediate] + n[intermediate][b]
    BY <1>2 DEF NoShortcut
  <2>2. /\ n[a][intermediate] <= solution[a][intermediate]
        /\ n[intermediate][b] <= solution[intermediate][b]
        /\ n[a][b] <= solution[a][b]
    BY <1>2 DEF Below
  <2> QED  BY <1>1, <1>2, <1>3, <2>1, <2>2, RelaxedPair DEF Target, Via
<1>4. CASE a # src \/ b # dst
  BY <1>4, RelaxedPair DEF Below
<1> QED  BY <1>3, <1>4

(* At the end of a round there are no detours through its router either.   *)
LEMMA RoundClosed ==
  ASSUME NEW m \in Matrix, NEW i \in Router,
         \A a, b \in Router : m[a][b] <= Via(m, i, a, b),
         \A a, b, c \in Router : c < i => m[a][b] <= m[a][c] + m[c][b],
         NEW j \in Router, \A c \in Router : c < j => c <= i
  PROVE  \A a, b, c \in Router : c < j =>
           Target(m, j, a, b) <= Target(m, j, a, c) + Target(m, j, c, b)
<1>1. \A a, b \in Router : m[a][b] \in Nat
  BY DistanceAssumption DEF Matrix, Distances
<1> SUFFICES ASSUME NEW a \in Router, NEW b \in Router, NEW c \in Router, c < j
             PROVE  Target(m, j, a, b) <= Target(m, j, a, c) + Target(m, j, c, b)
  OBVIOUS
<1>2. c \in Int /\ i \in Int  BY DEF Router
<1>3. \A x, y \in Router : m[x][y] <= m[x][c] + m[c][y]
  <2>1. CASE c < i  BY <2>1
  <2>2. CASE c = i  BY <2>2 DEF Via
  <2>3. c < i \/ c = i
    BY <1>2
  <2> QED  BY <2>1, <2>2, <2>3
<1>4. /\ m[a][b] <= m[a][c] + m[c][b]
      /\ m[a][j] <= m[a][c] + m[c][j]
      /\ m[j][b] <= m[j][c] + m[c][b]
  BY <1>3
<1>5. /\ m[a][b] \in Nat /\ m[a][c] \in Nat /\ m[c][b] \in Nat /\ m[a][j] \in Nat
      /\ m[j][b] \in Nat /\ m[c][j] \in Nat /\ m[j][c] \in Nat
  BY <1>1
<1> QED  BY <1>4, <1>5 DEF Target, Via

-----------------------------------------------------------------------------
(* The invariant holds before the file is read. *)
LEMMA InitInv == Init => IInv
  BY DistanceAssumption
  DEF Init, IInv, TypeOK, Router, Matrix, Distances

(* The loop counters stay in range. *)
LEMMA CountersInRange ==
  ASSUME src \in Router, dst \in Router, NextPair
  PROVE  src' \in Router /\ dst' \in Router
  BY DistanceAssumption DEF NextPair, Router

(* Reading a link keeps the invariant; the last one establishes it for     *)
(* floyd_warshall.                                                         *)
LEMMA ReadLinkInv == IInv /\ ReadLink => IInv'
<1> SUFFICES ASSUME IInv, ReadLink PROVE IInv'
  OBVIOUS
<1>1. num_channel \in Nat \ {0} /\ inf_distance \in Nat
  BY DistanceAssumption
<1>2. TypeOK /\ pc = "read" /\ src \in Router /\ dst \in Router
  BY DEF IInv, ReadLink, TypeOK
<1>3. topology' \in Matrix
  <2>1. PICK v \in LinkInts \cup DiagonalInts :
          topology' = [topology EXCEPT ![src][dst] = Converted(v)]
    BY DEF ReadLink
  <2> QED  BY <1>2, <2>1, ConvertedInRange DEF TypeOK, Matrix
<1>4. src' \in Router /\ dst' \in Router
  BY <1>2, CountersInRange DEF ReadLink
<1>5. intermediate' \in 0 .. num_channel
  BY <1>2 DEF ReadLink, TypeOK
<1>6. CASE ~LastPair
  <2>1. pc' = "read" /\ solution' = solution /\ intermediate' = 0
    BY <1>2, <1>6 DEF ReadLink, IInv
  <2> QED  BY <1>2, <1>3, <1>4, <1>5, <2>1 DEF IInv, TypeOK
<1>7. CASE LastPair
  <2>1. pc' = "relax" /\ solution' = topology' /\ solution' \in Matrix
    BY <1>3, <1>7 DEF ReadLink
  <2>2. src' = 0 /\ dst' = 0
    BY <1>2, <1>7 DEF ReadLink, NextPair, LastPair
  <2>3. intermediate' = 0
    BY <1>2 DEF IInv, ReadLink
  <2>4. Below(solution', topology') /\ (Greatest(solution))'
    BY <2>1 DEF Below, Greatest, Matrix, Distances
  <2>5. RelaxInv'
    BY <2>2, <2>3 DEF RelaxInv, Processed, Router
  <2> QED  BY <1>1, <1>3, <1>4, <1>5, <2>1, <2>3, <2>4, <2>5 DEF IInv, TypeOK
<1> QED  BY <1>6, <1>7

(* After the assignment the pairs of this round up to the current one have *)
(* their targets.                                                          *)
LEMMA TargetReached ==
  ASSUME IInv, pc = "relax", NEW a \in Router, NEW b \in Router,
         Processed(a, b) \/ (a = src /\ b = dst)
  PROVE  Relaxed[a][b] = Target(solution, intermediate, a, b)
<1>1. TypeOK /\ RelaxInv  BY DEF IInv
<1>2. CASE a = src /\ b = dst
  BY <1>1, <1>2, RelaxedPair
<1>3. CASE ~(a = src /\ b = dst)
  <2>1. Relaxed[a][b] = solution[a][b]
    BY <1>1, <1>3, RelaxedPair
  <2>2. solution[a][b] <= Via(solution, intermediate, a, b)
    BY <1>1, <1>3 DEF RelaxInv
  <2>3. intermediate \in Router /\ solution \in Matrix
    BY <1>1, DistanceAssumption DEF TypeOK, Router
  <2>4. /\ solution[a][b] \in Int /\ solution[a][intermediate] \in Int
        /\ solution[intermediate][b] \in Int
    BY <2>3 DEF Matrix, Distances
  <2> QED  BY <2>1, <2>2, <2>4 DEF Target, Via
<1> QED  BY <1>2, <1>3

(* With the last pair of a round every pair has its target, and no detour  *)
(* through this round's or an earlier router is shorter.                   *)
LEMMA RoundEnds ==
  ASSUME IInv, pc = "relax", LastPair
  PROVE  /\ \A a, b \in Router : Relaxed[a][b] <= Via(Relaxed, intermediate, a, b)
         /\ \A a, b, c \in Router : c < intermediate =>
              Relaxed[a][b] <= Relaxed[a][c] + Relaxed[c][b]
<1>1. TypeOK /\ RelaxInv /\ num_channel \in Nat \ {0}
  BY DistanceAssumption DEF IInv
<1>2. \A a, b \in Router : Relaxed[a][b] = Target(solution, intermediate, a, b)
  <2> TAKE a, b \in Router
  <2>1. Processed(a, b) \/ (a = src /\ b = dst)
    BY <1>1 DEF LastPair, Processed, Router
  <2> QED  BY <2>1, TargetReached
<1>3. \A a, b \in Router : Relaxed[a][b] <= Via(Relaxed, intermediate, a, b)
  <2> TAKE a, b \in Router
  <2>1. Via(Relaxed, intermediate, a, b) = Via(solution, intermediate, a, b)
    BY <1>1, TargetsKept
  <2>2. intermediate \in Router /\ solution \in Matrix
    BY <1>1 DEF TypeOK, Router
  <2>3. /\ solution[a][b] \in Int /\ solution[a][intermediate] \in Int
        /\ solution[intermediate][b] \in Int
    BY <2>2 DEF Matrix, Distances
  <2> QED  BY <1>2, <2>1, <2>3 DEF Target, Via
<1>4. \A a, b, c \in Router : c < intermediate =>
        Relaxed[a][b] <= Relaxed[a][c] + Relaxed[c][b]
  BY <1>1, <1>2 DEF RelaxInv
<1> QED  BY <1>3, <1>4

(* An iteration of floyd_warshall keeps the invariant. *)
LEMMA RelaxStepInv == IInv /\ Relax => IInv'
<1> SUFFICES ASSUME IInv, Relax PROVE IInv'
  OBVIOUS
<1> DEFINE i == intermediate
<1>1. num_channel \in Nat \ {0} /\ inf_distance \in Nat
  BY DistanceAssumption
<1>2. /\ TypeOK /\ pc = "relax" /\ RelaxInv /\ solution' = Relaxed
      /\ topology' = topology /\ Below(solution, topology) /\ Greatest(solution)
  BY DEF IInv, Relax
<1>3. Relaxed \in Matrix /\ topology \in Matrix /\ solution \in Matrix
  BY <1>2, RelaxedPair DEF TypeOK
<1>4. i \in Router /\ src \in Router /\ dst \in Router
  BY <1>1, <1>2 DEF TypeOK, Router
<1>5. src' \in Router /\ dst' \in Router
  BY <1>4, CountersInRange DEF Relax
<1>6. Below(solution, topology)'
  <2> SUFFICES ASSUME NEW a \in Router, NEW b \in Router
               PROVE  Relaxed[a][b] <= topology[a][b]
    BY <1>2 DEF Below
  <2>1. /\ solution[a][b] \in Int /\ topology[a][b] \in Int
        /\ solution[a][i] \in Int /\ solution[i][b] \in Int
    BY <1>3, <1>4 DEF Matrix, Distances
  <2>2. solution[a][b] <= topology[a][b]  BY <1>2 DEF Below
  <2>3. CASE a = src /\ b = dst
    BY <1>2, <2>1, <2>2, <2>3, RelaxedPair DEF Target, Via
  <2>4. CASE a # src \/ b # dst
    BY <1>2, <2>2, <2>4, RelaxedPair
  <2> QED  BY <2>3, <2>4
<1>7. (Greatest(solution))'
  <2> SUFFICES ASSUME NEW n \in Matrix, Below(n, topology), NoShortcut(n)
               PROVE  Below(n, Relaxed)
    BY <1>2 DEF Greatest, Below
  <2>1. Below(n, solution)  BY <1>2 DEF Greatest
  <2> QED  BY <1>2, <2>1, RelaxedAbove
<1>8. CASE ~LastPair
  <2>1. pc' = "relax" /\ i' = i
    BY <1>2, <1>8 DEF Relax
  <2>2. TypeOK'
    BY <1>1, <1>2, <1>3, <1>4, <1>5, <2>1 DEF TypeOK, Router
  <2>3. \A a, b \in Router : Processed(a, b)' => Processed(a, b) \/ (a = src /\ b = dst)
    BY <1>1, <1>4, <1>8 DEF Relax, NextPair, LastPair, Processed, Router
  <2>4. \A a, b \in Router : Processed(a, b)' =>
          solution'[a][b] <= Via(solution', i', a, b)
    <3> SUFFICES ASSUME NEW a \in Router, NEW b \in Router,
                        Processed(a, b) \/ (a = src /\ b = dst)
                 PROVE  Relaxed[a][b] <= Via(Relaxed, i, a, b)
      BY <1>2, <2>1, <2>3
    <3>1. Relaxed[a][b] = Target(solution, i, a, b)
      BY <1>2, TargetReached
    <3>2. Via(Relaxed, i, a, b) = Via(solution, i, a, b)
      BY <1>2, TargetsKept
    <3>3. /\ solution[a][b] \in Int /\ solution[a][i] \in Int
          /\ solution[i][b] \in Int
      BY <1>3, <1>4 DEF Matrix, Distances
    <3> QED  BY <3>1, <3>2, <3>3 DEF Target, Via
  <2>5. \A a, b, c \in Router : c < i' =>
          Target(solution', i', a, b)
            <= Target(solution', i', a, c) + Target(solution', i', c, b)
    BY <1>2, <2>1, TargetsKept DEF RelaxInv
  <2>6. RelaxInv'
    BY <2>4, <2>5 DEF RelaxInv
  <2> QED  BY <1>6, <1>7, <2>1, <2>2, <2>6 DEF IInv
<1>9. CASE LastPair /\ i # num_channel - 1
  <2>1. pc' = "relax" /\ i' = i + 1 /\ src' = 0 /\ dst' = 0
    BY <1>2, <1>9 DEF Relax, NextPair, LastPair
  <2>2. TypeOK' /\ i' \in Router
    BY <1>1, <1>2, <1>3, <1>4, <1>5, <1>9, <2>1 DEF TypeOK, Router
  <2>3. \A c \in Router : c < i' => c <= i
    BY <1>4, <2>1 DEF Router
  <2>4. \A a, b, c \in Router : c < i' =>
          Target(Relaxed, i', a, b)
            <= Target(Relaxed, i', a, c) + Target(Relaxed, i', c, b)
    BY <1>2, <1>3, <1>4, <1>9, <2>2, <2>3, RoundEnds, RoundClosed
  <2>5. \A a, b \in Router : ~Processed(a, b)'
    BY <2>1 DEF Processed, Router
  <2>6. RelaxInv'
    BY <1>2, <2>4, <2>5 DEF RelaxInv
  <2> QED  BY <1>6, <1>7, <2>1, <2>2, <2>6 DEF IInv
<1>10. CASE LastPair /\ i = num_channel - 1
  <2>1. pc' = "done" /\ i' = i + 1
    BY <1>2, <1>10 DEF Relax
  <2>2. TypeOK'
    BY <1>1, <1>2, <1>3, <1>4, <1>5, <1>10, <2>1 DEF TypeOK, Router
  <2>3. \A a, b, c \in Router : Relaxed[a][b] <= Relaxed[a][c] + Relaxed[c][b]
    <3> TAKE a, b, c \in Router
    <3>1. c < i \/ c = i
      BY <1>1, <1>10 DEF Router
    <3> QED  BY <1>2, <1>10, <3>1, RoundEnds DEF Via
  <2>4. NoShortcut(solution)'
    BY <1>2, <2>3 DEF NoShortcut
  <2> QED  BY <1>6, <1>7, <2>1, <2>2, <2>4 DEF IInv
<1> QED  BY <1>8, <1>9, <1>10

-----------------------------------------------------------------------------
(* The invariant holds in every reachable state. *)
THEOREM Inductive == Spec => []IInv
<1>1. IInv /\ [Next]_vars => IInv'
  <2> SUFFICES ASSUME IInv, [Next]_vars PROVE IInv'
    OBVIOUS
  <2>1. CASE ReadLink  BY <2>1, ReadLinkInv
  <2>2. CASE Relax  BY <2>2, RelaxStepInv
  <2>3. CASE UNCHANGED vars
    BY <2>3 DEF IInv, TypeOK, RelaxInv, Processed, Below, Greatest, NoShortcut, vars
  <2> QED  BY <2>1, <2>2, <2>3 DEF Next, Terminated
<1> QED  BY InitInv, <1>1, PTL DEF Spec

(* Type correctness: negative integers included, every entry is a distance *)
(* of at most inf_distance and the loops stay within the matrix.           *)
THEOREM TypeCorrect == Spec => []TypeOK
<1>1. IInv => TypeOK  BY DEF IInv
<1> QED  BY Inductive, <1>1, PTL

(* The sums that floyd_warshall compares and stores never wrap around.     *)
THEOREM SumsExact == Spec => []NoWrap
<1>1. IInv => NoWrap
  <2> SUFFICES ASSUME IInv, pc = "relax"
               PROVE  solution[src][intermediate] + solution[intermediate][dst] < Modulus
    BY DEF NoWrap
  <2>1. intermediate \in Router /\ src \in Router /\ dst \in Router /\ solution \in Matrix
    BY DistanceAssumption DEF IInv, TypeOK, Router
  <2>2. solution[src][intermediate] \in Distances /\ solution[intermediate][dst] \in Distances
    BY <2>1 DEF Matrix
  <2> QED  BY <2>2, PlusExact
<1> QED  BY Inductive, <1>1, PTL

(* floyd_warshall is correct: what it leaves in solution is the largest    *)
(* matrix below the topology in which no detour is shorter.                *)
THEOREM FloydWarshallCorrect == Spec => []SolutionCorrect
<1>1. IInv => SolutionCorrect
  BY DEF IInv, TypeOK, SolutionCorrect, IsSolution, Greatest
<1> QED  BY Inductive, <1>1, PTL
=============================================================================
