------------------------------ MODULE Distance ------------------------------
(***************************************************************************)
(* The distances of stress.c: unsigned integers whose largest half stands  *)
(* for negative numbers, and matrices of them.                             *)
(***************************************************************************)
EXTENDS Integers

CONSTANTS
  num_channel,   (* the routers, numbered from 0                           *)
  inf_distance   (* 0x7fffffff, or the same for a narrower distance_t      *)

ASSUME DistanceAssumption ==
  num_channel \in Nat \ {0} /\ inf_distance \in Nat \ {0}

Router == 0 .. num_channel - 1

(* Mutant: inf_distance is the largest distance_t. *)
PlusNarrow(a, b) == (a + b) % (inf_distance + 1)

(* The addition of distance_t. *)
Modulus == 2 * (inf_distance + 1)
Plus(a, b) == (a + b) % Modulus

Distances == 0 .. inf_distance
Matrix == [Router -> [Router -> Distances]]

Below(m, n) == \A a, b \in Router : m[a][b] <= n[a][b]

(* No detour is shorter. *)
NoShortcut(m) == \A a, b, c \in Router : m[a][c] <= m[a][b] + m[b][c]

(***************************************************************************)
(* The distances in a network with the links t: the largest matrix below t *)
(* in which no detour is shorter.                                          *)
(***************************************************************************)
IsSolution(m, t) ==
  /\ m \in Matrix /\ Below(m, t) /\ NoShortcut(m)
  /\ \A n \in Matrix : Below(n, t) /\ NoShortcut(n) => Below(n, m)

(***************************************************************************)
(* The same distances computed, for TLC: walks of at most k links, with k  *)
(* up to the number of routers.                                            *)
(***************************************************************************)
Least(S) == CHOOSE x \in S : \A y \in S : x <= y

ShortestWalks(t) ==
  LET D[k \in Nat \ {0}] ==
        IF k = 1 THEN t
        ELSE LET prev == D[k - 1]
             IN  [a \in Router |-> [b \in Router |->
                    Least({prev[a][b]} \cup {prev[a][m] + t[m][b] : m \in Router})]]
  IN  D[num_channel]
=============================================================================
