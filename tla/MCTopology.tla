----------------------------- MODULE MCTopology -----------------------------
(***************************************************************************)
(* Small instances of Topology for TLC.                                    *)
(***************************************************************************)
EXTENDS Topology

(* A link or none: three links in a row are shorter than inf_distance 7. *)
LinkOrNone == {-1, 2}

(* Every integer of a three-bit distance_t. *)
AllInts == -4 .. 3
=============================================================================
