----------------------------- MODULE MCChannel -----------------------------
(***************************************************************************)
(* Small instances of Channel for TLC.                                     *)
(***************************************************************************)
EXTENDS ChannelRefinement, TLC

(* Neither the identity of a thread nor that of a message matters. *)
Symmetry == Permutations(Thread) \cup Permutations(Value)
=============================================================================
