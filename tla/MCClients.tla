----------------------------- MODULE MCClients -----------------------------
(***************************************************************************)
(* Small instances of Clients for TLC: temporal properties, no symmetry.   *)
(***************************************************************************)
EXTENDS Clients
=============================================================================
