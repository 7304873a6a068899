-------------------------- MODULE ChannelRefinement --------------------------
(***************************************************************************)
(* Channel implements AtomicChannel.  A call takes effect in the critical  *)
(* section that decides its outcome; taking the mutex, sleeping and waking *)
(* up are invisible.                                                       *)
(***************************************************************************)
EXTENDS Channel

PhaseOf(p) ==
  CASE p = "idle" -> "idle"
    [] p \in {"unlock", "return"} -> "done"
    [] OTHER -> "pending"

Atomic == INSTANCE AtomicChannel WITH
  exists <- allocated,
  queue <- Contents(buffer),
  capacity <- buffer.capacity,
  open <- (closed # 0),
  phase <- [t \in Thread |-> PhaseOf(pc[t])]

(* The mutex, the two condition variables and the ring buffer of channel.c  *)
(* together behave as an atomic bounded FIFO queue that can be closed: no   *)
(* message is lost, duplicated or reordered, and every status is the one    *)
(* the queue calls for at a single instant within the call.                 *)
ImplementsAtomic == Atomic!Spec
=============================================================================
