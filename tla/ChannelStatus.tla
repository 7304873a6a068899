---------------------------- MODULE ChannelStatus ----------------------------
(***************************************************************************)
(* enum channel_status of channel.h, and the names of the operations.      *)
(* CHANNEL_EMPTY and CHANNEL_FULL are the same value.                      *)
(***************************************************************************)
EXTENDS Integers

CHANNEL_EMPTY == 0
CHANNEL_FULL  == 0
SUCCESS       == 1
GEN_ERROR     == -1
CLOSED_ERROR  == -2
DESTROY_ERROR == -3

Statuses == {CHANNEL_EMPTY, CHANNEL_FULL, SUCCESS, GEN_ERROR, CLOSED_ERROR,
             DESTROY_ERROR}

SendOps    == {"send", "non_blocking_send"}
ReceiveOps == {"receive", "non_blocking_receive"}
LockedOps  == SendOps \cup ReceiveOps \cup {"close"}

(* The operations that test for a NULL channel, and what they return then. *)
NullChannelOps == {"non_blocking_send", "non_blocking_receive", "close"}

NullChannelStatus(o) == IF o = "close" THEN CLOSED_ERROR ELSE GEN_ERROR
=============================================================================
