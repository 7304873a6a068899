---------------------------- MODULE AtomicChannel ----------------------------
(***************************************************************************)
(* What the operations of channel.h promise their callers: a bounded FIFO  *)
(* queue with a closed state, on which every call takes effect at one      *)
(* instant between its invocation and its return.  There is no mutex, no   *)
(* condition variable and no ring: a blocking call that cannot take effect *)
(* yet simply stays pending.                                               *)
(*                                                                         *)
(* A queue of capacity 0 accepts nothing: the rendezvous the header asks   *)
(* of an unbuffered channel is not part of what channel.c implements.      *)
(***************************************************************************)
EXTENDS ChannelStatus, Sequences

CONSTANTS
  Value,       (* messages                                                 *)
  Uninit,      (* no message                                               *)
  Thread,
  Capacities   (* the capacities a queue may be created with               *)

VARIABLES
  exists,      (* created and not yet destroyed                            *)
  queue,       (* the messages sent and not yet received, oldest first     *)
  capacity,
  open,
  phase,       (* idle, pending (invoked), done (took effect)              *)
  op, arg, status, data

queueVars == <<exists, queue, capacity, open>>
vars == <<exists, queue, capacity, open, phase, op, arg, status, data>>

-----------------------------------------------------------------------------
Invoke(t, o, v) ==
  /\ exists /\ phase[t] = "idle"
  /\ phase' = [phase EXCEPT ![t] = "pending"]
  /\ op' = [op EXCEPT ![t] = o]
  /\ arg' = [arg EXCEPT ![t] = v]
  /\ UNCHANGED <<queueVars, status, data>>

Return(t) ==
  /\ phase[t] = "done"
  /\ phase' = [phase EXCEPT ![t] = "idle"]
  /\ op' = [op EXCEPT ![t] = "none"]
  /\ arg' = [arg EXCEPT ![t] = Uninit]
  /\ status' = [status EXCEPT ![t] = GEN_ERROR]
  /\ data' = [data EXCEPT ![t] = Uninit]
  /\ UNCHANGED queueVars

(* A pending call takes effect, with outcome s. *)
Effect(t, s) ==
  /\ exists /\ phase[t] = "pending"
  /\ phase' = [phase EXCEPT ![t] = "done"]
  /\ status' = [status EXCEPT ![t] = s]
  /\ UNCHANGED <<exists, capacity, op, arg>>

Send(t) ==
  /\ op[t] \in SendOps
  /\ open /\ Len(queue) < capacity
  /\ queue' = Append(queue, arg[t])
  /\ Effect(t, SUCCESS)
  /\ UNCHANGED <<open, data>>

Full(t) ==
  /\ op[t] = "non_blocking_send"
  /\ open /\ Len(queue) = capacity
  /\ Effect(t, CHANNEL_FULL)
  /\ UNCHANGED <<queue, open, data>>

Receive(t) ==
  /\ op[t] \in ReceiveOps
  /\ open /\ queue # <<>>
  /\ queue' = Tail(queue)
  /\ data' = [data EXCEPT ![t] = Head(queue)]
  /\ Effect(t, SUCCESS)
  /\ UNCHANGED open

Empty(t) ==
  /\ op[t] = "non_blocking_receive"
  /\ open /\ queue = <<>>
  /\ Effect(t, CHANNEL_EMPTY)
  /\ UNCHANGED <<queue, open, data>>

Close(t) ==
  /\ op[t] = "close"
  /\ open
  /\ open' = FALSE
  /\ Effect(t, SUCCESS)
  /\ UNCHANGED <<queue, data>>

(* Every operation on a closed channel, a second close included. *)
Refuse(t) ==
  /\ ~open
  /\ Effect(t, CLOSED_ERROR)
  /\ UNCHANGED <<queue, open, data>>

-----------------------------------------------------------------------------
(* An operation that finds no channel. *)
InvokeNull(t, o) ==
  /\ phase[t] = "idle"
  /\ phase' = [phase EXCEPT ![t] = "done"]
  /\ op' = [op EXCEPT ![t] = o]
  /\ status' = [status EXCEPT ![t] = NullChannelStatus(o)]
  /\ UNCHANGED <<queueVars, arg, data>>

Create(t, size) ==
  /\ ~exists /\ phase[t] = "idle"
  /\ exists' = TRUE
  /\ queue' = <<>>
  /\ capacity' = size
  /\ open' = TRUE
  /\ UNCHANGED <<phase, op, arg, status, data>>

(* Called when no other thread is in a call, as channel.h requires. *)
Destroy(t) ==
  /\ exists
  /\ \A u \in Thread : phase[u] = "idle"
  /\ phase' = [phase EXCEPT ![t] = "done"]
  /\ op' = [op EXCEPT ![t] = "destroy"]
  /\ \/ /\ open
        /\ status' = [status EXCEPT ![t] = DESTROY_ERROR]
        /\ UNCHANGED queueVars
     \/ /\ ~open
        /\ status' = [status EXCEPT ![t] = SUCCESS]
        /\ exists' = FALSE /\ queue' = <<>> /\ capacity' = 0
        /\ UNCHANGED open
  /\ UNCHANGED <<arg, data>>

-----------------------------------------------------------------------------
Init ==
  /\ exists = FALSE /\ queue = <<>> /\ capacity = 0 /\ open = FALSE
  /\ phase = [t \in Thread |-> "idle"]
  /\ op = [t \in Thread |-> "none"]
  /\ arg = [t \in Thread |-> Uninit]
  /\ status = [t \in Thread |-> GEN_ERROR]
  /\ data = [t \in Thread |-> Uninit]

Next == \E t \in Thread :
  \/ \E o \in SendOps, v \in Value : Invoke(t, o, v)
  \/ \E o \in ReceiveOps \cup {"close"} : Invoke(t, o, Uninit)
  \/ \E o \in NullChannelOps : InvokeNull(t, o)
  \/ \E size \in Capacities : Create(t, size)
  \/ Destroy(t)
  \/ Send(t) \/ Full(t) \/ Receive(t) \/ Empty(t) \/ Close(t) \/ Refuse(t)
  \/ Return(t)

Spec == Init /\ [][Next]_vars
=============================================================================
