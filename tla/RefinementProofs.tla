-------------------------- MODULE RefinementProofs --------------------------
(***************************************************************************)
(* channel.c implements the atomic channel, for any threads, messages and  *)
(* capacities.  Every critical section that decides a call's outcome maps  *)
(* to the step in which the abstract call takes effect; locking, sleeping  *)
(* and waking up map to stuttering.                                        *)
(***************************************************************************)
EXTENDS ChannelRefinement, ChannelProofs

(* What the phases of the program counters are called. *)
LEMMA PhaseValues ==
  /\ PhaseOf("idle") = "idle"
  /\ PhaseOf("unlock") = "done" /\ PhaseOf("return") = "done"
  /\ PhaseOf("lock") = "pending" /\ PhaseOf("body") = "pending"
  /\ PhaseOf("wait") = "pending"
  BY DEF PhaseOf

(* Before channel_create there is no queue. *)
LEMMA InitRefines == Init => Atomic!Init
<1> SUFFICES ASSUME Init PROVE Atomic!Init
  OBVIOUS
<1>1. Contents(buffer) = << >> /\ buffer.capacity = 0
  BY CreateLemma DEF Init, NoChannel
<1> QED
  BY <1>1, PhaseValues DEF Init, NoChannel, Atomic!Init, GEN_ERROR, Atomic!GEN_ERROR

(* Calls, creation and destruction are the abstract ones. *)
LEMMA StartRefines ==
  ASSUME IInv, NEW t \in Thread, Start(t)
  PROVE  Atomic!Next
<1> USE DEF chan, Atomic!queueVars
<1>1. ASSUME NEW o \in SendOps, NEW v \in Value, Call(t, o, v)
      PROVE  Atomic!Invoke(t, o, v)
  <2>0. [u \in Thread |-> PhaseOf(pc[u])]' =
          [[u \in Thread |-> PhaseOf(pc[u])] EXCEPT ![t] = "pending"]
    BY <1>1, PhaseValues DEF Call, IInv, TypeOK
  <2> QED
    BY <1>1, <2>0, PhaseValues DEF Call, Atomic!Invoke
<1>2. ASSUME NEW o \in ReceiveOps \cup {"close"}, Call(t, o, Uninit)
      PROVE  Atomic!Invoke(t, o, Uninit)
  <2>0. [u \in Thread |-> PhaseOf(pc[u])]' =
          [[u \in Thread |-> PhaseOf(pc[u])] EXCEPT ![t] = "pending"]
    BY <1>2, PhaseValues DEF Call, IInv, TypeOK
  <2> QED
    BY <1>2, <2>0, PhaseValues DEF Call, Atomic!Invoke
<1>3. ASSUME NEW o \in NullChannelOps, CallNull(t, o)
      PROVE  Atomic!InvokeNull(t, o)
  <2>0. [u \in Thread |-> PhaseOf(pc[u])]' =
          [[u \in Thread |-> PhaseOf(pc[u])] EXCEPT ![t] = "done"]
    BY <1>3, PhaseValues DEF CallNull, IInv, TypeOK
  <2> QED
    BY <1>3, <2>0, PhaseValues DEF CallNull, Atomic!InvokeNull, NullChannelStatus,
       Atomic!NullChannelStatus, GEN_ERROR, CLOSED_ERROR, Atomic!GEN_ERROR, Atomic!CLOSED_ERROR
<1>4. ASSUME NEW size \in Capacities, channel_create(t, size)
      PROVE  Atomic!Create(t, size)
  <2>1. Contents(buffer') = << >> /\ buffer'.capacity = size
    BY <1>4, CreateLemma, ThreadAssumption DEF channel_create
  <2> QED
    BY <1>4, <2>1, PhaseValues DEF channel_create, frame, Atomic!Create
<1>5. ASSUME channel_destroy(t)
      PROVE  Atomic!Destroy(t)
  <2>0. [u \in Thread |-> PhaseOf(pc[u])]' =
          [[u \in Thread |-> PhaseOf(pc[u])] EXCEPT ![t] = "done"]
    BY <1>5, PhaseValues DEF channel_destroy, IInv, TypeOK
  <2>1. closed \in {0, 1}
    BY DEF IInv, TypeOK
  <2>2. closed # 1 => Contents(buffer') = << >> /\ buffer'.capacity = 0
    BY <1>5, CreateLemma DEF channel_destroy
  <2>3. \A u \in Thread : pc[u] = "idle"
    BY <1>5 DEF channel_destroy, OthersFinished
  <2>4. \A u \in Thread : [w \in Thread |-> PhaseOf(pc[w])][u] = "idle"
    BY <2>3, PhaseValues
  <2>5. CASE closed = 1
    BY <1>5, <2>0, <2>4, <2>5
       DEF channel_destroy, Atomic!Destroy, DESTROY_ERROR, Atomic!DESTROY_ERROR
  <2>6. CASE closed = 0
    BY <1>5, <2>0, <2>2, <2>4, <2>6
       DEF channel_destroy, Atomic!Destroy, SUCCESS, Atomic!SUCCESS
  <2> QED
    BY <2>1, <2>5, <2>6
<1> QED
  BY <1>1, <1>2, <1>3, <1>4, <1>5
     DEF Start, Atomic!Next, Atomic!SendOps, Atomic!ReceiveOps, Atomic!NullChannelOps,
         SendOps, ReceiveOps, NullChannelOps

(* Taking the mutex and waking up are invisible, and leaving an operation   *)
(* is the abstract return.                                                  *)
LEMMA SyncRefines ==
  ASSUME IInv, NEW t \in Thread,
         Lock(t) \/ Relock(t) \/ Unlock(t) \/ Return(t) \/ SpuriousWakeup(t)
  PROVE  Atomic!Return(t) \/ UNCHANGED Atomic!vars
<1> USE DEF chan, frame, Atomic!queueVars
<1>1. CASE Lock(t) \/ Relock(t) \/ SpuriousWakeup(t)
  <2>1. [u \in Thread |-> PhaseOf(pc[u])]' = [u \in Thread |-> PhaseOf(pc[u])]
    BY <1>1, PhaseValues DEF Lock, Relock, SpuriousWakeup, IInv, TypeOK
  <2> QED
    BY <1>1, <2>1 DEF Lock, Relock, SpuriousWakeup, Atomic!vars
<1>2. CASE Unlock(t) \/ Return(t)
  <2>1. [u \in Thread |-> PhaseOf(pc[u])]' =
          [[u \in Thread |-> PhaseOf(pc[u])] EXCEPT ![t] = "idle"]
    BY <1>2, PhaseValues DEF Unlock, Return, IInv, TypeOK
  <2> QED
    BY <1>2, <2>1, PhaseValues
       DEF Unlock, Return, ResetFrame, Atomic!Return, GEN_ERROR, Atomic!GEN_ERROR
<1> QED
  BY <1>1, <1>2

(* A critical section decides the outcome of the call in one abstract step, *)
(* or goes to sleep unseen.                                                 *)
LEMMA BodyRefines ==
  ASSUME IInv, NEW t \in Thread, Body(t)
  PROVE  \/ Atomic!Send(t) \/ Atomic!Full(t) \/ Atomic!Receive(t) \/ Atomic!Empty(t)
         \/ Atomic!Close(t) \/ Atomic!Refuse(t)
         \/ UNCHANGED Atomic!vars
<1> USE DEF InBodyOpen, frame, Atomic!queueVars
<1>1. /\ BufferOK(buffer)
      /\ Contents(buffer) \in Seq(Value) /\ Len(Contents(buffer)) = buffer.size
      /\ buffer.size \in Nat /\ buffer.capacity \in Nat
      /\ pc[t] = "body" => allocated
      /\ pc[t] = "body" => (op[t] \in SendOps => arg[t] \in Value)
  BY ContentsLemma DEF IInv, TypeOK, BufferOK, NoUseAfterFree, CallInv
<1>2. ASSUME NEW s, Finish(t, s), pc[t] = "body", buffer'.capacity = buffer.capacity
      PROVE  Atomic!Effect(t, s)
  <2>1. [u \in Thread |-> PhaseOf(pc[u])]' =
          [[u \in Thread |-> PhaseOf(pc[u])] EXCEPT ![t] = "done"]
    BY <1>2, PhaseValues DEF Finish, IInv, TypeOK
  <2> QED
    BY <1>1, <1>2, <2>1, PhaseValues DEF Finish, Atomic!Effect
<1>3. CASE Refused(t)
  <2>1. Atomic!Effect(t, CLOSED_ERROR)
    BY <1>2, <1>3 DEF Refused, FinishUnchanged
  <2>2. Atomic!Refuse(t)
    BY <1>3, <2>1 DEF Refused, FinishUnchanged, Atomic!Refuse, CLOSED_ERROR,
       Atomic!CLOSED_ERROR
  <2> QED
    BY <2>2
<1>4. CASE FoundFull(t)
  <2>1. Atomic!Effect(t, CHANNEL_FULL)
    BY <1>2, <1>4 DEF FoundFull, FinishUnchanged
  <2>2. Atomic!Full(t)
    BY <1>1, <1>4, <2>1 DEF FoundFull, FinishUnchanged, Atomic!Full, CHANNEL_FULL,
       Atomic!CHANNEL_FULL
  <2> QED
    BY <2>2
<1>5. CASE FoundEmpty(t)
  <2>1. Atomic!Effect(t, CHANNEL_EMPTY)
    BY <1>2, <1>5 DEF FoundEmpty, FinishUnchanged
  <2>2. Contents(buffer) = << >>
    BY <1>1, <1>5 DEF FoundEmpty
  <2>3. Atomic!Empty(t)
    BY <1>5, <2>1, <2>2 DEF FoundEmpty, FinishUnchanged, Atomic!Empty, CHANNEL_EMPTY,
       Atomic!CHANNEL_EMPTY
  <2> QED
    BY <2>3
<1>6. CASE Added(t)
  <2>1. /\ buffer'.capacity = buffer.capacity
        /\ Contents(buffer') = Append(Contents(buffer), arg[t])
    BY <1>1, <1>6, AddLemma DEF Added, FinishAdd
  <2>2. Atomic!Effect(t, SUCCESS)
    BY <1>2, <1>6, <2>1 DEF Added, FinishAdd
  <2>3. Atomic!Send(t)
    BY <1>1, <1>6, <2>1, <2>2 DEF Added, FinishAdd, Atomic!Send, SendOps, Atomic!SendOps,
       SUCCESS, Atomic!SUCCESS
  <2> QED
    BY <2>3
<1>7. CASE Removed(t)
  <2>1. /\ buffer'.capacity = buffer.capacity
        /\ Contents(buffer') = Tail(Contents(buffer))
        /\ data' = [data EXCEPT ![t] = Head(Contents(buffer))]
    BY <1>1, <1>7, RemoveLemma DEF Removed, FinishRemove
  <2>2. Atomic!Effect(t, SUCCESS)
    BY <1>2, <1>7, <2>1 DEF Removed, FinishRemove
  <2>3. Contents(buffer) # << >>
    BY <1>1, <1>7 DEF Removed
  <2>4. op[t] \in Atomic!ReceiveOps /\ closed # 0 /\ UNCHANGED closed
    BY <1>7 DEF Removed, FinishRemove, ReceiveOps, Atomic!ReceiveOps
  <2>5. Atomic!Effect(t, Atomic!SUCCESS)
    BY <2>2 DEF SUCCESS, Atomic!SUCCESS
  <2>6. Atomic!Receive(t)
    BY <2>1, <2>3, <2>4, <2>5 DEF Atomic!Receive
  <2> QED
    BY <2>6
<1>8. CASE SleptOnRead(t) \/ SleptOnWrite(t)
  <2>1. [u \in Thread |-> PhaseOf(pc[u])]' = [u \in Thread |-> PhaseOf(pc[u])]
    BY <1>8, PhaseValues DEF SleptOnRead, SleptOnWrite, WaitOnRead, WaitOnWrite, Sleep,
       IInv, TypeOK
  <2>2. UNCHANGED Atomic!vars
    BY <1>8, <2>1 DEF SleptOnRead, SleptOnWrite, WaitOnRead, WaitOnWrite, Sleep, Atomic!vars
  <2> QED
    BY <2>2
<1>9. CASE Closed(t)
  <2>1. Atomic!Effect(t, SUCCESS)
    BY <1>2, <1>9 DEF Closed
  <2>2. Atomic!Close(t)
    BY <1>9, <2>1 DEF Closed, Atomic!Close, SUCCESS, Atomic!SUCCESS
  <2> QED
    BY <2>2
<1> QED
  BY <1>3, <1>4, <1>5, <1>6, <1>7, <1>8, <1>9, BodyCases

-----------------------------------------------------------------------------
(* Every step of the channel is a step of the atomic channel, or invisible. *)
LEMMA NextRefines == IInv /\ [Next]_vars => [Atomic!Next]_(Atomic!vars)
<1> SUFFICES ASSUME IInv, [Next]_vars PROVE Atomic!Next \/ UNCHANGED Atomic!vars
  OBVIOUS
<1>1. CASE UNCHANGED vars
  BY <1>1 DEF vars, Atomic!vars
<1>2. ASSUME NEW t \in Thread, Step(t) \/ Start(t) \/ SpuriousWakeup(t)
      PROVE  Atomic!Next \/ UNCHANGED Atomic!vars
  <2>1. CASE Start(t)
    BY <2>1, StartRefines
  <2>2. CASE Lock(t) \/ Relock(t) \/ Unlock(t) \/ Return(t) \/ SpuriousWakeup(t)
    BY <2>2, SyncRefines DEF Atomic!Next
  <2>3. CASE Body(t)
    BY <2>3, BodyRefines DEF Atomic!Next
  <2> QED
    BY <1>2, <2>1, <2>2, <2>3 DEF Step, Body
<1> QED
  BY <1>1, <1>2 DEF Next

(* channel.c is linearizable to a bounded FIFO queue that can be closed. *)
THEOREM Refinement == Spec => ImplementsAtomic
  BY InitRefines, NextRefines, Invariance, PTL DEF Spec, Atomic!Spec, ImplementsAtomic
=============================================================================
