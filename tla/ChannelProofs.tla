---------------------------- MODULE ChannelProofs ----------------------------
(***************************************************************************)
(* The safety of channel.c for any finite set of threads, any set of       *)
(* messages and any capacities, and before it the lemmas about buffer.c    *)
(* that it rests on.                                                       *)
(***************************************************************************)
EXTENDS Channel, SequenceTheorems, FiniteSetTheorems, TLAPS

-----------------------------------------------------------------------------
(***************************************************************************)
(* What the functions of buffer.c do to the sequence of messages a buffer  *)
(* holds, for every capacity and every position of the ring.               *)
(***************************************************************************)

(* A buffer from buffer_create is well formed and empty. *)
LEMMA CreateLemma ==
  ASSUME NEW capacity \in Nat
  PROVE  /\ BufferOK(buffer_create(capacity))
         /\ buffer_create(capacity).size = 0
         /\ buffer_create(capacity).capacity = capacity
         /\ Contents(buffer_create(capacity)) = << >>
  BY DEF BufferOK, buffer_create, Contents, SlotOf

(* The contents of a well-formed buffer are a sequence of its messages. *)
LEMMA ContentsLemma ==
  ASSUME NEW b, BufferOK(b)
  PROVE  /\ Contents(b) \in Seq(Value)
         /\ Len(Contents(b)) = b.size
         /\ \A i \in 1 .. b.size : Contents(b)[i] = b.data[SlotOf(b, i - 1)]
  BY DEF BufferOK, Contents

(* In a ring of k slots that starts at n, distinct offsets below k are      *)
(* distinct slots: the one buffer_add writes is not occupied.               *)
LEMMA DistinctSlots ==
  ASSUME NEW n \in Nat, NEW k \in Nat, n < k,
         NEW i \in Nat, NEW j \in Nat, i < j, j < k
  PROVE  LET slot(x) == IF n + x >= k THEN n + x - k ELSE n + x
         IN  slot(i) \in 0 .. k - 1 /\ slot(i) # slot(j)
<1>1. CASE n + i >= k
  BY <1>1
<1>2. CASE n + i < k
  BY <1>2
<1> QED
  BY <1>1, <1>2

(* Advancing the start of the ring, as buffer_remove does, is the same as   *)
(* advancing the offset.                                                    *)
LEMMA AdvanceSlot ==
  ASSUME NEW n \in Nat, NEW k \in Nat, n < k, NEW i \in Nat, i >= 1, i < k,
         NEW m, m = IF n + 1 >= k THEN n + 1 - k ELSE n + 1
  PROVE  (IF m + (i - 1) >= k THEN m + (i - 1) - k ELSE m + (i - 1)) =
         (IF n + i >= k THEN n + i - k ELSE n + i)
<1>1. CASE n + 1 >= k
  BY <1>1
<1>2. CASE n + 1 < k
  BY <1>2
<1> QED
  BY <1>1, <1>2

(* buffer_add fails exactly on a full buffer; otherwise it appends, and     *)
(* overwrites no message that is still in the ring.                         *)
LEMMA AddLemma ==
  ASSUME NEW b, BufferOK(b), NEW d \in Value
  PROVE  /\ buffer_add(b, d).status = BUFFER_ERROR <=> b.size = b.capacity
         /\ b.size < b.capacity =>
              LET c == buffer_add(b, d).buffer
              IN  /\ BufferOK(c)
                  /\ c.size = b.size + 1
                  /\ c.capacity = b.capacity
                  /\ Contents(c) = Append(Contents(b), d)
<1>1. /\ b.size \in Nat /\ b.next \in Nat /\ b.capacity \in Nat
      /\ b.size <= b.capacity
      /\ b.data \in [0 .. b.capacity - 1 -> Value \cup {Uninit}]
  BY DEF BufferOK
<1>2. buffer_add(b, d).status = BUFFER_ERROR <=> b.size = b.capacity
  BY <1>1 DEF buffer_add, BUFFER_ERROR, BUFFER_SUCCESS
<1>3. ASSUME b.size < b.capacity
      PROVE  LET c == buffer_add(b, d).buffer
             IN  /\ BufferOK(c)
                 /\ c.size = b.size + 1
                 /\ c.capacity = b.capacity
                 /\ Contents(c) = Append(Contents(b), d)
  <2> DEFINE c == buffer_add(b, d).buffer
             p == AddPos(b)
  <2>1. b.next < b.capacity
    BY <1>1, <1>3 DEF BufferOK
  <2>2. c = [size |-> b.size + 1, next |-> b.next, capacity |-> b.capacity,
             data |-> [b.data EXCEPT ![p] = d]]
    BY <1>1, <1>3 DEF buffer_add
  <2>3. p \in 0 .. b.capacity - 1 /\ p = SlotOf(b, b.size)
    BY <1>1, <1>3, <2>1 DEF AddPos, SlotOf
  <2>4. [b.data EXCEPT ![p] = d] \in [0 .. b.capacity - 1 -> Value \cup {Uninit}]
    BY <1>1, <2>3
  <2>5. /\ c \in [size : Nat, next : Nat, capacity : Nat,
                  data : [0 .. b.capacity - 1 -> Value \cup {Uninit}]]
        /\ c.size = b.size + 1 /\ c.next = b.next /\ c.capacity = b.capacity
        /\ c.data = [b.data EXCEPT ![p] = d]
    BY <1>1, <2>2, <2>4
  <2> HIDE DEF c
  <2>6. \A i \in 1 .. c.size : SlotOf(c, i - 1) = SlotOf(b, i - 1)
    BY <2>5 DEF SlotOf
  <2>7. \A i \in 1 .. b.size : /\ SlotOf(b, i - 1) \in 0 .. b.capacity - 1
                               /\ SlotOf(b, i - 1) # p
    <3> SUFFICES ASSUME NEW i \in 1 .. b.size
                 PROVE  SlotOf(b, i - 1) \in 0 .. b.capacity - 1 /\ SlotOf(b, i - 1) # p
      OBVIOUS
    <3>1. i - 1 \in Nat /\ i - 1 < b.size
      BY <1>1
    <3> QED
      BY <1>1, <1>3, <2>1, <2>3, <3>1, DistinctSlots DEF SlotOf
  <2> HIDE DEF p
  <2>8. \A i \in 1 .. b.size : c.data[SlotOf(c, i - 1)] = b.data[SlotOf(b, i - 1)]
    <3> SUFFICES ASSUME NEW i \in 1 .. b.size
                 PROVE  c.data[SlotOf(c, i - 1)] = b.data[SlotOf(b, i - 1)]
      OBVIOUS
    <3>1. i \in 1 .. c.size
      BY <1>1, <2>5
    <3>2. SlotOf(c, i - 1) = SlotOf(b, i - 1)
      BY <3>1, <2>6
    <3> QED
      BY <1>1, <3>2, <2>5, <2>7
  <2>9. c.data[SlotOf(c, c.size - 1)] = d
    BY <1>1, <2>3, <2>5, <2>6
  <2>10. \A i \in 1 .. c.size : c.data[SlotOf(c, i - 1)] \in Value
    <3> SUFFICES ASSUME NEW i \in 1 .. c.size
                 PROVE  c.data[SlotOf(c, i - 1)] \in Value
      OBVIOUS
    <3>1. CASE i = c.size
      BY <3>1, <2>9
    <3>2. CASE i # c.size
      <4>1. i \in 1 .. b.size
        BY <3>2, <2>5, <1>1
      <4> QED
        BY <4>1, <2>8 DEF BufferOK
    <3> QED
      BY <3>1, <3>2
  <2>11. BufferOK(c)
    BY <1>1, <1>3, <2>1, <2>5, <2>10 DEF BufferOK
  <2>12. Contents(c) = Append(Contents(b), d)
    <3>1. /\ Contents(b) \in Seq(Value) /\ Len(Contents(b)) = b.size
          /\ Contents(c) \in Seq(Value) /\ Len(Contents(c)) = b.size + 1
      BY <2>5, <2>11, ContentsLemma
    <3>2. /\ Append(Contents(b), d) \in Seq(Value)
          /\ Len(Append(Contents(b), d)) = b.size + 1
          /\ \A i \in 1 .. b.size + 1 :
               Append(Contents(b), d)[i] = IF i = b.size + 1 THEN d ELSE Contents(b)[i]
      BY <1>1, <3>1
    <3>3. \A i \in 1 .. c.size :
            c.data[SlotOf(c, i - 1)] = IF i = b.size + 1 THEN d ELSE Contents(b)[i]
      <4> SUFFICES ASSUME NEW i \in 1 .. c.size
                   PROVE  c.data[SlotOf(c, i - 1)]
                            = IF i = b.size + 1 THEN d ELSE Contents(b)[i]
        OBVIOUS
      <4>1. CASE i = b.size + 1
        BY <4>1, <2>5, <2>9
      <4>2. CASE i # b.size + 1
        <5>1. i \in 1 .. b.size
          BY <4>2, <2>5, <1>1
        <5> QED
          BY <5>1, <4>2, <2>8, ContentsLemma
      <4> QED
        BY <4>1, <4>2
    <3>4. \A i \in 1 .. c.size : Contents(c)[i] = c.data[SlotOf(c, i - 1)]
      BY <2>11, ContentsLemma
    <3>5. \A i \in 1 .. b.size + 1 : Contents(c)[i] = Append(Contents(b), d)[i]
      <4> SUFFICES ASSUME NEW i \in 1 .. b.size + 1
                   PROVE  Contents(c)[i] = Append(Contents(b), d)[i]
        OBVIOUS
      <4>1. i \in 1 .. c.size
        BY <2>5
      <4>2. Contents(c)[i] = IF i = b.size + 1 THEN d ELSE Contents(b)[i]
        BY <3>3, <3>4, <4>1
      <4>3. Append(Contents(b), d)[i] = IF i = b.size + 1 THEN d ELSE Contents(b)[i]
        BY <3>2
      <4> QED
        BY <4>2, <4>3
    <3> QED
      BY <3>1, <3>2, <3>5, SeqEqual
  <2> QED
    BY <2>5, <2>11, <2>12 DEF c
<1> QED
  BY <1>2, <1>3

(* buffer_remove fails exactly on an empty buffer; otherwise it returns the *)
(* oldest message, never an uninitialised slot, and leaves the others in    *)
(* order.                                                                   *)
LEMMA RemoveLemma ==
  ASSUME NEW b, BufferOK(b)
  PROVE  /\ buffer_remove(b).status = BUFFER_ERROR <=> b.size = 0
         /\ b.size > 0 =>
              LET c == buffer_remove(b).buffer
              IN  /\ BufferOK(c)
                  /\ c.size = b.size - 1
                  /\ c.capacity = b.capacity
                  /\ buffer_remove(b).data \in Value
                  /\ buffer_remove(b).data = Head(Contents(b))
                  /\ Contents(c) = Tail(Contents(b))
<1>1. /\ b.size \in Nat /\ b.next \in Nat /\ b.capacity \in Nat
      /\ b.size <= b.capacity
      /\ b.data \in [0 .. b.capacity - 1 -> Value \cup {Uninit}]
  BY DEF BufferOK
<1>2. buffer_remove(b).status = BUFFER_ERROR <=> b.size = 0
  BY <1>1 DEF buffer_remove, BUFFER_ERROR, BUFFER_SUCCESS
<1>3. ASSUME b.size > 0
      PROVE  LET c == buffer_remove(b).buffer
             IN  /\ BufferOK(c)
                 /\ c.size = b.size - 1
                 /\ c.capacity = b.capacity
                 /\ buffer_remove(b).data \in Value
                 /\ buffer_remove(b).data = Head(Contents(b))
                 /\ Contents(c) = Tail(Contents(b))
  <2> DEFINE c == buffer_remove(b).buffer
  <2>1. b.next < b.capacity
    BY <1>1, <1>3 DEF BufferOK
  <2>2. /\ c = [size |-> b.size - 1, next |-> NextSlot(b),
                capacity |-> b.capacity, data |-> b.data]
        /\ buffer_remove(b).data = b.data[b.next]
    BY <1>1, <1>3 DEF buffer_remove
  <2>3. NextSlot(b) \in 0 .. b.capacity - 1
    BY <1>1, <2>1 DEF NextSlot
  <2>5. /\ c \in [size : Nat, next : Nat, capacity : Nat,
                  data : [0 .. b.capacity - 1 -> Value \cup {Uninit}]]
        /\ c.size = b.size - 1 /\ c.next = NextSlot(b)
        /\ c.capacity = b.capacity /\ c.data = b.data
    BY <1>1, <1>3, <2>2, <2>3
  <2> HIDE DEF c
  <2>6. \A i \in 1 .. c.size : SlotOf(c, i - 1) = SlotOf(b, i)
    <3> SUFFICES ASSUME NEW i \in 1 .. c.size
                 PROVE  SlotOf(c, i - 1) = SlotOf(b, i)
      OBVIOUS
    <3>1. /\ i \in Nat /\ i >= 1 /\ i < b.capacity
          /\ c.capacity = b.capacity
          /\ c.next = IF b.next + 1 >= b.capacity THEN b.next + 1 - b.capacity
                                                 ELSE b.next + 1
      BY <1>1, <2>5 DEF NextSlot
    <3> QED
      BY <1>1, <2>1, <3>1, AdvanceSlot DEF SlotOf
  <2>7. b.next = SlotOf(b, 0)
    BY <1>1, <2>1 DEF SlotOf
  <2>8. \A i \in 1 .. c.size : c.data[SlotOf(c, i - 1)] = b.data[SlotOf(b, (i + 1) - 1)]
    BY <1>1, <2>5, <2>6
  <2>9. \A i \in 1 .. c.size : c.data[SlotOf(c, i - 1)] \in Value
    <3> SUFFICES ASSUME NEW i \in 1 .. c.size
                 PROVE  b.data[SlotOf(b, (i + 1) - 1)] \in Value
      BY <2>8
    <3>1. i + 1 \in 1 .. b.size
      BY <1>1, <2>5
    <3> QED
      BY <3>1 DEF BufferOK
  <2>10. BufferOK(c)
    BY <1>1, <1>3, <2>1, <2>3, <2>5, <2>9 DEF BufferOK
  <2>11. /\ Contents(b) \in Seq(Value) /\ Len(Contents(b)) = b.size
         /\ Contents(b)[1] = b.data[b.next]
    BY <1>1, <1>3, <2>7, ContentsLemma
  <2>12. buffer_remove(b).data = Head(Contents(b))
    BY <1>1, <1>3, <2>2, <2>11
  <2>13. buffer_remove(b).data \in Value
    BY <1>1, <1>3, <2>11, <2>12
  <2>14. Contents(c) = Tail(Contents(b))
    <3>1. /\ Contents(c) \in Seq(Value) /\ Len(Contents(c)) = b.size - 1
          /\ Contents(b) # << >>
      BY <1>1, <1>3, <2>5, <2>10, <2>11, ContentsLemma
    <3>2. /\ Tail(Contents(b)) \in Seq(Value)
          /\ Len(Tail(Contents(b))) = b.size - 1
          /\ \A i \in 1 .. b.size - 1 : Tail(Contents(b))[i] = Contents(b)[i + 1]
      BY <1>1, <2>11, <3>1, HeadTailProperties
    <3>3. \A i \in 1 .. b.size - 1 : Contents(c)[i] = Contents(b)[i + 1]
      <4> SUFFICES ASSUME NEW i \in 1 .. b.size - 1
                   PROVE  Contents(c)[i] = Contents(b)[i + 1]
        OBVIOUS
      <4>1. i \in 1 .. c.size /\ i + 1 \in 1 .. b.size
        BY <1>1, <2>5
      <4> QED
        BY <4>1, <2>8, <2>10, ContentsLemma
    <3> QED
      BY <3>1, <3>2, <3>3, SeqEqual
  <2> QED
    BY <2>5, <2>10, <2>12, <2>13, <2>14 DEF c
<1> QED
  BY <1>2, <1>3

-----------------------------------------------------------------------------
(***************************************************************************)
(* The inductive invariant.                                                *)
(***************************************************************************)

(* What a thread carries while it is in a call: the operation it called, a  *)
(* message if that is a send, and nothing received yet before the end.      *)
CallInv ==
  \A t \in Thread :
    /\ pc[t] \in {"lock", "body", "wait", "unlock"} =>
         op[t] \in LockedOps /\ (op[t] \in SendOps => arg[t] \in Value)
    /\ pc[t] \in {"idle", "return"} => op[t] \notin {"send", "receive"}
    /\ pc[t] = "wait" => op[t] \in {"send", "receive"}
    /\ pc[t] # "unlock" => data[t] = Uninit

(* What every step of the channel preserves. *)
IInv ==
  /\ TypeOK
  /\ MutexInv
  /\ SleepersInv
  /\ CallInv
  /\ NoSleepOnClosed
  /\ NoUseAfterFree
  /\ ReturnInv

-----------------------------------------------------------------------------
(***************************************************************************)
(* What a critical section can do, whatever the operation: the outcomes    *)
(* the proofs distinguish.                                                 *)
(***************************************************************************)
InBodyOpen(t) == pc[t] = "body" /\ closed = 1

Refused(t) == pc[t] = "body" /\ closed = 0 /\ FinishUnchanged(t, CLOSED_ERROR)

FoundFull(t) ==
  /\ InBodyOpen(t) /\ op[t] = "non_blocking_send" /\ buffer.size = buffer.capacity
  /\ FinishUnchanged(t, CHANNEL_FULL)

FoundEmpty(t) ==
  /\ InBodyOpen(t) /\ op[t] = "non_blocking_receive" /\ buffer.size = 0
  /\ FinishUnchanged(t, CHANNEL_EMPTY)

Added(t) ==
  /\ InBodyOpen(t) /\ op[t] \in SendOps /\ buffer.size < buffer.capacity
  /\ FinishAdd(t, buffer_add(buffer, arg[t]).buffer)

Removed(t) ==
  /\ InBodyOpen(t) /\ op[t] \in ReceiveOps /\ buffer.size > 0
  /\ FinishRemove(t, buffer_remove(buffer).buffer, buffer_remove(buffer).data)

SleptOnRead(t) ==
  /\ InBodyOpen(t) /\ op[t] = "send" /\ buffer.size = buffer.capacity
  /\ WaitOnRead(t)

SleptOnWrite(t) ==
  /\ InBodyOpen(t) /\ op[t] = "receive" /\ buffer.size = 0
  /\ WaitOnWrite(t)

Closed(t) ==
  /\ InBodyOpen(t) /\ op[t] = "close"
  /\ closed' = 0 /\ write' = {} /\ read' = {}
  /\ Finish(t, SUCCESS)
  /\ UNCHANGED <<buffer, data>>

Body(t) ==
  \/ channel_send(t)
  \/ channel_receive(t)
  \/ channel_non_blocking_send(t)
  \/ channel_non_blocking_receive(t)
  \/ channel_close(t)

(* Every critical section of channel.c ends in one of these outcomes. *)
LEMMA BodyCases ==
  ASSUME IInv, NEW t \in Thread, Body(t)
  PROVE  \/ Refused(t) \/ FoundFull(t) \/ FoundEmpty(t) \/ Added(t) \/ Removed(t)
         \/ SleptOnRead(t) \/ SleptOnWrite(t) \/ Closed(t)
<1> USE DEF InBody, InBodyOpen
<1>1. closed \in {0, 1} /\ BufferOK(buffer)
  BY DEF IInv, TypeOK
<1>2. /\ buffer.size \in Nat /\ buffer.capacity \in Nat
      /\ buffer.size <= buffer.capacity
  BY <1>1 DEF BufferOK
<1>3. pc[t] = "body" => (op[t] \in SendOps => arg[t] \in Value)
  BY DEF IInv, CallInv
<1>4. CASE channel_send(t)
  <2>1. buffer_add(buffer, arg[t]).status = BUFFER_ERROR <=> buffer.size = buffer.capacity
    BY <1>1, <1>3, <1>4, AddLemma DEF channel_send, SendOps
  <2> QED
    BY <1>1, <1>2, <1>4, <2>1 DEF channel_send, Refused, Added, SleptOnRead, SendOps
<1>5. CASE channel_receive(t)
  <2>1. buffer_remove(buffer).status = BUFFER_ERROR <=> buffer.size = 0
    BY <1>1, RemoveLemma
  <2> QED
    BY <1>1, <1>2, <1>5, <2>1 DEF channel_receive, Refused, Removed, SleptOnWrite, ReceiveOps
<1>6. CASE channel_non_blocking_send(t)
  BY <1>1, <1>2, <1>6 DEF channel_non_blocking_send, buffer_current_size, buffer_capacity,
     Refused, FoundFull, Added, SendOps
<1>7. CASE channel_non_blocking_receive(t)
  BY <1>1, <1>2, <1>7 DEF channel_non_blocking_receive, buffer_current_size,
     Refused, FoundEmpty, Removed, ReceiveOps
<1>8. CASE channel_close(t)
  BY <1>1, <1>8 DEF channel_close, Broadcast, Refused, Closed
<1> QED
  BY <1>4, <1>5, <1>6, <1>7, <1>8 DEF Body
-----------------------------------------------------------------------------
(***************************************************************************)
(* The inductive invariant.                                                *)
(***************************************************************************)

(* channel_create has not been called: the invariant holds at the start. *)
LEMMA InitIInv == Init => IInv
<1> SUFFICES ASSUME Init PROVE IInv
  OBVIOUS
<1>1. BufferOK(buffer)
  BY CreateLemma DEF Init, NoChannel
<1> QED
  BY <1>1, ThreadAssumption, UninitAssumption
     DEF Init, NoChannel, IInv, TypeOK, MutexInv, SleepersInv, CallInv, NoSleepOnClosed,
         NoUseAfterFree, ReturnInv, Statuses, GEN_ERROR, CHANNEL_EMPTY, CHANNEL_FULL, SUCCESS, CLOSED_ERROR,
         DESTROY_ERROR

(* Starting a call, or creating and destroying the channel, preserves the   *)
(* invariant.                                                               *)
LEMMA StartIInv ==
  ASSUME IInv, NEW t \in Thread, Start(t)
  PROVE  IInv'
<1> USE ThreadAssumption, UninitAssumption
    DEF IInv, TypeOK, MutexInv, SleepersInv, CallInv, NoSleepOnClosed, NoUseAfterFree,
        ReturnInv, chan, frame
<1>1. ASSUME NEW o \in SendOps, NEW v \in Value, Call(t, o, v)
      PROVE  IInv'
  BY <1>1 DEF Call, LockedOps
<1>2. ASSUME NEW o \in ReceiveOps \cup {"close"}, Call(t, o, Uninit)
      PROVE  IInv'
  BY <1>2 DEF Call, LockedOps, ReceiveOps, SendOps
<1>3. ASSUME NEW o \in NullChannelOps, CallNull(t, o)
      PROVE  IInv'
  BY <1>3 DEF CallNull, NullChannelOps, NullChannelStatus, LockedOps, SendOps, ReceiveOps,
     Statuses, GEN_ERROR, CLOSED_ERROR
<1>4. ASSUME NEW size \in Capacities, channel_create(t, size)
      PROVE  IInv'
  <2>1. BufferOK(buffer')
    BY <1>4, CreateLemma DEF channel_create
  <2> QED
    BY <1>4, <2>1 DEF channel_create
<1>5. ASSUME channel_destroy(t)
      PROVE  IInv'
  <2>1. BufferOK(buffer')
    <3>1. BufferOK(buffer_create(0)) /\ BufferOK(buffer)
      BY CreateLemma
    <3>2. buffer' = buffer_create(0) \/ buffer' = buffer
      BY <1>5 DEF channel_destroy
    <3> QED
      BY <3>1, <3>2
  <2>2. MutexLock = NoThread /\ read = {} /\ write = {}
    BY <1>5 DEF channel_destroy, OthersFinished
  <2>3. /\ MutexLock' = NoThread /\ read' = {} /\ write' = {}
        /\ allocated' \in BOOLEAN /\ closed' = closed
    BY <1>5, <2>2 DEF channel_destroy
  <2>4. /\ \A u \in Thread : pc[u] = "idle"
        /\ pc' = [pc EXCEPT ![t] = "return"] /\ op' = [op EXCEPT ![t] = "destroy"]
        /\ UNCHANGED <<arg, data>>
    BY <1>5 DEF channel_destroy, OthersFinished
  <2>5. status' \in [Thread -> Statuses]
    BY <1>5 DEF channel_destroy, Statuses, DESTROY_ERROR, SUCCESS
  <2>6. TypeOK'
    BY <2>1, <2>3, <2>4, <2>5
  <2>7. MutexInv' /\ SleepersInv' /\ NoSleepOnClosed' /\ NoUseAfterFree'
    BY <2>3, <2>4
  <2>8. CallInv' /\ ReturnInv'
    BY <2>4
  <2> QED
    BY <2>6, <2>7, <2>8
<1> QED
  BY <1>1, <1>2, <1>3, <1>4, <1>5 DEF Start

(* The mutex and condition variable steps preserve the invariant. *)
LEMMA SyncIInv ==
  ASSUME IInv, NEW t \in Thread,
         Lock(t) \/ Relock(t) \/ Unlock(t) \/ Return(t) \/ SpuriousWakeup(t)
  PROVE  IInv'
<1> USE ThreadAssumption, UninitAssumption
    DEF IInv, TypeOK, MutexInv, SleepersInv, CallInv, NoSleepOnClosed, NoUseAfterFree,
        ReturnInv, chan, frame
<1>1. CASE Lock(t)
  BY <1>1 DEF Lock
<1>2. CASE Relock(t)
  BY <1>2 DEF Relock
<1>3. CASE Unlock(t)
  BY <1>3 DEF Unlock, ResetFrame, Statuses, GEN_ERROR
<1>4. CASE Return(t)
  BY <1>4 DEF Return, ResetFrame, Statuses, GEN_ERROR
<1>5. CASE SpuriousWakeup(t)
  BY <1>5 DEF SpuriousWakeup
<1> QED
  BY <1>1, <1>2, <1>3, <1>4, <1>5

(* pthread_cond_signal leaves a subset of the waiters asleep. *)
LEMMA SignalSubset ==
  ASSUME NEW S, NEW T \in Signal(S)
  PROVE  T \subseteq S
  BY DEF Signal

(* The critical sections preserve the invariant. *)
LEMMA BodyIInv ==
  ASSUME IInv, NEW t \in Thread, Body(t)
  PROVE  IInv'
<1> USE ThreadAssumption, UninitAssumption
    DEF IInv, TypeOK, MutexInv, SleepersInv, CallInv, NoSleepOnClosed, NoUseAfterFree,
        ReturnInv, frame, InBodyOpen, Statuses, SUCCESS, GEN_ERROR, CLOSED_ERROR,
        DESTROY_ERROR, CHANNEL_FULL, CHANNEL_EMPTY
<1>1. CASE Refused(t)
  BY <1>1 DEF Refused, FinishUnchanged, Finish
<1>2. CASE FoundFull(t)
  BY <1>2 DEF FoundFull, FinishUnchanged, Finish
<1>3. CASE FoundEmpty(t)
  BY <1>3 DEF FoundEmpty, FinishUnchanged, Finish
<1>4. CASE Added(t)
  <2>1. BufferOK(buffer')
    BY <1>4, AddLemma DEF Added, FinishAdd
  <2>2. write' \subseteq write
    BY <1>4, SignalSubset DEF Added, FinishAdd
  <2> QED
    BY <1>4, <2>1, <2>2 DEF Added, FinishAdd, Finish, SendOps, ReceiveOps
<1>5. CASE Removed(t)
  <2>1. BufferOK(buffer') /\ buffer_remove(buffer).data \in Value
    BY <1>5, RemoveLemma DEF Removed, FinishRemove
  <2>2. read' \subseteq read
    BY <1>5, SignalSubset DEF Removed, FinishRemove
  <2> QED
    BY <1>5, <2>1, <2>2 DEF Removed, FinishRemove, Finish
<1>6. CASE SleptOnRead(t)
  BY <1>6 DEF SleptOnRead, WaitOnRead, Sleep
<1>7. CASE SleptOnWrite(t)
  BY <1>7 DEF SleptOnWrite, WaitOnWrite, Sleep
<1>8. CASE Closed(t)
  BY <1>8 DEF Closed, Finish, SendOps, ReceiveOps
<1> QED
  BY <1>1, <1>2, <1>3, <1>4, <1>5, <1>6, <1>7, <1>8, BodyCases

(* Every step of the system preserves the invariant. *)
LEMMA NextIInv == IInv /\ [Next]_vars => IInv'
<1> SUFFICES ASSUME IInv, [Next]_vars PROVE IInv'
  OBVIOUS
<1>1. CASE UNCHANGED vars
  BY <1>1 DEF vars, IInv, TypeOK, MutexInv, SleepersInv, CallInv, NoSleepOnClosed,
     NoUseAfterFree, ReturnInv
<1>2. ASSUME NEW t \in Thread, Step(t) \/ Start(t) \/ SpuriousWakeup(t)
      PROVE  IInv'
  BY <1>2, StartIInv, SyncIInv, BodyIInv DEF Step, Body
<1> QED
  BY <1>1, <1>2 DEF Next

(* The inductive invariant holds in every reachable state. *)
THEOREM Invariance == Spec => []IInv
  BY InitIInv, NextIInv, PTL DEF Spec

(* Type correctness, including that the ring of buffer.c stays well formed  *)
(* under every interleaving of the operations.                              *)
THEOREM TypeCorrect == Spec => []TypeOK
<1>1. IInv => TypeOK
  BY DEF IInv
<1> QED
  BY <1>1, Invariance, PTL

(* Mutual exclusion on the channel's buffer, and no operation returns or    *)
(* sleeps with the mutex in its hands.                                      *)
THEOREM MutualExclusion == Spec => []MutexInv
<1>1. IInv => MutexInv
  BY DEF IInv
<1> QED
  BY <1>1, Invariance, PTL

(* A wakeup goes to a thread that can use it: whoever sleeps on a condition *)
(* variable is in the operation that waits there.                           *)
THEOREM SleepersApart == Spec => []SleepersInv
<1>1. IInv => SleepersInv
  BY DEF IInv
<1> QED
  BY <1>1, Invariance, PTL

(* channel_close wakes everybody, and nobody goes to sleep afterwards. *)
THEOREM CloseWakesAll == Spec => []NoSleepOnClosed
<1>1. IInv => NoSleepOnClosed
  BY DEF IInv
<1> QED
  BY <1>1, Invariance, PTL

(* Callers that keep to the header's rule for channel_destroy never destroy *)
(* a channel that is locked, waited on or in use.                           *)
THEOREM DestroySafe == Spec => []NoUseAfterFree
<1>1. IInv => NoUseAfterFree
  BY DEF IInv
<1> QED
  BY <1>1, Invariance, PTL

(* A call returns what happened to it. *)
THEOREM ReturnsCorrect == Spec => []ReturnInv
<1>1. IInv => ReturnInv
  BY DEF IInv
<1> QED
  BY <1>1, Invariance, PTL

(* No operation reopens a closed channel, or adds to or removes from its    *)
(* buffer.                                                                  *)
THEOREM ClosedForGood == Spec => ClosedIsFinal
<1>1. ASSUME IInv, [Next]_vars
      PROVE  [allocated /\ closed = 0 /\ allocated' => closed' = 0 /\ buffer' = buffer]_vars
  <2> SUFFICES ASSUME allocated, closed = 0, allocated', NEW t \in Thread,
                      Step(t) \/ Start(t) \/ SpuriousWakeup(t)
               PROVE  closed' = 0 /\ buffer' = buffer
    BY <1>1 DEF Next
  <2>1. CASE Start(t)
    BY <2>1 DEF Start, Call, CallNull, channel_create, channel_destroy, chan
  <2>2. CASE Lock(t) \/ Relock(t) \/ Unlock(t) \/ Return(t) \/ SpuriousWakeup(t)
    BY <2>2 DEF Lock, Relock, Unlock, Return, SpuriousWakeup, chan
  <2>3. CASE Body(t)
    <3>1. Refused(t)
      BY <1>1, <2>3, BodyCases DEF InBodyOpen, FoundFull, FoundEmpty, Added, Removed,
         SleptOnRead, SleptOnWrite, Closed
    <3> QED
      BY <3>1 DEF Refused, FinishUnchanged
  <2> QED
    BY <2>1, <2>2, <2>3 DEF Step, Body
<1> QED
  BY <1>1, Invariance, PTL DEF Spec, ClosedIsFinal

-----------------------------------------------------------------------------
(***************************************************************************)
(* channel.c loses no wakeup.  Both halves of NoLostWakeup are inductive   *)
(* relative to IInv: a step changes the number of messages, or of free     *)
(* slots, by at most one, and the awake threads that can take them with it. *)
(***************************************************************************)

(* The ways in which one step changes the awake threads, from S to T, and   *)
(* what there is for them to take, from n to m.                             *)
Served(S, n, T, m) ==
  \/ S \subseteq T /\ m <= n
  \/ m = n + 1 /\ \E w \in T : w \notin S /\ S \subseteq T
  \/ m = n - 1 /\ \E w : S \ {w} \subseteq T
  \/ m = 0

(* If there were enough awake threads before such a step, there are after. *)
LEMMA ServedLemma ==
  ASSUME NEW S, IsFiniteSet(S), NEW T, IsFiniteSet(T), NEW n \in Nat, NEW m \in Nat,
         Cardinality(S) >= n, Served(S, n, T, m)
  PROVE  Cardinality(T) >= m
<1>1. Cardinality(S) \in Nat /\ Cardinality(T) \in Nat
  BY FS_CardinalityType
<1>2. CASE S \subseteq T /\ m <= n
  BY <1>1, <1>2, FS_Subset
<1>3. ASSUME m = n + 1, NEW w \in T, w \notin S, S \subseteq T
      PROVE  Cardinality(T) >= m
  <2>1. IsFiniteSet(S \cup {w}) /\ Cardinality(S \cup {w}) = Cardinality(S) + 1
    BY <1>3, FS_AddElement
  <2>2. S \cup {w} \in SUBSET T
    BY <1>3
  <2>3. Cardinality(S \cup {w}) <= Cardinality(T)
    BY <2>2, FS_Subset
  <2> QED
    BY <1>1, <1>3, <2>1, <2>3
<1>4. ASSUME m = n - 1, NEW w, S \ {w} \subseteq T
      PROVE  Cardinality(T) >= m
  <2>1. IsFiniteSet(S \ {w}) /\ Cardinality(S \ {w}) >= Cardinality(S) - 1
    <3>1. /\ IsFiniteSet(S \ {w})
          /\ Cardinality(S \ {w}) = IF w \in S THEN Cardinality(S) - 1 ELSE Cardinality(S)
      BY FS_RemoveElement
    <3> QED
      BY <1>1, <3>1
  <2>2. S \ {w} \in SUBSET T
    BY <1>4
  <2>3. Cardinality(S \ {w}) <= Cardinality(T) /\ Cardinality(S \ {w}) \in Nat
    BY <2>1, <2>2, FS_Subset, FS_CardinalityType
  <2> QED
    BY <1>1, <1>4, <2>1, <2>3
<1>5. CASE m = 0
  BY <1>1, <1>5
<1> QED
  BY <1>2, <1>3, <1>4, <1>5 DEF Served

(* The awake threads are finitely many: there are finitely many threads. *)
LEMMA AwakeFinite ==
  /\ IsFiniteSet(AwakeReceivers) /\ IsFiniteSet(AwakeReceivers')
  /\ IsFiniteSet(AwakeSenders) /\ IsFiniteSet(AwakeSenders')
<1>1. AwakeReceivers \in SUBSET Thread /\ AwakeReceivers' \in SUBSET Thread
  BY DEF AwakeReceivers
<1>2. AwakeSenders \in SUBSET Thread /\ AwakeSenders' \in SUBSET Thread
  BY DEF AwakeSenders
<1> QED
  BY <1>1, <1>2, FS_Subset, ThreadAssumption

(* In every well-formed state the sizes are numbers. *)
LEMMA SizesType ==
  IInv => /\ buffer.size \in Nat /\ buffer.capacity \in Nat
          /\ buffer.size <= buffer.capacity
          /\ buffer.capacity - buffer.size \in Nat
<1> SUFFICES ASSUME IInv
             PROVE  /\ buffer.size \in Nat /\ buffer.capacity \in Nat
                    /\ buffer.size <= buffer.capacity
                    /\ buffer.capacity - buffer.size \in Nat
  OBVIOUS
<1>1. /\ buffer.size \in Nat /\ buffer.capacity \in Nat
      /\ buffer.size <= buffer.capacity
  BY DEF IInv, TypeOK, BufferOK
<1> QED
  BY <1>1

(* pthread_cond_signal wakes a sleeping thread if there is one. *)
LEMMA SignalWakes ==
  ASSUME NEW S, NEW T \in Signal(S), T # {}
  PROVE  \E w \in S : T = S \ {w}
  BY DEF Signal

-----------------------------------------------------------------------------
(* Calls, returns, creation and destruction, and the steps of the mutex     *)
(* take no awake receiver or sender away from what there is to take.        *)
LEMMA OutsideServed ==
  ASSUME IInv, NEW t \in Thread,
         \/ Start(t) \/ Lock(t) \/ Relock(t) \/ Unlock(t) \/ Return(t) \/ SpuriousWakeup(t)
  PROVE  /\ write' # {} => /\ write # {} \/ buffer'.size = 0
                           /\ Served(AwakeReceivers, buffer.size, AwakeReceivers', buffer'.size)
         /\ read' # {} => /\ read # {} \/ buffer'.capacity - buffer'.size = 0
                          /\ Served(AwakeSenders, buffer.capacity - buffer.size,
                                    AwakeSenders', buffer'.capacity - buffer'.size)
<1> USE DEF AwakeReceivers, AwakeSenders, Awake, chan, frame
<1>0. /\ pc \in [Thread -> {"idle", "lock", "body", "wait", "unlock", "return"}]
      /\ op \in [Thread -> LockedOps \cup {"none", "destroy"}]
      /\ CallInv /\ SleepersInv
      /\ buffer.size \in Nat /\ buffer.capacity \in Nat
      /\ buffer.capacity - buffer.size \in Nat
  BY SizesType DEF IInv, TypeOK
<1>1. ASSUME NEW o, NEW v, Call(t, o, v)
      PROVE  /\ UNCHANGED <<buffer, read, write>>
             /\ AwakeReceivers \subseteq AwakeReceivers' /\ AwakeSenders \subseteq AwakeSenders'
  BY <1>0, <1>1 DEF Call
<1>2. ASSUME NEW o, CallNull(t, o)
      PROVE  /\ UNCHANGED <<buffer, read, write>>
             /\ AwakeReceivers \subseteq AwakeReceivers' /\ AwakeSenders \subseteq AwakeSenders'
  BY <1>0, <1>2 DEF CallNull
<1>3. ASSUME NEW size, channel_create(t, size)
      PROVE  write' = {} /\ read' = {}
  BY <1>3 DEF channel_create
<1>4. ASSUME channel_destroy(t)
      PROVE  write' = {} /\ read' = {}
  <2>1. read \subseteq Thread /\ write \subseteq Thread
    BY DEF IInv, TypeOK
  <2>2. \A u \in Thread : pc[u] = "idle"
    BY <1>4 DEF channel_destroy, OthersFinished
  <2>3. read = {} /\ write = {}
    BY <1>0, <2>1, <2>2 DEF SleepersInv
  <2> QED
    BY <1>4, <2>3 DEF channel_destroy
<1>5. ASSUME Lock(t) \/ Relock(t) \/ Unlock(t) \/ Return(t)
      PROVE  /\ UNCHANGED <<buffer, read, write>>
             /\ AwakeReceivers \subseteq AwakeReceivers' /\ AwakeSenders \subseteq AwakeSenders'
  BY <1>0, <1>5 DEF Lock, Relock, Unlock, Return, ResetFrame
<1>6. ASSUME SpuriousWakeup(t)
      PROVE  /\ UNCHANGED buffer
             /\ read' \subseteq read /\ write' \subseteq write
             /\ AwakeReceivers \subseteq AwakeReceivers' /\ AwakeSenders \subseteq AwakeSenders'
  BY <1>0, <1>6 DEF SpuriousWakeup
<1> QED
  BY <1>0, <1>1, <1>2, <1>3, <1>4, <1>5, <1>6 DEF Start, Served

(* A critical section that removes or uses up an awake thread removes what  *)
(* that thread came for, and one that adds a message or frees a slot wakes  *)
(* a thread for it.                                                         *)
LEMMA BodyServed ==
  ASSUME IInv, NEW t \in Thread, Body(t)
  PROVE  /\ write' # {} => /\ write # {} \/ buffer'.size = 0
                           /\ Served(AwakeReceivers, buffer.size, AwakeReceivers', buffer'.size)
         /\ read' # {} => /\ read # {} \/ buffer'.capacity - buffer'.size = 0
                          /\ Served(AwakeSenders, buffer.capacity - buffer.size,
                                    AwakeSenders', buffer'.capacity - buffer'.size)
<1> USE DEF AwakeReceivers, AwakeSenders, Awake, InBodyOpen
<1>0. /\ pc \in [Thread -> {"idle", "lock", "body", "wait", "unlock", "return"}]
      /\ op \in [Thread -> LockedOps \cup {"none", "destroy"}]
      /\ read \subseteq Thread /\ write \subseteq Thread
      /\ SleepersInv /\ NoSleepOnClosed /\ BufferOK(buffer)
      /\ buffer.size \in Nat /\ buffer.capacity \in Nat
      /\ buffer.capacity - buffer.size \in Nat
      /\ pc[t] = "body" => (op[t] \in SendOps => arg[t] \in Value)
  BY SizesType DEF IInv, TypeOK, CallInv
<1>1. CASE Refused(t)
  BY <1>0, <1>1 DEF Refused, FinishUnchanged, NoSleepOnClosed
<1>2. CASE FoundFull(t) \/ FoundEmpty(t)
  <2>1. AwakeReceivers \subseteq AwakeReceivers' /\ AwakeSenders \subseteq AwakeSenders'
    BY <1>0, <1>2 DEF FoundFull, FoundEmpty, FinishUnchanged, Finish
  <2> QED
    BY <1>0, <1>2, <2>1 DEF FoundFull, FoundEmpty, FinishUnchanged, Served
<1>3. CASE Added(t)
  <2>1. buffer'.size = buffer.size + 1 /\ buffer'.capacity = buffer.capacity
    BY <1>0, <1>3, AddLemma DEF Added, FinishAdd
  <2>2. read' = read /\ write' \in Signal(write) /\ write' \subseteq write
    BY <1>3, SignalSubset DEF Added, FinishAdd
  <2>3. AwakeSenders \ {t} \subseteq AwakeSenders'
    BY <1>0, <1>3, <2>2 DEF Added, FinishAdd, Finish, SleepersInv
  <2>4. ASSUME write' # {}
        PROVE  /\ AwakeReceivers \subseteq AwakeReceivers'
               /\ \E w \in AwakeReceivers' : w \notin AwakeReceivers
    <3>1. PICK w \in write : write' = write \ {w}
      BY <2>2, <2>4, SignalWakes
    <3>2. op[t] # "receive" /\ w # t /\ w \notin read
      BY <1>0, <1>3 DEF Added, SendOps, SleepersInv
    <3>3. w \in AwakeReceivers' /\ w \notin AwakeReceivers
      BY <1>0, <1>3, <2>2, <3>1, <3>2 DEF Added, FinishAdd, Finish, SleepersInv
    <3>4. AwakeReceivers \subseteq AwakeReceivers'
      BY <1>0, <1>3, <2>2, <3>1, <3>2 DEF Added, FinishAdd, Finish
    <3> QED
      BY <3>3, <3>4
  <2> HIDE DEF AwakeReceivers, AwakeSenders
  <2>5. Served(AwakeSenders, buffer.capacity - buffer.size,
               AwakeSenders', buffer'.capacity - buffer'.size)
    <3>1. buffer'.capacity - buffer'.size = (buffer.capacity - buffer.size) - 1
      BY <1>0, <2>1
    <3> QED
      BY <2>3, <3>1 DEF Served
  <2>6. write' # {} => Served(AwakeReceivers, buffer.size, AwakeReceivers', buffer'.size)
    BY <2>1, <2>4 DEF Served
  <2> QED
    BY <2>2, <2>5, <2>6
<1>4. CASE Removed(t)
  <2>1. buffer'.size = buffer.size - 1 /\ buffer'.capacity = buffer.capacity
    BY <1>0, <1>4, RemoveLemma DEF Removed, FinishRemove
  <2>2. write' = write /\ read' \in Signal(read) /\ read' \subseteq read
    BY <1>4, SignalSubset DEF Removed, FinishRemove
  <2>3. AwakeReceivers \ {t} \subseteq AwakeReceivers'
    BY <1>0, <1>4, <2>2 DEF Removed, FinishRemove, Finish, SleepersInv
  <2>4. ASSUME read' # {}
        PROVE  /\ AwakeSenders \subseteq AwakeSenders'
               /\ \E w \in AwakeSenders' : w \notin AwakeSenders
    <3>1. PICK w \in read : read' = read \ {w}
      BY <2>2, <2>4, SignalWakes
    <3>2. op[t] # "send" /\ w # t /\ w \notin write
      BY <1>0, <1>4 DEF Removed, ReceiveOps, SleepersInv
    <3>3. w \in AwakeSenders' /\ w \notin AwakeSenders
      BY <1>0, <1>4, <2>2, <3>1, <3>2 DEF Removed, FinishRemove, Finish, SleepersInv
    <3>4. AwakeSenders \subseteq AwakeSenders'
      BY <1>0, <1>4, <2>2, <3>1, <3>2 DEF Removed, FinishRemove, Finish
    <3> QED
      BY <3>3, <3>4
  <2> HIDE DEF AwakeReceivers, AwakeSenders
  <2>5. Served(AwakeReceivers, buffer.size, AwakeReceivers', buffer'.size)
    BY <2>1, <2>3 DEF Served
  <2>6. read' # {} => Served(AwakeSenders, buffer.capacity - buffer.size,
                             AwakeSenders', buffer'.capacity - buffer'.size)
    <3>1. buffer'.capacity - buffer'.size = (buffer.capacity - buffer.size) + 1
      BY <1>0, <2>1
    <3> QED
      BY <2>4, <3>1 DEF Served
  <2> QED
    BY <2>2, <2>5, <2>6
<1>5. CASE SleptOnRead(t)
  <2>1. AwakeReceivers \subseteq AwakeReceivers'
    BY <1>0, <1>5 DEF SleptOnRead, WaitOnRead, Sleep, frame
  <2> QED
    BY <1>0, <1>5, <2>1 DEF SleptOnRead, WaitOnRead, Sleep, Served
<1>6. CASE SleptOnWrite(t)
  <2>1. AwakeSenders \subseteq AwakeSenders'
    BY <1>0, <1>6 DEF SleptOnWrite, WaitOnWrite, Sleep, frame
  <2> QED
    BY <1>0, <1>6, <2>1 DEF SleptOnWrite, WaitOnWrite, Sleep, Served
<1>7. CASE Closed(t)
  BY <1>7 DEF Closed
<1> QED
  BY <1>1, <1>2, <1>3, <1>4, <1>5, <1>6, <1>7, BodyCases

-----------------------------------------------------------------------------
(* NoLostWakeup is inductive relative to IInv. *)
LEMMA NextNoLostWakeup ==
  ASSUME IInv, IInv', NoLostWakeup, [Next]_vars
  PROVE  NoLostWakeup'
<1>1. CASE UNCHANGED vars
  BY <1>1 DEF vars, NoLostWakeup, ReceiversServed, SendersServed, AwakeReceivers,
     AwakeSenders, Awake
<1>2. ASSUME NEW t \in Thread, Step(t) \/ Start(t) \/ SpuriousWakeup(t)
      PROVE  NoLostWakeup'
  <2>1. /\ write' # {} => /\ write # {} \/ buffer'.size = 0
                          /\ Served(AwakeReceivers, buffer.size, AwakeReceivers', buffer'.size)
        /\ read' # {} => /\ read # {} \/ buffer'.capacity - buffer'.size = 0
                         /\ Served(AwakeSenders, buffer.capacity - buffer.size,
                                   AwakeSenders', buffer'.capacity - buffer'.size)
    BY <1>2, OutsideServed, BodyServed DEF Step, Body
  <2>2. /\ buffer.size \in Nat /\ buffer.capacity - buffer.size \in Nat
        /\ buffer'.size \in Nat /\ buffer'.capacity - buffer'.size \in Nat
    <3>1. IInv => /\ buffer.size \in Nat /\ buffer.capacity \in Nat
                  /\ buffer.size <= buffer.capacity
                  /\ buffer.capacity - buffer.size \in Nat
      BY SizesType
    <3>2. (IInv => /\ buffer.size \in Nat /\ buffer.capacity \in Nat
                   /\ buffer.size <= buffer.capacity
                   /\ buffer.capacity - buffer.size \in Nat)'
      BY SizesType, PTL
    <3> QED
      BY <3>1, <3>2
  <2>3. /\ Cardinality(AwakeReceivers') \in Nat /\ Cardinality(AwakeSenders') \in Nat
    BY AwakeFinite, FS_CardinalityType
  <2>4. ReceiversServed'
    <3> SUFFICES ASSUME write' # {} PROVE Cardinality(AwakeReceivers') >= buffer'.size
      BY DEF ReceiversServed
    <3>1. CASE buffer'.size = 0
      BY <2>3, <3>1
    <3>2. CASE write # {}
      <4>1. Cardinality(AwakeReceivers) >= buffer.size
        BY <3>2 DEF NoLostWakeup, ReceiversServed
      <4> QED
        BY <2>1, <2>2, <4>1, AwakeFinite, ServedLemma
    <3> QED
      BY <2>1, <3>1, <3>2
  <2>5. SendersServed'
    <3> SUFFICES ASSUME read' # {}
                 PROVE  Cardinality(AwakeSenders') >= buffer'.capacity - buffer'.size
      BY DEF SendersServed
    <3>1. CASE buffer'.capacity - buffer'.size = 0
      BY <2>3, <3>1
    <3>2. CASE read # {}
      <4>1. Cardinality(AwakeSenders) >= buffer.capacity - buffer.size
        BY <3>2 DEF NoLostWakeup, SendersServed
      <4> QED
        BY <2>1, <2>2, <4>1, AwakeFinite, ServedLemma
    <3> QED
      BY <2>1, <3>1, <3>2
  <2> QED
    BY <2>4, <2>5 DEF NoLostWakeup
<1> QED
  BY <1>1, <1>2 DEF Next

(* No wakeup is ever lost, with any number of threads: signalling a single  *)
(* waiter per message and per free slot is enough.                          *)
THEOREM WakeupsNotLost == Spec => []NoLostWakeup
<1>1. Init => NoLostWakeup
  BY DEF Init, NoChannel, NoLostWakeup, ReceiversServed, SendersServed
<1>2. IInv /\ IInv' /\ NoLostWakeup /\ [Next]_vars => NoLostWakeup'
  BY NextNoLostWakeup
<1> QED
  BY <1>1, <1>2, Invariance, PTL DEF Spec
=============================================================================
