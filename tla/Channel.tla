------------------------------- MODULE Channel -------------------------------
(***************************************************************************)
(* One channel of channel.c and the threads that call its operations.      *)
(*                                                                         *)
(* A call is cut where another thread can get in: at pthread_mutex_lock,   *)
(* at pthread_cond_wait (which gives the mutex up and takes it again) and  *)
(* at pthread_mutex_unlock.  What a thread does between taking the mutex   *)
(* and giving it up is one step: every other access to the channel needs   *)
(* the mutex too.  channel_create and channel_destroy take no lock.        *)
(*                                                                         *)
(* A thread's pc is                                                        *)
(*   idle    outside the channel operations                                *)
(*   lock    inside a call, at its first pthread_mutex_lock                *)
(*   body    holding the mutex, at a test of channel->closed               *)
(*   wait    inside pthread_cond_wait: asleep if it is in read or write,   *)
(*           otherwise woken and about to take the mutex again             *)
(*   unlock  holding the mutex, at the last pthread_mutex_unlock           *)
(*   return  returning without ever having touched the mutex               *)
(***************************************************************************)
EXTENDS Buffer, ChannelStatus, FiniteSets

CONSTANTS
  Thread,     (* the threads that share the channel                        *)
  NoThread,   (* owner of a free mutex                                     *)
  Capacities  (* the sizes channel_create is called with                   *)

ASSUME ThreadAssumption ==
  /\ IsFiniteSet(Thread)
  /\ NoThread \notin Thread
  /\ Capacities \subseteq Nat

VARIABLES
  allocated,  (* the channel_t exists: created and not yet destroyed       *)
  buffer,     (* channel->buffer                                           *)
  closed,     (* channel->closed: 1 for an open channel, 0 for a closed one *)
  MutexLock,  (* owner of channel->MutexLock                               *)
  read,       (* threads asleep on channel->read: senders waiting for room *)
  write,      (* threads asleep on channel->write: receivers waiting       *)
  pc,
  op,         (* the operation a thread is in                              *)
  arg,        (* argument data of a send                                   *)
  status,     (* the value the operation is about to return                *)
  data        (* what the operation stored through argument data           *)

chan == <<allocated, buffer, closed, MutexLock, read, write>>
frame == <<op, arg, status, data>>
vars == <<allocated, buffer, closed, MutexLock, read, write, pc, op, arg,
          status, data>>

-----------------------------------------------------------------------------
(***************************************************************************)
(* Calling an operation and returning from it.                             *)
(***************************************************************************)

(* A caller's frame before a call and after its return. *)
ResetFrame(t) ==
  /\ op' = [op EXCEPT ![t] = "none"]
  /\ arg' = [arg EXCEPT ![t] = Uninit]
  /\ status' = [status EXCEPT ![t] = GEN_ERROR]
  /\ data' = [data EXCEPT ![t] = Uninit]

Call(t, o, v) ==
  /\ allocated /\ pc[t] = "idle"
  /\ pc' = [pc EXCEPT ![t] = "lock"]
  /\ op' = [op EXCEPT ![t] = o]
  /\ arg' = [arg EXCEPT ![t] = v]
  /\ UNCHANGED <<chan, status, data>>

(* The early returns for a NULL channel, before any lock. *)
CallNull(t, o) ==
  /\ pc[t] = "idle"
  /\ pc' = [pc EXCEPT ![t] = "return"]
  /\ op' = [op EXCEPT ![t] = o]
  /\ status' = [status EXCEPT ![t] = NullChannelStatus(o)]
  /\ UNCHANGED <<chan, arg, data>>

Return(t) ==
  /\ pc[t] = "return"
  /\ pc' = [pc EXCEPT ![t] = "idle"]
  /\ ResetFrame(t)
  /\ UNCHANGED chan

-----------------------------------------------------------------------------
(***************************************************************************)
(* The pthread mutex and condition variables.                              *)
(***************************************************************************)

(* pthread_mutex_lock at the start of an operation. *)
Lock(t) ==
  /\ pc[t] = "lock"
  /\ MutexLock = NoThread
  /\ MutexLock' = t
  /\ pc' = [pc EXCEPT ![t] = "body"]
  /\ UNCHANGED <<allocated, buffer, closed, read, write, frame>>

(* Mutant: the mutex is not released when the channel is closed. *)
UnlockUnlessClosed(t) ==
  /\ pc[t] = "unlock"
  /\ MutexLock' = IF status[t] = CLOSED_ERROR THEN MutexLock ELSE NoThread
  /\ pc' = [pc EXCEPT ![t] = "idle"]
  /\ ResetFrame(t)
  /\ UNCHANGED <<allocated, buffer, closed, read, write>>

(* pthread_mutex_unlock and the return that follows it in every operation. *)
Unlock(t) ==
  /\ pc[t] = "unlock"
  /\ MutexLock' = NoThread
  /\ pc' = [pc EXCEPT ![t] = "idle"]
  /\ ResetFrame(t)
  /\ UNCHANGED <<allocated, buffer, closed, read, write>>

(* The end of pthread_cond_wait: a woken thread has to win the mutex again. *)
(* It then tests closed and retries, as on entry.                           *)
Relock(t) ==
  /\ pc[t] = "wait" /\ t \notin read \cup write
  /\ MutexLock = NoThread
  /\ MutexLock' = t
  /\ pc' = [pc EXCEPT ![t] = "body"]
  /\ UNCHANGED <<allocated, buffer, closed, read, write, frame>>

(* pthread_cond_wait may return although nobody signalled; this also covers *)
(* a pthread_cond_signal that wakes more than one thread.                   *)
SpuriousWakeup(t) ==
  /\ t \in read \cup write
  /\ read' = read \ {t}
  /\ write' = write \ {t}
  /\ UNCHANGED <<allocated, buffer, closed, MutexLock, pc, frame>>

(* What pthread_cond_signal can leave of the threads waiting on a condition. *)
Signal(waiters) ==
  IF waiters = {} THEN {{}} ELSE {waiters \ {t} : t \in waiters}

(* Mutant: close wakes one thread instead of all. *)
BroadcastToOne(waiters) ==
  IF waiters = {} THEN {} ELSE waiters \ {CHOOSE t \in waiters : TRUE}

(* What pthread_cond_broadcast leaves of them. *)
Broadcast(waiters) == {}

(* The first half of pthread_cond_wait: the thread goes to sleep and the    *)
(* mutex is released in one step.                                           *)
Sleep(t) ==
  /\ MutexLock' = NoThread
  /\ pc' = [pc EXCEPT ![t] = "wait"]
  /\ UNCHANGED <<allocated, buffer, closed, frame>>

(* Mutant: senders wait on the condition variable of the receivers. *)
WaitOnWrongCondition(t) == write' = write \cup {t} /\ UNCHANGED read /\ Sleep(t)

WaitOnRead(t) == read' = read \cup {t} /\ UNCHANGED write /\ Sleep(t)

WaitOnWrite(t) == write' = write \cup {t} /\ UNCHANGED read /\ Sleep(t)

-----------------------------------------------------------------------------
(***************************************************************************)
(* The operations, from the test of channel->closed to the unlock or wait. *)
(***************************************************************************)
InBody(t, o) == pc[t] = "body" /\ op[t] = o

(* The operation ends with status s: all that is left is to unlock. *)
Finish(t, s) ==
  /\ pc' = [pc EXCEPT ![t] = "unlock"]
  /\ status' = [status EXCEPT ![t] = s]
  /\ UNCHANGED <<allocated, MutexLock, op, arg>>

(* Mutant: an early return that forgets to unlock. *)
ReturnLocked(t, s) ==
  /\ pc' = [pc EXCEPT ![t] = "idle"]
  /\ ResetFrame(t)
  /\ UNCHANGED chan

FinishUnchanged(t, s) ==
  /\ Finish(t, s)
  /\ UNCHANGED <<buffer, closed, read, write, data>>

(* Mutant: a signal only when the buffer was empty. *)
FinishAddSignalOnEmpty(t, b) ==
  /\ buffer' = b
  /\ write' \in IF buffer.size = 0 THEN Signal(write) ELSE {write}
  /\ Finish(t, SUCCESS)
  /\ UNCHANGED <<closed, read, data>>

(* A message was added: signal the receivers and succeed. *)
FinishAdd(t, b) ==
  /\ buffer' = b
  /\ write' \in Signal(write)
  /\ Finish(t, SUCCESS)
  /\ UNCHANGED <<closed, read, data>>

(* Mutant: the wrong condition variable is signalled. *)
FinishRemoveWrongSignal(t, b, v) ==
  /\ buffer' = b
  /\ data' = [data EXCEPT ![t] = v]
  /\ write' \in Signal(write)
  /\ Finish(t, SUCCESS)
  /\ UNCHANGED <<closed, read>>

(* A message was removed: signal the senders and succeed. *)
FinishRemove(t, b, v) ==
  /\ buffer' = b
  /\ data' = [data EXCEPT ![t] = v]
  /\ read' \in Signal(read)
  /\ Finish(t, SUCCESS)
  /\ UNCHANGED <<closed, write>>

(* Mutant: closed is not tested, neither on entry nor after the wait. *)
SendToClosed(t) ==
  LET add == buffer_add(buffer, arg[t])
  IN  /\ InBody(t, "send")
      /\ \/ add.status = BUFFER_ERROR /\ WaitOnRead(t)
         \/ add.status # BUFFER_ERROR /\ FinishAdd(t, add.buffer)

channel_send(t) ==
  LET add == buffer_add(buffer, arg[t])
  IN  /\ InBody(t, "send")
      /\ \/ closed = 0 /\ FinishUnchanged(t, CLOSED_ERROR)
         \/ closed # 0 /\ add.status = BUFFER_ERROR /\ WaitOnRead(t)
         \/ closed # 0 /\ add.status # BUFFER_ERROR /\ FinishAdd(t, add.buffer)

channel_receive(t) ==
  LET remove == buffer_remove(buffer)
  IN  /\ InBody(t, "receive")
      /\ \/ closed = 0 /\ FinishUnchanged(t, CLOSED_ERROR)
         \/ closed # 0 /\ remove.status = BUFFER_ERROR /\ WaitOnWrite(t)
         \/ /\ closed # 0 /\ remove.status # BUFFER_ERROR
            /\ FinishRemove(t, remove.buffer, remove.data)

channel_non_blocking_send(t) ==
  LET full == buffer_current_size(buffer) >= buffer_capacity(buffer)
  IN  /\ InBody(t, "non_blocking_send")
      /\ \/ closed = 0 /\ FinishUnchanged(t, CLOSED_ERROR)
         \/ closed # 0 /\ full /\ FinishUnchanged(t, CHANNEL_FULL)
         \/ /\ closed # 0 /\ ~full
            /\ FinishAdd(t, buffer_add(buffer, arg[t]).buffer)

(* Mutant: the test for an empty buffer is missing. *)
ReceiveFromEmpty(t) ==
  LET remove == buffer_remove(buffer)
  IN  /\ InBody(t, "non_blocking_receive")
      /\ \/ closed = 0 /\ FinishUnchanged(t, CLOSED_ERROR)
         \/ closed # 0 /\ FinishRemove(t, remove.buffer, remove.data)

channel_non_blocking_receive(t) ==
  LET remove == buffer_remove(buffer)
      empty  == buffer_current_size(buffer) = 0
  IN  /\ InBody(t, "non_blocking_receive")
      /\ \/ closed = 0 /\ FinishUnchanged(t, CLOSED_ERROR)
         \/ closed # 0 /\ empty /\ FinishUnchanged(t, CHANNEL_EMPTY)
         \/ closed # 0 /\ ~empty /\ FinishRemove(t, remove.buffer, remove.data)

channel_close(t) ==
  /\ InBody(t, "close")
  /\ \/ closed = 0 /\ FinishUnchanged(t, CLOSED_ERROR)
     \/ /\ closed # 0
        /\ closed' = 0
        /\ write' = Broadcast(write)
        /\ read' = Broadcast(read)
        /\ Finish(t, SUCCESS)
        /\ UNCHANGED <<buffer, data>>

-----------------------------------------------------------------------------
(***************************************************************************)
(* The operations without a lock.  A channel that does not exist has no    *)
(* content; the model keeps a fixed one in its place.                      *)
(***************************************************************************)
NoChannel ==
  /\ buffer = buffer_create(0)
  /\ closed = 0
  /\ MutexLock = NoThread
  /\ read = {} /\ write = {}

channel_create(t, size) ==
  /\ ~allocated
  /\ pc[t] = "idle"
  /\ allocated' = TRUE
  /\ buffer' = buffer_create(size)
  /\ closed' = 1
  /\ MutexLock' = NoThread /\ read' = {} /\ write' = {}
  /\ UNCHANGED <<pc, frame>>

(* "The caller is responsible for [...] waiting for all threads to finish   *)
(* their tasks before calling channel_destroy" (channel.h): the callers     *)
(* modelled here keep to that.                                              *)
OthersFinished(t) == \A u \in Thread \ {t} : pc[u] = "idle"

channel_destroy(t) ==
  /\ allocated /\ pc[t] = "idle"
  /\ OthersFinished(t)
  /\ pc' = [pc EXCEPT ![t] = "return"]
  /\ op' = [op EXCEPT ![t] = "destroy"]
  /\ \/ /\ closed = 1
        /\ status' = [status EXCEPT ![t] = DESTROY_ERROR]
        /\ UNCHANGED chan
     \/ /\ closed # 1
        /\ status' = [status EXCEPT ![t] = SUCCESS]
        /\ allocated' = FALSE
        /\ buffer' = buffer_create(0)
        /\ UNCHANGED <<closed, MutexLock, read, write>>
  /\ UNCHANGED <<arg, data>>

-----------------------------------------------------------------------------
Init ==
  /\ allocated = FALSE
  /\ NoChannel
  /\ pc = [t \in Thread |-> "idle"]
  /\ op = [t \in Thread |-> "none"]
  /\ arg = [t \in Thread |-> Uninit]
  /\ status = [t \in Thread |-> GEN_ERROR]
  /\ data = [t \in Thread |-> Uninit]

(* The steps of a call in progress; channel.c owes the caller all of them. *)
Step(t) ==
  \/ Lock(t)
  \/ Relock(t)
  \/ channel_send(t)
  \/ channel_receive(t)
  \/ channel_non_blocking_send(t)
  \/ channel_non_blocking_receive(t)
  \/ channel_close(t)
  \/ Unlock(t)
  \/ Return(t)

(* What the program using the channel may start at any time. *)
Start(t) ==
  \/ \E o \in SendOps, v \in Value : Call(t, o, v)
  \/ \E o \in ReceiveOps \cup {"close"} : Call(t, o, Uninit)
  \/ \E o \in NullChannelOps : CallNull(t, o)
  \/ \E size \in Capacities : channel_create(t, size)
  \/ channel_destroy(t)

Next == \E t \in Thread : Step(t) \/ Start(t) \/ SpuriousWakeup(t)

Spec == Init /\ [][Next]_vars

-----------------------------------------------------------------------------
(***************************************************************************)
(* Properties.                                                             *)
(***************************************************************************)

(* Every variable stays within its type, and the buffer is a well-formed    *)
(* ring: the slots between next and next + size hold added messages.        *)
TypeOK ==
  /\ allocated \in BOOLEAN
  /\ BufferOK(buffer)
  /\ closed \in {0, 1}
  /\ MutexLock \in Thread \cup {NoThread}
  /\ read \subseteq Thread
  /\ write \subseteq Thread
  /\ pc \in [Thread -> {"idle", "lock", "body", "wait", "unlock", "return"}]
  /\ op \in [Thread -> LockedOps \cup {"none", "destroy"}]
  /\ arg \in [Thread -> Value \cup {Uninit}]
  /\ status \in [Thread -> Statuses]
  /\ data \in [Thread -> Value \cup {Uninit}]

(* The mutex is held by the thread that is between a lock and the matching  *)
(* unlock or wait, by no other, and by nobody when there is none: every     *)
(* return path of every operation releases it, and no two threads are in    *)
(* the buffer at once.                                                      *)
MutexInv == \A t \in Thread : pc[t] \in {"body", "unlock"} <=> MutexLock = t

(* Only blocked senders sleep on channel->read, only blocked receivers on   *)
(* channel->write: the one thread that an operation signals is a thread     *)
(* that waits for what it did.                                              *)
SleepersInv ==
  /\ \A t \in read : pc[t] = "wait" /\ op[t] = "send"
  /\ \A t \in write : pc[t] = "wait" /\ op[t] = "receive"

(* Nobody sleeps on a closed channel: channel_close leaves no thread asleep *)
(* and no thread can go to sleep after it.                                  *)
NoSleepOnClosed == closed = 0 => read = {} /\ write = {}

(* The blocking senders and receivers that are awake and have yet to look   *)
(* at the buffer: called and not served, or woken and not yet back.         *)
Awake(t) == pc[t] \in {"lock", "body"} \/ (pc[t] = "wait" /\ t \notin read \cup write)

AwakeSenders   == {t \in Thread : op[t] = "send" /\ Awake(t)}
AwakeReceivers == {t \in Thread : op[t] = "receive" /\ Awake(t)}

(* While a receiver sleeps there is an awake receiver for every message in  *)
(* the buffer, and while a sender sleeps an awake sender for every free     *)
(* slot.                                                                    *)
ReceiversServed == write # {} => Cardinality(AwakeReceivers) >= buffer.size
SendersServed   == read # {} => Cardinality(AwakeSenders) >= buffer.capacity - buffer.size

(* No wakeup is lost although an operation signals one waiter only, and     *)
(* although another caller may take the message or the free slot before the *)
(* thread that was woken for it gets the mutex.                             *)
NoLostWakeup == ReceiversServed /\ SendersServed

(* A channel that has been destroyed is in nobody's hands: its mutex is     *)
(* free, nobody sleeps on its condition variables, no call is in progress.  *)
NoUseAfterFree ==
  ~allocated => /\ MutexLock = NoThread
                /\ read = {} /\ write = {}
                /\ \A t \in Thread : pc[t] \in {"idle", "return"}

(* What a call that is about to return has done: a receive that succeeded   *)
(* delivers a message that was sent, any other call stored nothing; only    *)
(* the non-blocking operations report a full or an empty channel, and       *)
(* CLOSED_ERROR is only reported of a channel that is closed.               *)
ReturnInv ==
  \A t \in Thread : pc[t] = "unlock" =>
    /\ data[t] \in Value <=> (status[t] = SUCCESS /\ op[t] \in ReceiveOps)
    /\ status[t] = CHANNEL_FULL => op[t] \in {"non_blocking_send", "non_blocking_receive"}
    /\ status[t] = CLOSED_ERROR => closed = 0

(* Once closed a channel stays closed, and the messages left in its buffer  *)
(* stay there, until it is destroyed.                                       *)
ClosedIsFinal ==
  [][allocated /\ closed = 0 /\ allocated' => closed' = 0 /\ buffer' = buffer]_vars

(* The comment in channel_close: "If the channel does not exist, return     *)
(* GEN_ERROR".                                                              *)
CloseOfNullIsGenError ==
  [][\A t \in Thread : CallNull(t, "close") => status'[t] = GEN_ERROR]_vars
=============================================================================
