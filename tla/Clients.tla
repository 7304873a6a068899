------------------------------- MODULE Clients -------------------------------
(***************************************************************************)
(* A program that creates a channel and lets every thread make at most     *)
(* MaxCalls calls on it, in any order, as the tests of test.c do with      *)
(* their helper threads.  Calls and spurious wakeups are finitely many, so *)
(* the mutex is contended finitely often, and what channel.c promises      *)
(* about blocked calls can be stated under weak fairness of the threads    *)
(* alone: nothing is assumed about which thread a pthread mutex or         *)
(* condition variable prefers.                                             *)
(***************************************************************************)
EXTENDS Channel

CONSTANTS
  MaxCalls,     (* bound on the calls of one thread                        *)
  MaxSpurious   (* bound on the spurious wakeups of the whole run          *)

ASSUME BoundsAssumption == MaxCalls \in Nat /\ MaxSpurious \in Nat

VARIABLES
  calls,        (* calls[t]: the calls thread t has made                   *)
  spurious      (* the spurious wakeups so far                             *)

clientVars == <<vars, calls, spurious>>

(* The state channel_create leaves to the threads that share the channel.  *)
ClientsInit ==
  /\ allocated = TRUE
  /\ \E size \in Capacities : buffer = buffer_create(size)
  /\ closed = 1
  /\ MutexLock = NoThread
  /\ read = {} /\ write = {}
  /\ pc = [t \in Thread |-> "idle"]
  /\ op = [t \in Thread |-> "none"]
  /\ arg = [t \in Thread |-> Uninit]
  /\ status = [t \in Thread |-> GEN_ERROR]
  /\ data = [t \in Thread |-> Uninit]
  /\ calls = [t \in Thread |-> 0]
  /\ spurious = 0

ClientCall(t) ==
  /\ calls[t] < MaxCalls
  /\ calls' = [calls EXCEPT ![t] = @ + 1]
  /\ \/ \E o \in SendOps, v \in Value : Call(t, o, v)
     \/ \E o \in ReceiveOps \cup {"close"} : Call(t, o, Uninit)
  /\ UNCHANGED spurious

ClientStep(t) == Step(t) /\ UNCHANGED <<calls, spurious>>

ClientWakeup(t) ==
  /\ spurious < MaxSpurious
  /\ spurious' = spurious + 1
  /\ SpuriousWakeup(t)
  /\ UNCHANGED calls

ClientsNext == \E t \in Thread : ClientStep(t) \/ ClientCall(t) \/ ClientWakeup(t)

(* The operating system runs every thread that can run.                     *)
ClientsSpec ==
  /\ ClientsInit /\ [][ClientsNext]_clientVars
  /\ \A t \in Thread : WF_clientVars(ClientStep(t))

-----------------------------------------------------------------------------
(* A blocking send hangs only on a full open channel, a blocking receive    *)
(* only on an empty open one: no message or free slot that appears while a  *)
(* thread waits is ever left lying, and channel_close releases everybody.   *)
HangsOnlyIfBlocked ==
  \A t \in Thread :
    /\ <>[](op[t] = "send") => <>[](closed = 1 /\ buffer.size = buffer.capacity)
    /\ <>[](op[t] = "receive") => <>[](closed = 1 /\ buffer.size = 0)

(* The other operations never block.                                        *)
NonBlockingReturns ==
  \A t \in Thread : op[t] \in LockedOps \ {"send", "receive"} ~> op[t] = "none"

(* On an unbuffered channel "channel_create(0)" a send and a receive that   *)
(* are both waiting meet: "none of the calls should get blocked"            *)
(* (test_unbuffered).                                                       *)
UnbufferedMeet ==
  \A t, u \in Thread :
    (buffer.capacity = 0 /\ op[t] = "send" /\ op[u] = "receive")
      ~> (op[t] = "none" \/ op[u] = "none")
=============================================================================
