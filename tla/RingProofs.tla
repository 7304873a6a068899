----------------------------- MODULE RingProofs -----------------------------
(***************************************************************************)
(* Proofs about the send/receive stress test for any number of workers,    *)
(* any buffer size and any load below one.                                 *)
(***************************************************************************)
EXTENDS Ring, FiniteSetTheorems, SequenceTheorems, TLAPS

WorkerStates == {"receive", "got", "to_main", "to_next", "exited"}

QueueOK ==
  /\ queue \in [Channels -> Seq(Message \cup {NULL})]
  /\ \A c \in Channels : Len(queue[c]) <= buffer_size

(* The loop counters of the main thread.                                   *)
LoopOK ==
  /\ main \in {"insert", "start", "sleep", "pull", "stop", "join", "cleanup", "end", "abort"}
  /\ i \in Nat \ {0}
  /\ main \in {"insert", "pull"} => i <= num_msgs
  /\ main \in {"start", "stop", "join"} => i <= num_channel
  /\ main = "sleep" => i = 1
  /\ main = "cleanup" => i <= num_channel + 1

(* A worker has a message in hand exactly between its receive and its send. *)
WorkersOK ==
  /\ wpc \in [Worker -> WorkerStates]
  /\ start \in [Worker -> BOOLEAN]
  /\ held \in [Worker -> Message \cup {NULL}]
  /\ \A w \in Worker : held[w] # NULL <=> wpc[w] \in {"got", "to_main", "to_next"}

(* Channels are destroyed when all workers have been joined.               *)
JoinedOK ==
  /\ exists \subseteq Channels
  /\ exists # Channels => main \in {"cleanup", "end"}
  /\ main = "join" => \A w \in Worker : w < i - 1 => wpc[w] = "exited"
  /\ main \in {"cleanup", "end"} => \A w \in Worker : wpc[w] = "exited"

TInv ==
  /\ QueueOK /\ LoopOK /\ WorkersOK /\ JoinedOK
  /\ done \in BOOLEAN /\ msg_check \subseteq Message

-----------------------------------------------------------------------------
(* The numbers of messages, workers and channels.                          *)
LEMMA Numbers ==
  /\ num_msgs \in Nat \ {0} /\ num_channel \in Nat \ {0} /\ buffer_size \in Nat \ {0}
  /\ NULL \notin Message
  /\ MainChannel \notin Worker /\ MainChannel \in Channels
  /\ \A w \in Worker : w \in Channels /\ next_index(w) \in Worker
  /\ \A x \in 1 .. num_channel : x - 1 \in Worker
<1>1. num_channel \in Nat \ {0} /\ buffer_size \in Nat \ {0} /\ LoadPercent \in Nat
  BY RingAssumption
<1>2. num_channel * (buffer_size + 1) * LoadPercent \in Int
  BY <1>1
<1>3. num_msgs \in Int /\ num_msgs > 0
  BY <1>2, RingAssumption DEF num_msgs
<1> QED BY <1>1, <1>3 DEF NULL, Message, MainChannel, Channels, Worker, next_index

(* A send appends to a channel with room.                                  *)
LEMMA SendFacts ==
  ASSUME QueueOK, NEW c \in Channels, NEW d \in Message \cup {NULL}, Send(c, d)
  PROVE  /\ QueueOK'
         /\ Len(queue[c]) \in Nat /\ Len(queue'[c]) = Len(queue[c]) + 1
         /\ queue'[c][Len(queue[c]) + 1] = d
         /\ \A k \in 1 .. Len(queue[c]) : queue'[c][k] = queue[c][k]
         /\ \A x \in Channels : x # c => queue'[x] = queue[x]
<1>1. queue[c] \in Seq(Message \cup {NULL}) /\ Len(queue[c]) < buffer_size
  BY DEF QueueOK, Send, HasRoom
<1>2. Len(queue[c]) \in Nat /\ buffer_size \in Nat
  BY <1>1, Numbers, LenProperties
<1>3. queue' = [queue EXCEPT ![c] = Append(queue[c], d)]
  BY DEF Send
<1>4. /\ Append(queue[c], d) \in Seq(Message \cup {NULL})
      /\ Len(Append(queue[c], d)) = Len(queue[c]) + 1
      /\ \A k \in 1 .. Len(queue[c]) : Append(queue[c], d)[k] = queue[c][k]
      /\ Append(queue[c], d)[Len(queue[c]) + 1] = d
  BY <1>1, AppendProperties
<1>5. queue'[c] = Append(queue[c], d) /\ \A x \in Channels : x # c => queue'[x] = queue[x]
  BY <1>3 DEF QueueOK
<1>6. QueueOK'
  <2>1. queue' \in [Channels -> Seq(Message \cup {NULL})]
    BY <1>3, <1>4 DEF QueueOK
  <2>2. Len(queue'[c]) <= buffer_size
    BY <1>1, <1>2, <1>4, <1>5
  <2> QED BY <1>5, <2>1, <2>2 DEF QueueOK
<1> QED BY <1>2, <1>4, <1>5, <1>6

(* A receive takes the first message, and the others move up.              *)
LEMMA ReceiveFacts ==
  ASSUME QueueOK, NEW c \in Channels, Receive(c)
  PROVE  /\ QueueOK'
         /\ Len(queue[c]) \in Nat \ {0} /\ Len(queue'[c]) = Len(queue[c]) - 1
         /\ Head(queue[c]) \in Message \cup {NULL} /\ Head(queue[c]) = queue[c][1]
         /\ \A k \in 1 .. Len(queue[c]) - 1 : queue'[c][k] = queue[c][k + 1]
         /\ \A x \in Channels : x # c => queue'[x] = queue[x]
<1>1. queue[c] \in Seq(Message \cup {NULL}) /\ queue[c] # <<>> /\ Len(queue[c]) <= buffer_size
  BY DEF QueueOK, Receive
<1>2. Len(queue[c]) \in Nat \ {0} /\ buffer_size \in Nat
  BY <1>1, Numbers, EmptySeq
<1>3. queue' = [queue EXCEPT ![c] = Tail(queue[c])]
  BY DEF Receive
<1>4. /\ Tail(queue[c]) \in Seq(Message \cup {NULL})
      /\ Len(Tail(queue[c])) = Len(queue[c]) - 1
      /\ \A k \in 1 .. Len(Tail(queue[c])) : Tail(queue[c])[k] = queue[c][k + 1]
      /\ Head(queue[c]) \in Message \cup {NULL}
  BY <1>1, HeadTailProperties
<1>5. queue'[c] = Tail(queue[c]) /\ \A x \in Channels : x # c => queue'[x] = queue[x]
  BY <1>3 DEF QueueOK
<1>6. QueueOK'
  <2>1. queue' \in [Channels -> Seq(Message \cup {NULL})]
    BY <1>3, <1>4 DEF QueueOK
  <2>2. Len(queue'[c]) <= buffer_size
    BY <1>1, <1>2, <1>4, <1>5
  <2> QED BY <1>5, <2>1, <2>2 DEF QueueOK
<1>7. Head(queue[c]) = queue[c][1]
  BY <1>1
<1> QED BY <1>2, <1>4, <1>5, <1>6, <1>7

(* The loops of the main thread.                                           *)
LEMMA IterateFacts ==
  ASSUME LoopOK, NEW loop, NEW last \in Nat, NEW then, Iterate(loop, last, then)
  PROVE  \/ i < last /\ main' = loop /\ i' = i + 1 /\ i' <= last
         \/ i >= last /\ main' = then /\ i' = 1
BY DEF LoopOK, Iterate

(* A worker that has not left its loop cannot disturb the main thread.     *)
LEMMA WorkerStep ==
  ASSUME TInv, NEW w \in Worker, wpc[w] # "exited", UNCHANGED mainVars,
         QueueOK', WorkersOK', \A v \in Worker : v # w => wpc'[v] = wpc[v]
  PROVE  TInv'
<1>1. LoopOK'
  BY DEF TInv, LoopOK, mainVars
<1>2. JoinedOK'
  BY DEF TInv, JoinedOK, mainVars
<1> QED BY <1>1, <1>2 DEF TInv, mainVars

(* The main thread does not touch the workers' variables.                  *)
LEMMA MainStep ==
  ASSUME TInv, UNCHANGED workerVars, QueueOK', LoopOK', JoinedOK',
         done' \in BOOLEAN, msg_check' \subseteq Message
  PROVE  TInv'
<1>1. WorkersOK'
  BY DEF TInv, WorkersOK, workerVars
<1> QED BY <1>1 DEF TInv

(* Messages go into the hands of a worker.                                 *)
LEMMA KeepFacts ==
  ASSUME WorkersOK, NEW w \in Worker, wpc[w] = "receive", NEW d \in Message, Keep(w, d)
  PROVE  WorkersOK' /\ held[w] = NULL /\ \A v \in Worker : v # w => wpc'[v] = wpc[v]
BY Numbers DEF WorkersOK, WorkerStates, Keep

(* Every step of a worker keeps TInv ...                                   *)
LEMMA WorkerT ==
  ASSUME TInv, NEW w \in Worker, worker_thread(w)
  PROVE  TInv'
<1>1. QueueOK /\ WorkersOK /\ w \in Channels /\ MainChannel \in Channels
  BY Numbers DEF TInv
<1>2. CASE ReceiveStart(w)
  <2>1. Receive(MainChannel) /\ wpc[w] = "receive" /\ UNCHANGED mainVars
    BY <1>2 DEF ReceiveStart
  <2>2. QueueOK' /\ Head(queue[MainChannel]) \in Message \cup {NULL}
    BY <1>1, <2>1, ReceiveFacts
  <2>3. WorkersOK' /\ \A v \in Worker : v # w => wpc'[v] = wpc[v]
    <3>1. CASE Head(queue[MainChannel]) = NULL
      BY <1>1, <1>2, <3>1 DEF ReceiveStart, WorkersOK
    <3>2. CASE Head(queue[MainChannel]) # NULL
      BY <1>1, <1>2, <2>1, <2>2, <3>2, KeepFacts DEF ReceiveStart
    <3> QED BY <3>1, <3>2
  <2> QED BY <2>1, <2>2, <2>3, WorkerStep
<1>3. CASE ReceiveMine(w)
  <2>1. Receive(w) /\ wpc[w] = "receive" /\ UNCHANGED mainVars
    BY <1>3 DEF ReceiveMine
  <2>2. QueueOK' /\ Head(queue[w]) \in Message \cup {NULL}
    BY <1>1, <2>1, ReceiveFacts
  <2>3. WorkersOK' /\ \A v \in Worker : v # w => wpc'[v] = wpc[v]
    <3>1. CASE Head(queue[w]) = NULL
      BY <1>1, <1>3, <2>1, <3>1 DEF ReceiveMine, WorkersOK, WorkerStates
    <3>2. CASE Head(queue[w]) # NULL
      BY <1>1, <1>3, <2>1, <2>2, <3>2, KeepFacts DEF ReceiveMine
    <3> QED BY <3>1, <3>2
  <2> QED BY <2>1, <2>2, <2>3, WorkerStep
<1>4. CASE LoadDone(w)
  <2>1. QueueOK'
    BY <1>1, <1>4 DEF QueueOK, LoadDone
  <2>2. WorkersOK' /\ \A v \in Worker : v # w => wpc'[v] = wpc[v]
    BY <1>1, <1>4 DEF WorkersOK, WorkerStates, LoadDone
  <2> QED BY <1>4, <2>1, <2>2, WorkerStep DEF LoadDone
<1>5. CASE PassOn(w)
  <2>1. PICK c \in {MainChannel, next_index(w)} : Send(c, held[w])
    BY <1>5 DEF PassOn
  <2>2. c \in Channels /\ held[w] \in Message \cup {NULL}
    BY <1>1, <2>1, Numbers DEF WorkersOK
  <2>3. QueueOK'
    BY <1>1, <2>1, <2>2, SendFacts
  <2>4. WorkersOK' /\ \A v \in Worker : v # w => wpc'[v] = wpc[v]
    BY <1>1, <1>5 DEF WorkersOK, WorkerStates, PassOn
  <2> QED BY <1>5, <2>3, <2>4, WorkerStep DEF PassOn
<1> QED BY <1>2, <1>3, <1>4, <1>5 DEF worker_thread

-----------------------------------------------------------------------------
(* ... and so does every step of the main thread.                          *)
LEMMA InsertMessageT ==
  ASSUME TInv, InsertMessage
  PROVE  TInv'
<1>1. QueueOK /\ LoopOK /\ i \in Message
  BY Numbers DEF TInv, LoopOK, InsertMessage, Iterate, Message
<1>2. QueueOK'
  BY <1>1, SendFacts, Numbers DEF InsertMessage
<1>3. LoopOK'
  BY <1>1, IterateFacts, Numbers DEF InsertMessage, LoopOK
<1>4. JoinedOK'
  BY <1>1, IterateFacts, Numbers DEF TInv, JoinedOK, InsertMessage, Iterate
<1> QED BY <1>2, <1>3, <1>4, MainStep DEF TInv, InsertMessage

(* As above.                                                               *)
LEMMA SendStartT ==
  ASSUME TInv, SendStart
  PROVE  TInv'
<1>1. QueueOK /\ LoopOK
  BY DEF TInv
<1>2. QueueOK'
  BY <1>1, SendFacts, Numbers DEF SendStart
<1>3. LoopOK'
  BY <1>1, IterateFacts, Numbers DEF SendStart, LoopOK
<1>4. JoinedOK'
  BY <1>1, Numbers DEF TInv, JoinedOK, SendStart, Iterate
<1> QED BY <1>2, <1>3, <1>4, MainStep DEF TInv, SendStart

(* As above.                                                               *)
LEMMA StopTestT ==
  ASSUME TInv, StopTest
  PROVE  TInv'
<1>1. QueueOK' /\ LoopOK
  BY DEF TInv, QueueOK, StopTest
<1>2. LoopOK'
  BY <1>1, IterateFacts, Numbers DEF StopTest, LoopOK
<1>3. JoinedOK'
  BY DEF TInv, JoinedOK, StopTest, Iterate
<1> QED BY <1>1, <1>2, <1>3, MainStep DEF TInv, StopTest

(* As above: the test aborts, or has one message more.                     *)
LEMMA PullMessageT ==
  ASSUME TInv, PullMessage
  PROVE  TInv'
<1> DEFINE d == Head(queue[MainChannel])
<1>1. QueueOK /\ LoopOK /\ Receive(MainChannel) /\ main = "pull"
  BY DEF TInv, PullMessage
<1>2. QueueOK'
  BY <1>1, ReceiveFacts, Numbers
<1>3. CASE d \in Message \ msg_check
  <2>1. Iterate("pull", num_msgs, "stop") /\ msg_check' = msg_check \cup {d}
    BY <1>3 DEF PullMessage
  <2>2. LoopOK'
    BY <1>1, <2>1, IterateFacts, Numbers DEF LoopOK
  <2>3. JoinedOK'
    BY <1>1, <2>1 DEF TInv, JoinedOK, PullMessage, Iterate, workerVars
  <2> QED BY <1>2, <1>3, <2>1, <2>2, <2>3, MainStep DEF TInv, PullMessage
<1>4. CASE d \notin Message \ msg_check
  <2>1. main' = "abort" /\ UNCHANGED <<i, msg_check>>
    BY <1>4 DEF PullMessage
  <2>2. LoopOK' /\ JoinedOK'
    BY <1>1, <2>1 DEF TInv, LoopOK, JoinedOK, PullMessage
  <2> QED BY <1>2, <2>1, <2>2, MainStep DEF TInv, PullMessage
<1> QED BY <1>3, <1>4

(* As above.                                                               *)
LEMMA SendStopT ==
  ASSUME TInv, SendStop
  PROVE  TInv'
<1>1. QueueOK /\ LoopOK /\ main = "stop"
  BY DEF TInv, SendStop, Iterate
<1>2. i - 1 \in Channels
  BY <1>1, Numbers DEF LoopOK
<1>3. QueueOK'
  BY <1>1, <1>2, SendFacts, Numbers DEF SendStop
<1>4. LoopOK'
  BY <1>1, IterateFacts, Numbers DEF SendStop, LoopOK
<1>5. JoinedOK'
  <2>1. \A w \in Worker : ~(w < 0)
    BY DEF Worker
  <2> QED BY <1>1, <2>1 DEF TInv, JoinedOK, SendStop, Iterate, workerVars
<1> QED BY <1>3, <1>4, <1>5, MainStep DEF TInv, SendStop

(* As above: the worker that is joined has left its loop.                  *)
LEMMA JoinT ==
  ASSUME TInv, Join
  PROVE  TInv'
<1>1. QueueOK' /\ LoopOK /\ main = "join" /\ i \in Nat /\ num_channel \in Nat
  BY Numbers DEF TInv, QueueOK, LoopOK, Join, Iterate
<1>2. LoopOK'
  BY <1>1, IterateFacts, Numbers DEF Join, LoopOK
<1>3. JoinedOK'
  <2>1. \A w \in Worker : w < i => wpc[w] = "exited"
    BY <1>1 DEF TInv, JoinedOK, Join, Worker
  <2>2. i >= num_channel => \A w \in Worker : w < i
    BY <1>1 DEF Worker
  <2> QED BY <1>1, <2>1, <2>2, IterateFacts DEF TInv, JoinedOK, Join, workerVars
<1> QED BY <1>1, <1>2, <1>3, MainStep DEF TInv, Join

(* As above.                                                               *)
LEMMA CleanupT ==
  ASSUME TInv, Cleanup
  PROVE  TInv'
<1>1. QueueOK' /\ LoopOK /\ main = "cleanup"
  BY DEF TInv, QueueOK, Cleanup, Iterate
<1>2. LoopOK'
  BY <1>1, IterateFacts, Numbers DEF Cleanup, LoopOK
<1>3. JoinedOK'
  BY <1>1, IterateFacts DEF TInv, JoinedOK, Cleanup, workerVars, Iterate
<1> QED BY <1>1, <1>2, <1>3, MainStep DEF TInv, Cleanup

(* The initial states, and all steps.                                      *)
LEMMA InitT == Init => TInv
<1> SUFFICES ASSUME Init PROVE TInv
  OBVIOUS
<1>1. QueueOK
  BY Numbers, EmptySeq DEF Init, QueueOK
<1>2. LoopOK /\ WorkersOK /\ JoinedOK
  BY Numbers DEF Init, LoopOK, WorkersOK, WorkerStates, JoinedOK
<1> QED BY <1>1, <1>2 DEF TInv, Init

(* As above.                                                               *)
LEMMA StepT == TInv /\ [Next]_vars => TInv'
<1> SUFFICES ASSUME TInv, [Next]_vars PROVE TInv'
  OBVIOUS
<1>1. CASE UNCHANGED vars
  <2>1. QueueOK' /\ LoopOK' /\ JoinedOK'
    BY <1>1 DEF vars, TInv, QueueOK, LoopOK, JoinedOK
  <2> QED BY <1>1, <2>1, MainStep DEF TInv, vars, workerVars
<1>2. CASE run_stress_send_recv
  BY <1>2, InsertMessageT, SendStartT, StopTestT, PullMessageT, SendStopT, JoinT, CleanupT
     DEF run_stress_send_recv
<1> QED BY <1>1, <1>2, WorkerT DEF Next, Terminated

(* Type correctness of the send/receive stress test.                       *)
THEOREM TypeCorrect == Spec => []TypeOK
<1>1. TInv => TypeOK
  BY DEF TInv, QueueOK, LoopOK, WorkersOK, WorkerStates, JoinedOK, TypeOK
<1> QED BY <1>1, InitT, StepT, PTL DEF Spec

(* No channel is destroyed before every worker has left its loop, however  *)
(* the usleep and the start period fall together.                          *)
THEOREM NoUseAfterDestroy == Spec => []DestroyedAfterUse
<1>1. TInv => DestroyedAfterUse
  BY DEF TInv, JoinedOK, DestroyedAfterUse
<1> QED BY <1>1, InitT, StepT, PTL DEF Spec

-----------------------------------------------------------------------------
(***************************************************************************)
(* No message is lost or duplicated: a message is somewhere, and in no two *)
(* places at once.                                                         *)
(***************************************************************************)
At(c, k, m) == k \in 1 .. Len(queue[c]) /\ queue[c][k] = m

Uninserted(m) == main = "insert" /\ m >= i

Somewhere(m) ==
  \/ \E c \in Channels, k \in Nat : At(c, k, m)
  \/ \E w \in Worker : held[w] = m
  \/ Uninserted(m) \/ m \in msg_check

NotTwice(m) ==
  /\ \A c \in Channels, k \in Nat : At(c, k, m) =>
       /\ \A x \in Channels, l \in Nat : At(x, l, m) => c = x /\ k = l
       /\ \A w \in Worker : held[w] # m
       /\ ~Uninserted(m) /\ m \notin msg_check
  /\ \A w \in Worker : held[w] = m =>
       /\ \A v \in Worker : held[v] = m => v = w
       /\ ~Uninserted(m) /\ m \notin msg_check
  /\ ~(Uninserted(m) /\ m \in msg_check)

OnceInv == \A m \in Message : Somewhere(m) /\ NotTwice(m)

(* Where a message is after a send.                                        *)
LEMMA AtAfterSend ==
  ASSUME QueueOK, NEW c \in Channels, NEW d \in Message \cup {NULL}, Send(c, d),
         NEW m, NEW x \in Channels, NEW k \in Nat
  PROVE  /\ Len(queue[c]) + 1 \in Nat
         /\ At(x, k, m)' <=> \/ At(x, k, m)
                             \/ x = c /\ k = Len(queue[c]) + 1 /\ m = d
<1>1. /\ Len(queue[c]) \in Nat /\ Len(queue'[c]) = Len(queue[c]) + 1
      /\ queue'[c][Len(queue[c]) + 1] = d
      /\ \A l \in 1 .. Len(queue[c]) : queue'[c][l] = queue[c][l]
      /\ \A y \in Channels : y # c => queue'[y] = queue[y]
  BY SendFacts
<1>2. CASE x # c
  BY <1>1, <1>2 DEF At
<1>3. CASE x = c
  <2>1. CASE k \in 1 .. Len(queue[c])
    BY <1>1, <1>3, <2>1 DEF At
  <2>2. CASE k = Len(queue[c]) + 1
    BY <1>1, <1>3, <2>2 DEF At
  <2>3. CASE k \notin 1 .. Len(queue[c]) /\ k # Len(queue[c]) + 1
    BY <1>1, <1>3, <2>3 DEF At
  <2> QED BY <2>1, <2>2, <2>3
<1> QED BY <1>1, <1>2, <1>3

(* Where a message is after a receive.                                     *)
LEMMA AtAfterReceive ==
  ASSUME QueueOK, NEW c \in Channels, Receive(c),
         NEW m, NEW x \in Channels, NEW k \in Nat
  PROVE  /\ At(c, 1, Head(queue[c]))
         /\ At(x, k, m)' <=> \/ x # c /\ At(x, k, m)
                             \/ x = c /\ k # 0 /\ At(c, k + 1, m)
<1>1. /\ Len(queue[c]) \in Nat \ {0} /\ Len(queue'[c]) = Len(queue[c]) - 1
      /\ Head(queue[c]) = queue[c][1]
      /\ \A l \in 1 .. Len(queue[c]) - 1 : queue'[c][l] = queue[c][l + 1]
      /\ \A y \in Channels : y # c => queue'[y] = queue[y]
  BY ReceiveFacts
<1>2. At(c, 1, Head(queue[c]))
  BY <1>1 DEF At
<1>3. CASE x # c
  BY <1>1, <1>3 DEF At
<1>4. CASE x = c
  <2>1. CASE k \in 1 .. Len(queue[c]) - 1
    <3>1. queue'[c][k] = queue[c][k + 1] /\ k + 1 \in 1 .. Len(queue[c]) /\ k # 0
      BY <1>1, <2>1
    <3>2. k \in 1 .. Len(queue'[c])
      BY <1>1, <2>1
    <3>3. At(x, k, m)' <=> queue'[c][k] = m
      BY <1>4, <3>2 DEF At
    <3>4. At(c, k + 1, m) <=> queue[c][k + 1] = m
      BY <3>1 DEF At
    <3> QED BY <1>2, <1>4, <3>1, <3>3, <3>4
  <2>2. CASE k \notin 1 .. Len(queue[c]) - 1
    <3>1. k \notin 1 .. Len(queue'[c])
      BY <1>1, <2>2
    <3>2. k # 0 => k + 1 \notin 1 .. Len(queue[c])
      BY <1>1, <2>2
    <3>3. ~At(x, k, m)'
      BY <1>4, <3>1 DEF At
    <3>4. k # 0 => ~At(c, k + 1, m)
      BY <3>2 DEF At
    <3> QED BY <1>2, <1>4, <3>3, <3>4
  <2> QED BY <2>1, <2>2
<1> QED BY <1>2, <1>3, <1>4

(* Messages that no channel operation concerns.                            *)
LEMMA OnceKept ==
  ASSUME OnceInv, NEW m \in Message,
         \A x \in Channels, k \in Nat : At(x, k, m)' <=> At(x, k, m),
         \A w \in Worker : held'[w] = m <=> held[w] = m,
         Uninserted(m)' <=> Uninserted(m),
         m \in msg_check' <=> m \in msg_check
  PROVE  Somewhere(m)' /\ NotTwice(m)'
BY DEF OnceInv, Somewhere, NotTwice

(* A message leaves its place for the last position of a channel.          *)
LEMMA OnceSent ==
  ASSUME OnceInv, QueueOK, NEW c \in Channels, NEW m \in Message, Send(c, m),
         \A w \in Worker : held'[w] # m, ~Uninserted(m)', m \notin msg_check',
         \A x \in Channels, k \in Nat : ~At(x, k, m)
  PROVE  Somewhere(m)' /\ NotTwice(m)'
<1>1. /\ Len(queue[c]) + 1 \in Nat
      /\ \A x \in Channels, k \in Nat :
           At(x, k, m)' <=> x = c /\ k = Len(queue[c]) + 1
  BY AtAfterSend
<1> HIDE DEF At
<1> QED BY <1>1 DEF Somewhere, NotTwice

(* Other messages are not disturbed by a send.                             *)
LEMMA OnceBystander ==
  ASSUME OnceInv, QueueOK, NEW c \in Channels, NEW d \in Message \cup {NULL}, Send(c, d),
         NEW m \in Message, m # d,
         \A w \in Worker : held'[w] = m <=> held[w] = m,
         Uninserted(m)' <=> Uninserted(m), m \in msg_check' <=> m \in msg_check
  PROVE  Somewhere(m)' /\ NotTwice(m)'
<1>1. \A x \in Channels, k \in Nat : At(x, k, m)' <=> At(x, k, m)
  BY AtAfterSend
<1> QED BY <1>1, OnceKept

(* The messages behind the one that is received move up.                   *)
LEMMA OnceMovedUp ==
  ASSUME OnceInv, QueueOK, NEW c \in Channels, Receive(c),
         NEW m \in Message, m # Head(queue[c]),
         \A w \in Worker : held'[w] = m <=> held[w] = m,
         Uninserted(m)' <=> Uninserted(m), m \in msg_check' <=> m \in msg_check
  PROVE  Somewhere(m)' /\ NotTwice(m)'
<1>1. \A x \in Channels, k \in Nat :
        At(x, k, m)' <=> \/ x # c /\ At(x, k, m)
                         \/ x = c /\ k # 0 /\ At(c, k + 1, m)
  BY AtAfterReceive
<1>2. ~At(c, 1, m) /\ \A x \in Channels : ~At(x, 0, m)
  BY ReceiveFacts DEF At
<1>3. ASSUME NEW x \in Channels, NEW k \in Nat, At(x, k, m)
      PROVE  \E l \in Nat : At(x, l, m)'
  <2>1. CASE x # c
    BY <1>1, <1>3, <2>1
  <2>2. CASE x = c
    <3>1. k # 0 /\ k # 1
      BY <1>2, <1>3, <2>2
    <3>2. k - 1 \in Nat /\ k - 1 # 0 /\ (k - 1) + 1 = k
      BY <3>1
    <3> QED BY <1>1, <1>3, <2>2, <3>2
  <2> QED BY <2>1, <2>2
<1>4. Somewhere(m)'
  BY <1>3 DEF OnceInv, Somewhere
<1>5. ASSUME NEW x \in Channels, NEW k \in Nat, At(x, k, m)'
      PROVE  /\ \A y \in Channels, l \in Nat : At(y, l, m)' => x = y /\ k = l
             /\ \E l \in Nat : At(x, l, m)
  <2>1. At(x, IF x = c THEN k + 1 ELSE k, m) /\ (IF x = c THEN k + 1 ELSE k) \in Nat
    BY <1>1, <1>5
  <2>2. ASSUME NEW y \in Channels, NEW l \in Nat, At(y, l, m)'
        PROVE  x = y /\ k = l
    <3>1. At(y, IF y = c THEN l + 1 ELSE l, m) /\ (IF y = c THEN l + 1 ELSE l) \in Nat
      BY <1>1, <2>2
    <3>2. x = y /\ (IF x = c THEN k + 1 ELSE k) = (IF y = c THEN l + 1 ELSE l)
      BY <2>1, <3>1 DEF OnceInv, NotTwice
    <3> QED BY <3>2
  <2> QED BY <2>1, <2>2
<1>6. NotTwice(m)'
  BY <1>5 DEF OnceInv, NotTwice
<1> QED BY <1>4, <1>6

(* The message that is received is in no channel any more.                 *)
LEMMA OnceTaken ==
  ASSUME OnceInv, QueueOK, NEW c \in Channels, Receive(c),
         NEW m \in Message, m = Head(queue[c])
  PROVE  /\ \A x \in Channels, k \in Nat : ~At(x, k, m)'
         /\ \A w \in Worker : held[w] # m
         /\ ~Uninserted(m) /\ m \notin msg_check
<1>1. At(c, 1, m)
  BY AtAfterReceive
<1>2. \A x \in Channels, k \in Nat :
        At(x, k, m)' => \/ x # c /\ At(x, k, m)
                        \/ x = c /\ k # 0 /\ At(c, k + 1, m)
  BY AtAfterReceive
<1>3. \A x \in Channels, k \in Nat : At(x, k, m) => x = c /\ k = 1
  BY <1>1 DEF OnceInv, NotTwice
<1>4. \A x \in Channels, k \in Nat : ~At(x, k, m)'
  BY <1>2, <1>3
<1> QED BY <1>1, <1>4 DEF OnceInv, NotTwice

(* A worker receives a message or NULL.                                    *)
LEMMA WorkerReceivesOnce ==
  ASSUME TInv, OnceInv, NEW w \in Worker, wpc[w] = "receive",
         NEW c \in Channels, Receive(c), UNCHANGED mainVars,
         \/ Head(queue[c]) = NULL /\ held' = held
         \/ Head(queue[c]) # NULL /\ held' = [held EXCEPT ![w] = Head(queue[c])]
  PROVE  OnceInv'
<1>1. /\ QueueOK /\ held \in [Worker -> Message \cup {NULL}] /\ held[w] = NULL
      /\ NULL \notin Message /\ Head(queue[c]) \in Message \cup {NULL}
  BY ReceiveFacts, Numbers DEF TInv, WorkersOK
<1> SUFFICES ASSUME NEW m \in Message PROVE Somewhere(m)' /\ NotTwice(m)'
  BY DEF OnceInv, Message
<1>2. Uninserted(m)' = Uninserted(m) /\ msg_check' = msg_check
  BY DEF Uninserted, mainVars
<1>3. CASE m # Head(queue[c])
  <2>1. \A v \in Worker : held'[v] = m <=> held[v] = m
    BY <1>1, <1>3
  <2> QED BY <1>1, <1>2, <1>3, <2>1, OnceMovedUp
<1>4. CASE m = Head(queue[c])
  <2>1. /\ \A x \in Channels, k \in Nat : ~At(x, k, m)'
        /\ \A v \in Worker : held[v] # m
        /\ ~Uninserted(m) /\ m \notin msg_check
    BY <1>1, <1>4, OnceTaken
  <2>2. \A v \in Worker : held'[v] = m <=> v = w
    BY <1>1, <1>4, <2>1
  <2> HIDE DEF At
  <2> QED BY <1>2, <2>1, <2>2 DEF Somewhere, NotTwice
<1> QED BY <1>3, <1>4

(* A worker takes, keeps or passes on a message.                           *)
LEMMA WorkerOnce ==
  ASSUME TInv, OnceInv, NEW w \in Worker, worker_thread(w)
  PROVE  OnceInv'
<1>1. w \in Channels /\ MainChannel \in Channels /\ QueueOK
  BY Numbers DEF TInv
<1>2. CASE ReceiveStart(w)
  BY <1>1, <1>2, WorkerReceivesOnce DEF ReceiveStart, Keep
<1>3. CASE ReceiveMine(w)
  BY <1>1, <1>3, WorkerReceivesOnce DEF ReceiveMine, Keep
<1>4. CASE LoadDone(w)
  <2> SUFFICES ASSUME NEW m \in Message PROVE Somewhere(m)' /\ NotTwice(m)'
    BY DEF OnceInv, Message
  <2>1. Uninserted(m)' = Uninserted(m) /\ UNCHANGED <<queue, held, msg_check>>
    BY <1>4 DEF LoadDone, Uninserted, mainVars
  <2>2. \A x \in Channels, k \in Nat : At(x, k, m)' <=> At(x, k, m)
    BY <2>1 DEF At
  <2> QED BY <2>1, <2>2, OnceKept
<1>5. CASE PassOn(w)
  <2>1. PICK c \in {MainChannel, next_index(w)} : Send(c, held[w])
    BY <1>5 DEF PassOn
  <2>2. /\ c \in Channels /\ NULL \notin Message /\ held[w] \in Message
        /\ held \in [Worker -> Message \cup {NULL}]
        /\ held' = [held EXCEPT ![w] = NULL]
    BY <1>5, <2>1, Numbers DEF TInv, WorkersOK, PassOn
  <2> SUFFICES ASSUME NEW m \in Message PROVE Somewhere(m)' /\ NotTwice(m)'
    BY DEF OnceInv, Message
  <2>3. Uninserted(m)' = Uninserted(m) /\ msg_check' = msg_check
    BY <1>5 DEF PassOn, Uninserted, mainVars
  <2>4. CASE m = held[w]
    <3>1. /\ \A x \in Channels, k \in Nat : ~At(x, k, m)
          /\ \A v \in Worker : held[v] = m => v = w
          /\ ~Uninserted(m) /\ m \notin msg_check
      BY <2>4 DEF OnceInv, NotTwice
    <3>2. \A v \in Worker : held'[v] # m
      BY <2>2, <3>1
    <3>3. Send(c, m)
      BY <2>1, <2>4
    <3> QED BY <1>1, <2>2, <2>3, <3>1, <3>2, <3>3, OnceSent
  <2>5. CASE m # held[w]
    <3>1. \A v \in Worker : held'[v] = m <=> held[v] = m
      BY <2>2, <2>5
    <3> QED BY <1>1, <2>1, <2>2, <2>3, <2>5, <3>1, OnceBystander
  <2> QED BY <2>4, <2>5
<1> QED BY <1>2, <1>3, <1>4, <1>5 DEF worker_thread

(* The main thread sends a message, or NULL.                               *)
LEMMA InsertMessageOnce ==
  ASSUME TInv, OnceInv, InsertMessage
  PROVE  OnceInv'
<1>1. /\ QueueOK /\ i \in Message /\ MainChannel \in Channels /\ Send(MainChannel, i)
      /\ UNCHANGED <<held, msg_check>> /\ main = "insert"
  BY Numbers DEF TInv, LoopOK, InsertMessage, Iterate, Message, workerVars
<1> SUFFICES ASSUME NEW m \in Message PROVE Somewhere(m)' /\ NotTwice(m)'
  BY DEF OnceInv, Message
<1>2. Uninserted(m)' <=> m >= i /\ m # i
  <2>1. i < num_msgs => main' = "insert" /\ i' = i + 1
    BY DEF InsertMessage, Iterate
  <2>2. ~(i < num_msgs) => main' = "start"
    BY DEF InsertMessage, Iterate
  <2> QED BY <1>1, <2>1, <2>2, Numbers DEF Uninserted, Message
<1>3. CASE m = i
  <2>1. /\ \A x \in Channels, k \in Nat : ~At(x, k, m)
        /\ \A v \in Worker : held[v] # m
        /\ m \notin msg_check
    BY <1>1, <1>3 DEF OnceInv, NotTwice, Uninserted, Message
  <2> QED BY <1>1, <1>2, <1>3, <2>1, OnceSent
<1>4. CASE m # i
  <2>1. Uninserted(m)' <=> Uninserted(m)
    BY <1>1, <1>2, <1>4 DEF Uninserted
  <2> QED BY <1>1, <1>4, <2>1, OnceBystander
<1> QED BY <1>3, <1>4

(* As above.                                                               *)
LEMMA SendNullOnce ==
  ASSUME TInv, OnceInv, NEW c \in Channels, Send(c, NULL),
         UNCHANGED <<held, msg_check>>, main # "insert", main' # "insert"
  PROVE  OnceInv'
<1> SUFFICES ASSUME NEW m \in Message PROVE Somewhere(m)' /\ NotTwice(m)'
  BY DEF OnceInv, Message
<1>1. m # NULL /\ ~Uninserted(m) /\ ~Uninserted(m)'
  BY Numbers DEF Uninserted
<1> QED BY <1>1, OnceBystander DEF TInv

(* The main thread receives a message.                                     *)
LEMMA PullMessageOnce ==
  ASSUME TInv, OnceInv, PullMessage
  PROVE  OnceInv'
<1>1. /\ QueueOK /\ MainChannel \in Channels /\ Receive(MainChannel)
      /\ held' = held /\ main = "pull" /\ main' # "insert"
  BY Numbers DEF TInv, PullMessage, Iterate, workerVars
<1>2. Head(queue[MainChannel]) \in Message =>
        msg_check' = msg_check \cup {Head(queue[MainChannel])}
  <2> SUFFICES ASSUME Head(queue[MainChannel]) \in Message
               PROVE  Head(queue[MainChannel]) \notin msg_check
    BY DEF PullMessage
  <2>1. PICK m \in Message : m = Head(queue[MainChannel])
    OBVIOUS
  <2> QED BY <1>1, <2>1, OnceTaken
<1>3. Head(queue[MainChannel]) \notin Message => msg_check' = msg_check
  BY DEF PullMessage
<1> SUFFICES ASSUME NEW m \in Message PROVE Somewhere(m)' /\ NotTwice(m)'
  BY DEF OnceInv, Message
<1>4. ~Uninserted(m) /\ ~Uninserted(m)'
  BY <1>1 DEF Uninserted
<1>5. CASE m # Head(queue[MainChannel])
  <2>1. m \in msg_check' <=> m \in msg_check
    BY <1>2, <1>3, <1>5
  <2> QED BY <1>1, <1>4, <1>5, <2>1, OnceMovedUp
<1>6. CASE m = Head(queue[MainChannel])
  <2>1. /\ \A x \in Channels, k \in Nat : ~At(x, k, m)'
        /\ \A v \in Worker : held[v] # m
    BY <1>1, <1>6, OnceTaken
  <2>2. m \in msg_check'
    BY <1>2, <1>6
  <2> HIDE DEF At
  <2> QED BY <1>1, <1>4, <2>1, <2>2 DEF Somewhere, NotTwice
<1> QED BY <1>5, <1>6

(* All steps, and the initial states.                                      *)
LEMMA StepOnce == TInv /\ OnceInv /\ [Next]_vars => OnceInv'
<1> SUFFICES ASSUME TInv, OnceInv, [Next]_vars PROVE OnceInv'
  OBVIOUS
<1>1. ASSUME UNCHANGED <<queue, held, msg_check>>,
             (main # "insert" /\ main' # "insert") \/ UNCHANGED <<main, i>>
      PROVE  OnceInv'
  <2> SUFFICES ASSUME NEW m \in Message PROVE Somewhere(m)' /\ NotTwice(m)'
    BY DEF OnceInv, Message
  <2>1. \A x \in Channels, k \in Nat : At(x, k, m)' <=> At(x, k, m)
    BY <1>1 DEF At
  <2>2. Uninserted(m)' <=> Uninserted(m)
    BY <1>1 DEF Uninserted
  <2> QED BY <1>1, <2>1, <2>2, OnceKept
<1>2. CASE UNCHANGED vars
  BY <1>1, <1>2 DEF vars
<1>3. CASE SendStart
  BY <1>3, SendNullOnce, Numbers DEF SendStart, Iterate, workerVars
<1>4. CASE SendStop
  <2>1. i - 1 \in Channels
    BY <1>4, Numbers DEF TInv, LoopOK, SendStop, Iterate
  <2> QED BY <1>4, <2>1, SendNullOnce DEF SendStop, Iterate, workerVars
<1>5. CASE StopTest \/ Join \/ Cleanup
  BY <1>1, <1>5 DEF StopTest, Join, Cleanup, Iterate, workerVars
<1> QED BY <1>2, <1>3, <1>4, <1>5, InsertMessageOnce, PullMessageOnce, WorkerOnce
        DEF Next, Terminated, run_stress_send_recv

(* As above.                                                               *)
LEMMA InitOnce == Init => OnceInv
<1> SUFFICES ASSUME Init, NEW m \in Message PROVE Somewhere(m) /\ NotTwice(m)
  BY DEF OnceInv
<1>1. \A c \in Channels, k \in Nat : ~At(c, k, m)
  BY EmptySeq DEF Init, At
<1>2. Uninserted(m) /\ (\A w \in Worker : held[w] # m) /\ m \notin msg_check
  BY Numbers DEF Init, Uninserted, Message
<1> QED BY <1>1, <1>2 DEF Somewhere, NotTwice

(* The message m is in exactly one place.                                  *)
LEMMA OnePlace ==
  ASSUME TInv, OnceInv, NEW m \in Message
  PROVE  \E p : Places(m) = {p}
<1> DEFINE Outside == {l \in {<<"uninserted">>} : main = "insert" /\ m >= i}
           Back == {l \in {<<"back">>} : m \in msg_check}
<1>1. Places(m) = {<<"queue", p>> : p \in Positions(m)}
                  \cup {<<"worker", w>> : w \in Holders(m)} \cup Outside \cup Back
  BY DEF Places
<1>2. ASSUME NEW c \in Channels, NEW k \in Nat
      PROVE  <<c, k>> \in Positions(m) <=> At(c, k, m)
  <2>1. queue[c] \in Seq(Message \cup {NULL}) /\ Len(queue[c]) <= buffer_size
    BY DEF TInv, QueueOK
  <2>2. Len(queue[c]) \in Nat /\ buffer_size \in Nat
    BY <2>1, LenProperties, Numbers
  <2> QED BY <2>1, <2>2 DEF At, Positions
<1>3. Positions(m) \subseteq Channels \X Nat
  BY Numbers DEF Positions
<1>4. Somewhere(m) /\ NotTwice(m)
  BY DEF OnceInv
<1> HIDE DEF At
<1>5. CASE \E c \in Channels, k \in Nat : At(c, k, m)
  <2>1. PICK c \in Channels, k \in Nat : At(c, k, m)
    BY <1>5
  <2>2. Positions(m) = {<<c, k>>}
    BY <1>2, <1>3, <1>4, <2>1 DEF NotTwice
  <2>3. Holders(m) = {} /\ Outside = {} /\ Back = {}
    BY <1>4, <2>1 DEF NotTwice, Uninserted, Holders
  <2>4. Places(m) = {<<"queue", <<c, k>>>>}
    BY <1>1, <2>2, <2>3
  <2> QED BY <2>4
<1>6. CASE ~ \E c \in Channels, k \in Nat : At(c, k, m)
  <2>1. Positions(m) = {}
    BY <1>2, <1>3, <1>6
  <2>2. CASE \E w \in Worker : held[w] = m
    <3>1. PICK w \in Worker : held[w] = m
      BY <2>2
    <3>2. Holders(m) = {w} /\ Outside = {} /\ Back = {}
      BY <1>4, <3>1 DEF NotTwice, Uninserted, Holders
    <3>3. Places(m) = {<<"worker", w>>}
      BY <1>1, <2>1, <3>2
    <3> QED BY <3>3
  <2>3. CASE ~ \E w \in Worker : held[w] = m
    <3>1. Holders(m) = {}
      BY <2>3 DEF Holders
    <3>2. \/ Outside = {<<"uninserted">>} /\ Back = {}
          \/ Outside = {} /\ Back = {<<"back">>}
      BY <1>4, <1>6, <2>3 DEF Somewhere, NotTwice, Uninserted
    <3>3. Places(m) = {<<"uninserted">>} \/ Places(m) = {<<"back">>}
      BY <1>1, <2>1, <3>1, <3>2
    <3> QED BY <3>3
  <2> QED BY <2>2, <2>3
<1> QED BY <1>5, <1>6

(* No message is lost or duplicated, for any number of workers, any size   *)
(* of the channels, and whatever the workers saw of done.                  *)
THEOREM MessagesOnce == Spec => []EachMessageOnce
<1>1. TInv /\ OnceInv => EachMessageOnce
  BY OnePlace, FS_Singleton DEF EachMessageOnce
<1>2. TInv /\ OnceInv /\ [Next]_vars => (TInv /\ OnceInv)'
  BY StepT, StepOnce
<1> QED BY <1>1, <1>2, InitT, InitOnce, PTL DEF Spec

-----------------------------------------------------------------------------
(***************************************************************************)
(* The phases of the test when the usleep outlasts the start period: the   *)
(* start messages in main_channel and the workers that have taken theirs   *)
(* are as many as have been sent, so that none is left when the main       *)
(* thread begins to receive.                                               *)
(***************************************************************************)
Late == main \in {"stop", "join", "cleanup", "end"}

Nulls == {k \in 1 .. buffer_size : At(MainChannel, k, NULL)}

Started == {w \in Worker : ~start[w]}

StartsSent ==
  IF main = "insert" THEN 0 ELSE IF main = "start" THEN i - 1 ELSE num_channel

CountInv == Cardinality(Nulls) + Cardinality(Started) = StartsSent

CheckInv ==
  /\ main # "abort"
  /\ main \in {"insert", "start", "sleep"} => msg_check = {}
  /\ main = "pull" => Cardinality(msg_check) = i - 1
  /\ Late => msg_check = Message
  /\ Late \/ main = "pull" => Started = Worker

(* Every worker is sent one NULL, when all messages are back.              *)
StopInv ==
  /\ \A w \in Worker : ~Late \/ (main = "stop" /\ w >= i - 1) =>
       \A k \in Nat : ~At(w, k, NULL)
  /\ Late => \A w \in Worker : Len(queue[w]) <= 1

PhaseInv == CountInv /\ CheckInv /\ StopInv

(* The sets that are counted are finite.                                   *)
LEMMA Finite ==
  /\ IsFiniteSet(Nulls) /\ Cardinality(Nulls) \in Nat
  /\ IsFiniteSet(Started) /\ Cardinality(Started) \in Nat
  /\ IsFiniteSet(Worker) /\ Cardinality(Worker) = num_channel
  /\ IsFiniteSet(Message) /\ Cardinality(Message) = num_msgs
<1>1. IsFiniteSet(1 .. buffer_size)
  BY FS_Interval, Numbers
<1>2. IsFiniteSet(Worker) /\ Cardinality(Worker) = num_channel
  BY FS_Interval, Numbers DEF Worker
<1>3. IsFiniteSet(Message) /\ Cardinality(Message) = num_msgs
  BY FS_Interval, Numbers DEF Message
<1>4. Nulls \subseteq 1 .. buffer_size /\ Started \subseteq Worker
  BY DEF Nulls, Started
<1>5. IsFiniteSet(Nulls) /\ IsFiniteSet(Started)
  BY <1>1, <1>2, <1>4, FS_Subset
<1> QED BY <1>2, <1>3, <1>5, FS_CardinalityType

(* Positions of NULL are positions in the channel.                         *)
LEMMA NullsAt == QueueOK => \A k \in Nat : k \in Nulls <=> At(MainChannel, k, NULL)
<1> SUFFICES ASSUME QueueOK, NEW k \in Nat PROVE k \in Nulls <=> At(MainChannel, k, NULL)
  OBVIOUS
<1>1. queue[MainChannel] \in Seq(Message \cup {NULL}) /\ Len(queue[MainChannel]) <= buffer_size
  BY Numbers DEF QueueOK
<1>2. Len(queue[MainChannel]) \in Nat /\ buffer_size \in Nat
  BY <1>1, LenProperties, Numbers
<1> QED BY <1>1, <1>2 DEF Nulls, At

(* ... after the step as well.                                             *)
LEMMA NullsAtPrimed == QueueOK' => \A k \in Nat : k \in Nulls' <=> At(MainChannel, k, NULL)'
<1>1. (QueueOK => \A k \in Nat : k \in Nulls <=> At(MainChannel, k, NULL))'
  BY NullsAt, PTL
<1> QED BY <1>1

(* A receive from main_channel moves the NULLs up, without the first one   *)
(* when it takes that.                                                     *)
LEMMA NullsMovedUp ==
  ASSUME TInv, QueueOK', Receive(MainChannel)
  PROVE  Cardinality(Nulls') =
           IF Head(queue[MainChannel]) = NULL THEN Cardinality(Nulls) - 1 ELSE Cardinality(Nulls)
<1> DEFINE S == Nulls \ {1}
           f == [k \in S |-> k - 1]
<1>1. QueueOK /\ MainChannel \in Channels
  BY Numbers DEF TInv
<1>2. \A k \in Nat : k \in Nulls' <=> k # 0 /\ k + 1 \in Nulls
  <2> SUFFICES ASSUME NEW k \in Nat PROVE k \in Nulls' <=> k # 0 /\ k + 1 \in Nulls
    OBVIOUS
  <2>1. k \in Nulls' <=> At(MainChannel, k, NULL)'
    BY NullsAtPrimed
  <2>2. k + 1 \in Nulls <=> At(MainChannel, k + 1, NULL)
    BY <1>1, NullsAt
  <2>3. NULL' = NULL
    BY DEF NULL
  <2> QED BY <1>1, <2>1, <2>2, <2>3, AtAfterReceive
<1>3. 1 \in Nulls <=> Head(queue[MainChannel]) = NULL
  <2>1. At(MainChannel, 1, NULL) <=> Head(queue[MainChannel]) = NULL
    BY <1>1, ReceiveFacts DEF At
  <2> QED BY <1>1, <2>1, NullsAt
<1>4. Nulls \subseteq Nat \ {0} /\ Nulls' \subseteq Nat \ {0}
  BY Numbers DEF Nulls
<1>5. f \in Bijection(S, Nulls')
  <2>1. \A k \in S : k - 1 \in Nulls'
    BY <1>2, <1>4
  <2>2. f \in [S -> Nulls']
    BY <2>1
  <2>3. \A k, l \in S : f[k] = f[l] => k = l
    BY <1>4
  <2>4. \A k \in Nulls' : \E l \in S : f[l] = k
    <3> SUFFICES ASSUME NEW k \in Nulls' PROVE k + 1 \in S /\ f[k + 1] = k
      OBVIOUS
    <3>1. k + 1 \in S
      BY <1>2, <1>4
    <3> QED BY <1>4, <3>1
  <2> HIDE DEF f, S
  <2> QED BY <2>2, <2>3, <2>4 DEF Bijection, Injection, Surjection, IsInjective
<1>6. IsFiniteSet(S) /\ Cardinality(S) = IF 1 \in Nulls THEN Cardinality(Nulls) - 1 ELSE Cardinality(Nulls)
  BY Finite, FS_RemoveElement
<1>7. Cardinality(Nulls') = Cardinality(S)
  BY <1>5, <1>6, FS_Bijection DEF ExistsBijection
<1> QED BY <1>3, <1>6, <1>7

(* NULLs stay where they are when a message is sent.                       *)
LEMMA NullsKept ==
  ASSUME TInv, QueueOK',
         \A k \in Nat : At(MainChannel, k, NULL)' <=> At(MainChannel, k, NULL)
  PROVE  Nulls' = Nulls
<1>1. Nulls \subseteq Nat /\ Nulls' \subseteq Nat
  BY Numbers DEF Nulls
<1>2. ASSUME NEW k \in Nat
      PROVE  k \in Nulls' <=> k \in Nulls
  <2>1. k \in Nulls' <=> At(MainChannel, k, NULL)'
    BY NullsAtPrimed
  <2>2. k \in Nulls <=> At(MainChannel, k, NULL)
    BY NullsAt DEF TInv
  <2> QED BY <2>1, <2>2
<1> QED BY <1>1, <1>2

(* What is left when all messages are back: nothing but NULLs.             *)
LEMMA OnlyNulls ==
  TInv /\ OnceInv /\ msg_check = Message =>
    /\ \A w \in Worker : held[w] = NULL
    /\ \A c \in Channels : (\A k \in Nat : ~At(c, k, NULL)) => Len(queue[c]) = 0
<1> SUFFICES ASSUME TInv, OnceInv, msg_check = Message
             PROVE  /\ \A w \in Worker : held[w] = NULL
                    /\ \A c \in Channels : (\A k \in Nat : ~At(c, k, NULL)) => Len(queue[c]) = 0
  OBVIOUS
<1>1. ASSUME NEW w \in Worker PROVE held[w] = NULL
  <2>1. held[w] \in Message \cup {NULL}
    BY DEF TInv, WorkersOK
  <2> QED BY <2>1 DEF OnceInv, NotTwice
<1>2. ASSUME NEW c \in Channels, \A k \in Nat : ~At(c, k, NULL) PROVE Len(queue[c]) = 0
  <2>1. queue[c] \in Seq(Message \cup {NULL}) /\ Len(queue[c]) \in Nat
    BY LenProperties DEF TInv, QueueOK
  <2> SUFFICES ASSUME Len(queue[c]) # 0 PROVE FALSE
    OBVIOUS
  <2>2. 1 \in 1 .. Len(queue[c]) /\ queue[c][1] \in Message \cup {NULL}
    BY <2>1, ElementOfSeq
  <2>3. queue[c][1] \in Message
    BY <1>2, <2>2 DEF At
  <2> DEFINE m == queue[c][1]
  <2>4. At(c, 1, m) /\ m \in msg_check /\ m \in Message
    BY <2>2, <2>3 DEF At
  <2> HIDE DEF m, At
  <2> QED BY <2>4 DEF OnceInv, NotTwice
<1> QED BY <1>1, <1>2

(* A step that leaves the NULLs, the start flags and the loop alone.       *)
LEMMA CountKept ==
  ASSUME CountInv, Nulls' = Nulls, start' = start, StartsSent' = StartsSent
  PROVE  CountInv'
BY DEF CountInv, Started

(* A worker takes its start message, a message to pass on, or NULL.        *)
LEMMA WorkerPhase ==
  ASSUME TInv, TInv', OnceInv, PhaseInv, NEW w \in Worker, worker_thread(w)
  PROVE  PhaseInv'
<1>1. /\ w \in Channels /\ MainChannel \in Channels /\ MainChannel \notin Worker /\ w # MainChannel
      /\ \A v \in Worker : v \in Channels
      /\ QueueOK /\ QueueOK' /\ start \in [Worker -> BOOLEAN] /\ NULL \notin Message
  BY Numbers DEF TInv, WorkersOK
<1>2. UNCHANGED mainVars /\ Late' = Late /\ StartsSent' = StartsSent
  BY DEF worker_thread, ReceiveStart, ReceiveMine, LoadDone, PassOn, mainVars, Late, StartsSent
<1>3. start' = start \/ start' = [start EXCEPT ![w] = FALSE]
  BY DEF worker_thread, ReceiveStart, ReceiveMine, LoadDone, PassOn, Keep
<1>4. CheckInv'
  <2>1. Started = Worker => Started' = Worker
    BY <1>1, <1>3 DEF Started
  <2> QED BY <1>2, <2>1 DEF PhaseInv, CheckInv, mainVars
<1>5. CASE ReceiveStart(w)
  <2>1. Receive(MainChannel) /\ start[w]
    BY <1>5 DEF ReceiveStart
  <2>2. Cardinality(Nulls') =
          IF Head(queue[MainChannel]) = NULL THEN Cardinality(Nulls) - 1 ELSE Cardinality(Nulls)
    BY <1>1, <2>1, NullsMovedUp
  <2>3. Cardinality(Started') =
          IF Head(queue[MainChannel]) = NULL THEN Cardinality(Started) + 1 ELSE Cardinality(Started)
    <3>1. CASE Head(queue[MainChannel]) = NULL
      <4>1. start' = [start EXCEPT ![w] = FALSE]
        BY <1>5, <3>1 DEF ReceiveStart
      <4>2. Started' = Started \cup {w} /\ w \notin Started
        BY <1>1, <2>1, <4>1 DEF Started
      <4> QED BY <3>1, <4>2, Finite, FS_AddElement
    <3>2. CASE Head(queue[MainChannel]) # NULL
      BY <1>5, <3>2 DEF ReceiveStart, Keep, Started
    <3> QED BY <3>1, <3>2
  <2>4. CountInv'
    BY <1>2, <2>2, <2>3, Finite DEF PhaseInv, CountInv
  <2>5. \A v \in Worker : queue'[v] = queue[v]
    BY <1>1, <2>1, ReceiveFacts
  <2>6. StopInv'
    BY <1>2, <2>5 DEF PhaseInv, StopInv, At, NULL, Worker, mainVars
  <2> QED BY <1>4, <2>4, <2>6 DEF PhaseInv
<1>6. CASE ReceiveMine(w)
  <2>1. Receive(w) /\ start' = start
    BY <1>6 DEF ReceiveMine, Keep
  <2>2. \A c \in Channels, k \in Nat :
          At(c, k, NULL)' <=> \/ c # w /\ At(c, k, NULL)
                              \/ c = w /\ k # 0 /\ At(w, k + 1, NULL)
    BY <1>1, <2>1, AtAfterReceive DEF NULL
  <2>3. \A v \in Worker : Len(queue[v]) <= 1 => Len(queue'[v]) <= 1
    BY <1>1, <2>1, ReceiveFacts
  <2>4. CountInv'
    BY <1>1, <1>2, <2>1, <2>2, NullsKept, CountKept DEF PhaseInv
  <2>5. StopInv'
    <3> HIDE DEF At
    <3>1. \A v \in Worker : (\A k \in Nat : ~At(v, k, NULL)) => \A k \in Nat : ~At(v, k, NULL)'
      BY <1>1, <2>2
    <3> QED BY <1>2, <2>3, <3>1 DEF PhaseInv, StopInv, mainVars, Worker
  <2> QED BY <1>4, <2>4, <2>5 DEF PhaseInv
<1>7. CASE LoadDone(w)
  <2>1. UNCHANGED <<queue, start>>
    BY <1>7 DEF LoadDone
  <2>2. Nulls' = Nulls
    BY <2>1 DEF Nulls, At, NULL, MainChannel
  <2> QED BY <1>2, <1>4, <2>1, <2>2, CountKept DEF PhaseInv, StopInv, At, NULL, Worker, mainVars
<1>8. CASE PassOn(w)
  <2>1. PICK c \in {MainChannel, next_index(w)} : Send(c, held[w])
    BY <1>8 DEF PassOn
  <2>2. c \in Channels /\ held[w] \in Message
    BY <1>8, <2>1, Numbers DEF TInv, WorkersOK, PassOn
  <2>3. \A x \in Channels, k \in Nat : At(x, k, NULL)' <=> At(x, k, NULL)
    BY <1>1, <2>1, <2>2, AtAfterSend DEF NULL
  <2>4. ~Late
    BY <1>1, <2>2, OnlyNulls DEF PhaseInv, CheckInv
  <2>5. CountInv'
    BY <1>1, <1>2, <1>8, <2>3, NullsKept, CountKept DEF PhaseInv, PassOn
  <2>6. StopInv'
    <3> HIDE DEF At
    <3> QED BY <1>1, <1>2, <2>3, <2>4 DEF PhaseInv, StopInv, Worker
  <2> QED BY <1>4, <2>5, <2>6 DEF PhaseInv
<1> QED BY <1>5, <1>6, <1>7, <1>8 DEF worker_thread

(* A step of the main thread that touches no channel.                      *)
LEMMA QuietPhase ==
  ASSUME PhaseInv, UNCHANGED <<queue, start, msg_check>>, StartsSent' = StartsSent,
         CheckInv',
         Late' = Late,
         (main = "stop" /\ main' = "stop") => i' = i,
         (main # "stop" /\ Late) => main' # "stop"
  PROVE  PhaseInv'
<1>1. Nulls' = Nulls
  BY DEF Nulls, At, NULL, MainChannel
<1>2. CountInv'
  BY <1>1, CountKept DEF PhaseInv
<1>3. StopInv'
  BY DEF PhaseInv, StopInv, At, NULL, Worker, Late
<1> QED BY <1>2, <1>3 DEF PhaseInv

(* The messages go in before the test starts.                              *)
LEMMA InsertMessagePhase ==
  ASSUME TInv, TInv', PhaseInv, InsertMessage
  PROVE  PhaseInv'
<1>1. /\ main = "insert" /\ main' \in {"insert", "start"} /\ (main' = "start" => i' = 1)
      /\ UNCHANGED <<start, msg_check>> /\ Send(MainChannel, i)
      /\ QueueOK /\ QueueOK' /\ i \in Message /\ MainChannel \in Channels
      /\ NULL \notin Message /\ \A w \in Worker : w \in Channels
  BY Numbers DEF TInv, LoopOK, InsertMessage, Iterate, Message, workerVars
<1>2. \A x \in Channels, k \in Nat : At(x, k, NULL)' <=> At(x, k, NULL)
  BY <1>1, AtAfterSend DEF NULL
<1>3. StartsSent' = StartsSent
  BY <1>1 DEF StartsSent
<1>4. CountInv'
  BY <1>1, <1>2, <1>3, NullsKept, CountKept DEF PhaseInv
<1>5. CheckInv'
  BY <1>1 DEF PhaseInv, CheckInv, Late
<1>6. StopInv'
  <2> HIDE DEF At
  <2> QED BY <1>1, <1>2 DEF PhaseInv, StopInv, Late, Worker
<1> QED BY <1>4, <1>5, <1>6 DEF PhaseInv

(* One more start message.                                                 *)
LEMMA SendStartPhase ==
  ASSUME TInv, TInv', PhaseInv, SendStart
  PROVE  PhaseInv'
<1> DEFINE n == Len(queue[MainChannel])
<1>1. /\ main = "start" /\ main' \in {"start", "sleep"}
      /\ UNCHANGED <<start, msg_check>> /\ Send(MainChannel, NULL)
      /\ QueueOK /\ QueueOK' /\ MainChannel \in Channels
      /\ \A w \in Worker : w \in Channels /\ w # MainChannel
  BY Numbers DEF TInv, SendStart, Iterate, workerVars
<1>2. n + 1 \in Nat /\ \A x \in Channels, k \in Nat :
        At(x, k, NULL)' <=> At(x, k, NULL) \/ (x = MainChannel /\ k = n + 1)
  BY <1>1, AtAfterSend DEF NULL
<1>3. n + 1 \notin Nulls
  <2>1. n \in Nat
    BY <1>1, LenProperties DEF QueueOK
  <2> QED BY <2>1 DEF Nulls, At
<1>4. Nulls' = Nulls \cup {n + 1}
  <2>1. Nulls \subseteq Nat /\ Nulls' \subseteq Nat
    BY Numbers DEF Nulls
  <2> HIDE DEF n, At
  <2>2. \A k \in Nat : k \in Nulls' <=> k \in Nulls \/ k = n + 1
    BY <1>1, <1>2, NullsAt, NullsAtPrimed
  <2> QED BY <1>2, <2>1, <2>2
<1>5. Cardinality(Nulls') = Cardinality(Nulls) + 1
  BY <1>3, <1>4, Finite, FS_AddElement
<1>6. StartsSent' = StartsSent + 1
  <2>1. \/ main' = "start" /\ i' = i + 1
        \/ main' = "sleep" /\ i = num_channel
    BY <1>1, IterateFacts, Numbers DEF SendStart, TInv, LoopOK
  <2>2. i \in Nat /\ num_channel \in Nat
    BY Numbers DEF TInv, LoopOK
  <2> QED BY <1>1, <2>1, <2>2 DEF StartsSent
<1>7. CountInv'
  BY <1>1, <1>5, <1>6, Finite DEF PhaseInv, CountInv, Started
<1>8. CheckInv'
  BY <1>1 DEF PhaseInv, CheckInv, Late
<1>9. StopInv'
  <2> HIDE DEF At
  <2> QED BY <1>1, <1>2 DEF PhaseInv, StopInv, Late, Worker
<1> QED BY <1>7, <1>8, <1>9 DEF PhaseInv

(* When the main thread wakes up, every worker has left the start period.  *)
LEMMA StopTestPhase ==
  ASSUME SleepLongEnough, TInv, PhaseInv, StopTest
  PROVE  PhaseInv'
<1>1. /\ main = "sleep" /\ main' = "pull" /\ i' = 1 /\ UNCHANGED <<queue, start, msg_check>>
      /\ \A w \in Worker : ~start[w]
  BY DEF StopTest, TInv, LoopOK, Iterate, workerVars
<1>2. Cardinality(msg_check') = 0 /\ Started' = Worker
  BY <1>1, FS_EmptySet DEF PhaseInv, CheckInv, Started, Worker
<1>3. CheckInv'
  BY <1>1, <1>2 DEF CheckInv, Late
<1> QED BY <1>1, <1>3, QuietPhase DEF Late, StartsSent

(* No NULL is left for the main thread to receive.  The last message makes *)
(* the count complete, and leaves the channels empty.                      *)
LEMMA PullMessagePhase ==
  ASSUME TInv, TInv', OnceInv, OnceInv', PhaseInv, PullMessage
  PROVE  PhaseInv'
<1> DEFINE d == Head(queue[MainChannel])
<1>1. /\ main = "pull" /\ Receive(MainChannel) /\ UNCHANGED start
      /\ QueueOK /\ QueueOK' /\ LoopOK /\ MainChannel \in Channels
      /\ \A w \in Worker : w \in Channels /\ w # MainChannel
      /\ msg_check \subseteq Message /\ msg_check' \subseteq Message
  BY Numbers DEF TInv, PullMessage, workerVars
<1>2. Cardinality(Nulls) = 0
  BY <1>1, Finite, Numbers DEF PhaseInv, CountInv, CheckInv, StartsSent
<1>3. d # NULL /\ Cardinality(Nulls') = 0
  <2>1. (/\ IsFiniteSet(Nulls) /\ Cardinality(Nulls) \in Nat
         /\ IsFiniteSet(Started) /\ Cardinality(Started) \in Nat
         /\ IsFiniteSet(Worker) /\ Cardinality(Worker) = num_channel
         /\ IsFiniteSet(Message) /\ Cardinality(Message) = num_msgs)'
    BY Finite, PTL
  <2> QED BY <1>1, <1>2, <2>1, NullsMovedUp
<1>4. d \in Message /\ d \notin msg_check
  <2>1. d \in Message
    BY <1>1, <1>3, ReceiveFacts
  <2>2. PICK m \in Message : m = d
    BY <2>1
  <2> QED BY <1>1, <2>1, <2>2, OnceTaken
<1>5. Iterate("pull", num_msgs, "stop") /\ msg_check' = msg_check \cup {d}
  BY <1>4 DEF PullMessage
<1>6. IsFiniteSet(msg_check) /\ IsFiniteSet(msg_check') /\ Cardinality(msg_check') = i
  <2>1. IsFiniteSet(msg_check) /\ IsFiniteSet(msg_check')
    BY <1>1, Finite, FS_Subset
  <2>2. Cardinality(msg_check') = Cardinality(msg_check) + 1
    BY <1>4, <1>5, <2>1, FS_AddElement
  <2> QED BY <1>1, <2>1, <2>2 DEF PhaseInv, CheckInv, LoopOK
<1>7. \/ main' = "pull" /\ i' = i + 1
      \/ main' = "stop" /\ i' = 1 /\ i = num_msgs
  BY <1>1, <1>5, IterateFacts, Numbers DEF LoopOK
<1>8. main' = "stop" => msg_check' = Message
  BY <1>1, <1>6, <1>7, Finite, FS_Subset
<1>9. CountInv'
  BY <1>1, <1>2, <1>3, <1>7 DEF PhaseInv, CountInv, Started, StartsSent
<1>10. CheckInv'
  BY <1>1, <1>6, <1>7, <1>8 DEF PhaseInv, CheckInv, Late, Started, LoopOK, Worker
<1>11. StopInv'
  <2>1. \A w \in Worker, k \in Nat : ~At(w, k, NULL)'
    <3>1. \A w \in Worker, k \in Nat : ~At(w, k, NULL)
      BY <1>1 DEF PhaseInv, StopInv, Late
    <3>2. \A w \in Worker : queue'[w] = queue[w]
      BY <1>1, ReceiveFacts
    <3> QED BY <3>1, <3>2 DEF At, NULL
  <2>2. main' = "stop" => \A w \in Worker : Len(queue'[w]) = 0
    <3>1. (TInv /\ OnceInv /\ msg_check = Message =>
            /\ \A w \in Worker : held[w] = NULL
            /\ \A c \in Channels : (\A k \in Nat : ~At(c, k, NULL)) => Len(queue[c]) = 0)'
      BY OnlyNulls, PTL
    <3> HIDE DEF At
    <3>2. Message' = Message /\ Channels' = Channels /\ NULL' = NULL
      BY DEF Message, Channels, NULL, Worker, MainChannel
    <3> QED BY <1>1, <1>8, <2>1, <3>1, <3>2
  <2> HIDE DEF At
  <2> QED BY <1>7, <2>1, <2>2 DEF StopInv, Late, Worker
<1> QED BY <1>9, <1>10, <1>11 DEF PhaseInv

(* A NULL for a worker whose channel is empty.                             *)
LEMMA SendStopPhase ==
  ASSUME TInv, TInv', OnceInv, PhaseInv, SendStop
  PROVE  PhaseInv'
<1>1. /\ main = "stop" /\ main' \in {"stop", "join"} /\ (main' = "stop" => i' = i + 1)
      /\ i \in Nat \ {0} /\ i - 1 \in Worker /\ i - 1 \in Channels /\ i - 1 # MainChannel
      /\ Send(i - 1, NULL) /\ UNCHANGED <<start, msg_check>>
      /\ QueueOK /\ QueueOK' /\ MainChannel \in Channels
      /\ \A w \in Worker : w \in Channels /\ w \in Nat
  BY Numbers DEF TInv, LoopOK, SendStop, Iterate, workerVars, Worker
<1>2. \A x \in Channels, k \in Nat : x # i - 1 => (At(x, k, NULL)' <=> At(x, k, NULL))
  BY <1>1, AtAfterSend DEF NULL
<1>3. CountInv'
  <2>1. StartsSent' = StartsSent
    BY <1>1 DEF StartsSent
  <2> HIDE DEF At
  <2> QED BY <1>1, <1>2, <2>1, NullsKept, CountKept DEF PhaseInv
<1>4. CheckInv'
  BY <1>1 DEF PhaseInv, CheckInv, Late, Started, Worker
<1>5. Len(queue[i - 1]) = 0
  <2>1. \A k \in Nat : ~At(i - 1, k, NULL)
    <3> HIDE DEF At
    <3> QED BY <1>1 DEF PhaseInv, StopInv
  <2> HIDE DEF At
  <2> QED BY <1>1, <2>1, OnlyNulls DEF PhaseInv, CheckInv, Late
<1>6. \A w \in Worker : Len(queue'[w]) <= 1
  <2> SUFFICES ASSUME NEW w \in Worker PROVE Len(queue'[w]) <= 1
    OBVIOUS
  <2>1. CASE w = i - 1
    BY <1>1, <1>5, <2>1, SendFacts
  <2>2. CASE w # i - 1
    BY <1>1, <2>2, SendFacts DEF PhaseInv, StopInv, Late
  <2> QED BY <2>1, <2>2
<1>7. ASSUME NEW w \in Worker, main' = "stop", w >= i' - 1, NEW k \in Nat
      PROVE  ~At(w, k, NULL)'
  <2>1. w # i - 1 /\ w >= i - 1
    BY <1>1, <1>7
  <2>2. ~At(w, k, NULL)
    <3> HIDE DEF At
    <3> QED BY <1>1, <2>1 DEF PhaseInv, StopInv
  <2> HIDE DEF At
  <2> QED BY <1>1, <1>2, <2>1, <2>2
<1>8. StopInv'
  <2>1. Late' /\ Worker' = Worker
    BY <1>1 DEF Late, Worker
  <2> HIDE DEF At
  <2> QED BY <1>6, <1>7, <2>1 DEF StopInv
<1> QED BY <1>3, <1>4, <1>8 DEF PhaseInv

(* Every step keeps the phases.                                            *)
LEMMA StepPhase ==
  SleepLongEnough => (TInv /\ TInv' /\ OnceInv /\ OnceInv' /\ PhaseInv /\ [Next]_vars => PhaseInv')
<1> SUFFICES ASSUME SleepLongEnough, TInv, TInv', OnceInv, OnceInv', PhaseInv, [Next]_vars
             PROVE  PhaseInv'
  OBVIOUS
<1>1. CASE UNCHANGED vars
  <2>1. CheckInv' /\ StartsSent' = StartsSent /\ Late' = Late
    BY <1>1 DEF PhaseInv, CheckInv, vars, Late, Started, Worker, StartsSent
  <2> QED BY <1>1, <2>1, QuietPhase DEF vars
<1>2. CASE Join \/ Cleanup
  <2>1. /\ UNCHANGED <<queue, start, msg_check>> /\ Late /\ Late' /\ main # "stop"
        /\ main' \in {"join", "cleanup", "end"} /\ StartsSent' = StartsSent
    BY <1>2 DEF Join, Cleanup, Iterate, Late, workerVars, StartsSent
  <2>2. CheckInv'
    BY <2>1 DEF PhaseInv, CheckInv, Late, Started, Worker
  <2> QED BY <2>1, <2>2, QuietPhase
<1> QED BY <1>1, <1>2, WorkerPhase, InsertMessagePhase, SendStartPhase, StopTestPhase,
        PullMessagePhase, SendStopPhase
        DEF Next, Terminated, run_stress_send_recv

(* Nothing has been sent in the beginning.                                 *)
LEMMA InitPhase == Init => PhaseInv
<1> SUFFICES ASSUME Init PROVE PhaseInv
  OBVIOUS
<1>1. \A c \in Channels, k \in Nat : ~At(c, k, NULL)
  BY EmptySeq DEF Init, At
<1>2. Nulls = {} /\ Started = {}
  BY <1>1, Numbers DEF Nulls, Started, Init
<1>3. CountInv
  BY <1>2, FS_EmptySet DEF CountInv, StartsSent, Init
<1>4. CheckInv /\ StopInv
  <2> HIDE DEF At
  <2> QED BY <1>1, Numbers DEF CheckInv, StopInv, Late, Init
<1> QED BY <1>3, <1>4 DEF PhaseInv

(* The lengths up to one.                                                  *)
LEMMA NatUpToOne ==
  ASSUME NEW n \in Nat, n <= 1
  PROVE  n = 0 \/ n = 1
OBVIOUS

(* If the usleep outlasts the start period, no assert on the data that the *)
(* main thread receives fails: it receives no start message of its own and *)
(* no message twice.                                                       *)
THEOREM AssertsPass == SleepLongEnough => (Spec => []AssertsHold)
<1> SUFFICES ASSUME SleepLongEnough PROVE Spec => []AssertsHold
  OBVIOUS
<1>1. PhaseInv => AssertsHold
  BY DEF PhaseInv, CheckInv, AssertsHold
<1>2. TInv /\ TInv' /\ OnceInv /\ OnceInv' /\ PhaseInv /\ [Next]_vars => PhaseInv'
  BY StepPhase
<1> QED BY <1>1, <1>2, InitT, StepT, InitOnce, StepOnce, InitPhase, PTL DEF Spec

(* ... and the stop messages find the ring drained, so that every worker   *)
(* leaves its loop with nothing behind it.                                 *)
THEOREM StopsLast == SleepLongEnough => (Spec => []DrainedBeforeStop)
<1> SUFFICES ASSUME SleepLongEnough PROVE Spec => []DrainedBeforeStop
  OBVIOUS
<1>1. TInv /\ OnceInv /\ PhaseInv => DrainedBeforeStop
  <2> SUFFICES ASSUME TInv, OnceInv, PhaseInv, Late
               PROVE  /\ \A w \in Worker : held[w] = NULL /\ queue[w] \in {<<>>, <<NULL>>}
                      /\ queue[MainChannel] = <<>>
    BY DEF DrainedBeforeStop, Late
  <2>1. msg_check = Message /\ Started = Worker
    BY DEF PhaseInv, CheckInv
  <2>2. ASSUME NEW w \in Worker PROVE queue[w] \in {<<>>, <<NULL>>}
    <3>1. /\ queue[w] \in Seq(Message \cup {NULL}) /\ Len(queue[w]) \in Nat
          /\ Len(queue[w]) <= 1 /\ w \in Channels
      BY Numbers, LenProperties DEF TInv, QueueOK, PhaseInv, StopInv
    <3>2. CASE Len(queue[w]) = 0
      BY <3>1, <3>2, EmptySeq
    <3>3. CASE Len(queue[w]) = 1
      <4>1. queue[w][1] \in Message \cup {NULL}
        BY <3>1, <3>3, ElementOfSeq
      <4>2. queue[w][1] \notin Message
        <5> DEFINE m == queue[w][1]
        <5> SUFFICES ASSUME m \in Message PROVE FALSE
          OBVIOUS
        <5>1. At(w, 1, m) /\ m \in msg_check
          BY <2>1, <3>3 DEF At
        <5> HIDE DEF m, At
        <5> QED BY <3>1, <5>1 DEF OnceInv, NotTwice
      <4>3. queue[w] = <<NULL>>
        BY <3>1, <3>3, <4>1, <4>2
      <4> QED BY <4>3
    <3>4. Len(queue[w]) = 0 \/ Len(queue[w]) = 1
      BY <3>1, NatUpToOne
    <3> QED BY <3>2, <3>3, <3>4
  <2>3. queue[MainChannel] = <<>>
    <3>1. Cardinality(Nulls) = 0
      BY <2>1, Finite, Numbers DEF PhaseInv, CountInv, StartsSent, Late
    <3>2. \A k \in Nat : ~At(MainChannel, k, NULL)
      <4>1. Nulls = {}
        BY <3>1, Finite, FS_EmptySet
      <4> QED BY <4>1, NullsAt DEF TInv
    <3>3. Len(queue[MainChannel]) = 0
      <4> HIDE DEF At
      <4> QED BY <2>1, <3>2, OnlyNulls, Numbers
    <3> QED BY <3>3, Numbers, EmptySeq DEF TInv, QueueOK
  <2> QED BY <2>1, <2>2, <2>3, OnlyNulls
<1>2. TInv /\ TInv' /\ OnceInv /\ OnceInv' /\ PhaseInv /\ [Next]_vars => PhaseInv'
  BY StepPhase
<1> QED BY <1>1, <1>2, InitT, StepT, InitOnce, StepOnce, InitPhase, PTL DEF Spec

=============================================================================
