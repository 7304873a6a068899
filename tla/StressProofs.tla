---------------------------- MODULE StressProofs ----------------------------
(***************************************************************************)
(* Proofs about the routers of stress.c for any number of routers, any     *)
(* network and any width of distance_t: type correctness, that a router    *)
(* only writes to states nobody else reads, and that no vector promises    *)
(* too much.                                                               *)
(***************************************************************************)
EXTENDS Stress, SequenceTheorems, FiniteSetTheorems, TLAPS

Every == Router \cup {Completed}

QueueOK ==
  /\ queue \in [Every -> Seq(Message)]
  /\ \A c \in Every : Len(queue[c]) <= 1

LinksOK ==
  /\ topology \in Matrix /\ solution \in Matrix
  /\ Below(solution, topology) /\ NoShortcut(solution)

MainOK ==
  /\ closed \in BOOLEAN
  /\ main \in {"flush", "collect", "usleep", "verify", "close", "join", "end", "abort"}
  /\ round \in 1 .. 2 /\ i \in Router /\ valid \in BOOLEAN
  /\ completed \in [Router -> Message]

(* What a router holds in hand: it merges only vectors, and only sends to  *)
(* its neighbours.                                                         *)
FrameOK ==
  /\ rpc \in [Router -> {"select", "merge", "reply", "cycle", "exited", "overrun"}]
  /\ selected_index \in [Router -> Nat]
  /\ data \in [Router -> Message]
  /\ to_send \in [Router -> SUBSET Router]
  /\ changed \in [Router -> BOOLEAN]
  /\ \A r \in Router : rpc[r] = "merge" => data[r] \in Pointer
  /\ \A r \in Router : to_send[r] \subseteq Neighbours(r)

StatesOK ==
  /\ curr \in [Router -> Slot]
  /\ epoch \in [Router -> [Slot -> Nat]]
  /\ dist \in [Router -> [Slot -> [Router -> Distances]]]
  /\ DistancesSound

(* With the stub of channel_select no router ever sends a state.           *)
StubSilent ==
  ~SelectWorks => \A n \in Router : 
    rpc[n] \notin {"merge", "cycle"} /\ (Len(queue[n]) = 1 => queue[n][1] = NULL)

TInv == LinksOK /\ QueueOK /\ MainOK /\ FrameOK /\ StatesOK /\ StubSilent

-----------------------------------------------------------------------------
(* The numbers of the routers.                                             *)
LEMMA RouterFacts ==
  /\ 0 \in Router /\ Completed \notin Router
  /\ \A x \in Router : x < num_channel - 1 => x + 1 \in Router
  /\ \A x \in Router : x + 1 # 0
BY DistanceAssumption DEF Router, Completed

(* Lengths and positions in a channel of at most one message.              *)
LEMMA AtMostOne ==
  ASSUME NEW n \in Nat, n <= 1
  PROVE  /\ n # 0 => n = 1
         /\ \A k \in 1 .. n : k = 1 /\ n = 1
OBVIOUS

(* Distances are numbers, and adding two of them is exact.                 *)
LEMMA PlusExact ==
  ASSUME NEW a \in Distances, NEW b \in Distances
  PROVE  Plus(a, b) = a + b /\ a + b \in Nat
BY DistanceAssumption DEF Plus, Modulus, Distances

(* The four states of a router follow each other in a circle.              *)
LEMMA Circle ==
  ASSUME NEW s \in Slot
  PROVE  /\ After(s) \in Slot /\ After(s) # s
         /\ After(After(s)) \in Slot /\ After(After(s)) \notin {s, After(s)}
         /\ After(After(After(s))) \in Slot
         /\ After(After(After(s))) \notin {s, After(s), After(After(s))}
         /\ After(After(After(After(s)))) = s
BY DEF Slot, After

(* A send to a channel with room: channels hold at most one message.       *)
LEMMA SendFacts ==
  ASSUME QueueOK, NEW c \in Every, NEW m \in Message, Send(c, m)
  PROVE  /\ QueueOK'
         /\ Len(queue[c]) = 0
         /\ Len(queue'[c]) = 1 /\ queue'[c][1] = m
         /\ \A x \in Every : x # c => queue'[x] = queue[x]
<1>1. Len(queue[c]) < 1
  BY StressAssumption DEF Send, HasRoom, QueueOK
<1>2. queue[c] \in Seq(Message) /\ Len(queue[c]) = 0
  BY <1>1 DEF QueueOK
<1>3. /\ Append(queue[c], m) \in Seq(Message)
      /\ Len(Append(queue[c], m)) = 1 /\ Append(queue[c], m)[1] = m
  BY <1>2, AppendProperties
<1>4. queue' = [queue EXCEPT ![c] = Append(queue[c], m)]
  BY DEF Send
<1> QED BY <1>2, <1>3, <1>4 DEF QueueOK

(* A receive from a channel with a message.                                *)
LEMMA ReceiveFacts ==
  ASSUME QueueOK, NEW c \in Every, Receive(c)
  PROVE  /\ QueueOK'
         /\ Len(queue[c]) = 1 /\ Head(queue[c]) = queue[c][1]
         /\ Head(queue[c]) \in Message
         /\ Len(queue'[c]) = 0
         /\ \A x \in Every : x # c => queue'[x] = queue[x]
<1>1. queue[c] \in Seq(Message) /\ queue[c] # <<>> /\ Len(queue[c]) <= 1
  BY DEF Receive, QueueOK
<1>2. Len(queue[c]) = 1
  <2>1. Len(queue[c]) \in Nat \ {0}
    BY <1>1, EmptySeq
  <2> QED BY <1>1, <2>1, AtMostOne
<1>3. /\ Head(queue[c]) \in Message
      /\ Tail(queue[c]) \in Seq(Message) /\ Len(Tail(queue[c])) = Len(queue[c]) - 1
  BY <1>1, HeadTailProperties
<1>4. Head(queue[c]) = queue[c][1]
  BY <1>1
<1>5. queue' = [queue EXCEPT ![c] = Tail(queue[c])]
  BY DEF Receive
<1> QED BY <1>2, <1>3, <1>4, <1>5 DEF QueueOK

(* Writing v to one or two of the states of router r.                      *)
LEMMA StatesUpdate ==
  ASSUME NEW V, NEW f \in [Router -> [Slot -> V]], NEW r \in Router,
         NEW s \in Slot, NEW t \in Slot, NEW v \in V, NEW g,
         \/ g = [f EXCEPT ![r] = [@ EXCEPT ![s] = v, ![t] = v]]
         \/ s = t /\ g = [f EXCEPT ![r][s] = v]
  PROVE  /\ g \in [Router -> [Slot -> V]]
         /\ \A a \in Router, x \in Slot :
              g[a][x] = IF a = r /\ x \in {s, t} THEN v ELSE f[a][x]
OBVIOUS

(* Whatever an iteration of a router ends with, its states stay sound.     *)
LEMMA EndIterationFacts ==
  ASSUME TInv, UNCHANGED <<topology, solution>>,
         NEW r \in Router, NEW left, left \subseteq Neighbours(r),
         NEW vector \in [Router -> Distances], NEW better \in BOOLEAN,
         \A d \in Router : solution[r][d] <= vector[d],
         EndIteration(r, left, vector, better)
  PROVE  /\ StatesOK'
         /\ rpc' = [rpc EXCEPT ![r] = "select"]
         /\ changed' \in [Router -> BOOLEAN]
         /\ to_send' \in [Router -> SUBSET Router]
         /\ \A x \in Router : to_send'[x] \subseteq Neighbours(x)'
<1> DEFINE recycled == After(next(r))
           cycle == left = {} /\ better
<1>1. /\ curr \in [Router -> Slot] /\ epoch \in [Router -> [Slot -> Nat]]
      /\ dist \in [Router -> [Slot -> [Router -> Distances]]]
      /\ \A a, d \in Router, s \in Slot : solution[a][d] <= dist[a][s][d]
  BY DEF TInv, StatesOK, DistancesSound
<1>2. next(r) \in Slot /\ recycled \in Slot
  BY <1>1, Circle DEF next
<1>3. ASSUME NEW t \in Slot, dist' \in [Router -> [Slot -> [Router -> Distances]]],
             \A a \in Router, s \in Slot :
               dist'[a][s] = IF a = r /\ s \in {next(r), t} THEN vector ELSE dist[a][s]
      PROVE  DistancesSound'
  <2> SUFFICES ASSUME NEW a \in Router, NEW d \in Router, NEW s \in Slot
               PROVE  solution[a][d] <= dist'[a][s][d]
    BY DEF DistancesSound
  <2>1. (dist'[a][s] = vector /\ a = r) \/ dist'[a][s] = dist[a][s]
    BY <1>3
  <2> QED BY <1>1, <2>1
<1>4. StatesOK'
  <2>1. CASE cycle
    <3>1. /\ curr' = [curr EXCEPT ![r] = next(r)]
          /\ epoch' = [epoch EXCEPT ![r][recycled] = epoch[r][next(r)] + 1]
          /\ dist' = [dist EXCEPT ![r] = [@ EXCEPT ![next(r)] = vector,
                                                   ![recycled] = vector]]
      BY <2>1 DEF EndIteration
    <3>2. curr' \in [Router -> Slot] /\ epoch' \in [Router -> [Slot -> Nat]]
      BY <1>1, <1>2, <3>1
    <3>3. /\ dist' \in [Router -> [Slot -> [Router -> Distances]]]
          /\ \A a \in Router, s \in Slot :
               dist'[a][s] = IF a = r /\ s \in {next(r), recycled} THEN vector ELSE dist[a][s]
      <4> DEFINE V == [Router -> Distances]
      <4>1. vector \in V /\ dist \in [Router -> [Slot -> V]]
        BY <1>1
      <4> HIDE DEF V
      <4>2. /\ dist' \in [Router -> [Slot -> V]]
            /\ \A a \in Router, s \in Slot :
                 dist'[a][s] = IF a = r /\ s \in {next(r), recycled} THEN vector ELSE dist[a][s]
        BY <1>2, <3>1, <4>1, StatesUpdate
      <4> QED BY <4>2 DEF V
    <3>4. DistancesSound'
      BY <1>3, <1>2, <3>3
    <3> QED BY <3>2, <3>3, <3>4 DEF StatesOK
  <2>2. CASE ~cycle
    <3>1. curr' = curr /\ epoch' = epoch /\ dist' = [dist EXCEPT ![r][next(r)] = vector]
      BY <2>2 DEF EndIteration
    <3>2. /\ dist' \in [Router -> [Slot -> [Router -> Distances]]]
          /\ \A a \in Router, s \in Slot :
               dist'[a][s] = IF a = r /\ s \in {next(r), next(r)} THEN vector ELSE dist[a][s]
      <4> DEFINE V == [Router -> Distances]
      <4>1. vector \in V /\ dist \in [Router -> [Slot -> V]]
        BY <1>1
      <4> HIDE DEF V
      <4>2. /\ dist' \in [Router -> [Slot -> V]]
            /\ \A a \in Router, s \in Slot :
                 dist'[a][s] = IF a = r /\ s \in {next(r), next(r)} THEN vector ELSE dist[a][s]
        BY <1>2, <3>1, <4>1, StatesUpdate
      <4> QED BY <4>2 DEF V
    <3>3. DistancesSound'
      BY <1>3, <1>2, <3>2
    <3> QED BY <1>1, <3>1, <3>2, <3>3 DEF StatesOK
  <2> QED BY <2>1, <2>2
<1>5. \A x \in Router : Neighbours(x)' = Neighbours(x) /\ Neighbours(x) \subseteq Router
  BY DEF Neighbours
<1>6. /\ to_send \in [Router -> SUBSET Router] /\ changed \in [Router -> BOOLEAN]
      /\ \A x \in Router : to_send[x] \subseteq Neighbours(x)
  BY DEF TInv, FrameOK
<1>7. /\ rpc' = [rpc EXCEPT ![r] = "select"]
      /\ changed' = [changed EXCEPT ![r] = better /\ ~cycle]
      /\ to_send' = [to_send EXCEPT ![r] = IF cycle THEN Neighbours(r) ELSE left]
  BY DEF EndIteration
<1> HIDE DEF cycle
<1>8. changed' \in [Router -> BOOLEAN]
  <2>1. (better /\ ~cycle) \in BOOLEAN
    OBVIOUS
  <2> QED BY <1>6, <1>7, <2>1
<1>9. /\ to_send' \in [Router -> SUBSET Router]
      /\ \A x \in Router : to_send'[x] \subseteq Neighbours(x)
  <2>1. to_send'[r] \subseteq Neighbours(r)
    BY <1>6, <1>7
  <2>2. to_send' \in [Router -> SUBSET Router]
    BY <1>5, <1>6, <1>7
  <2>3. \A x \in Router : x # r => to_send'[x] = to_send[x]
    BY <1>6, <1>7
  <2> QED BY <1>6, <2>1, <2>2, <2>3
<1> QED BY <1>4, <1>5, <1>7, <1>8, <1>9

(* A step of the main thread leaves the routers alone, and vice versa.     *)
LEMMA RoutersUntouched ==
  ASSUME TInv, UNCHANGED <<given, routerVars>>
  PROVE  LinksOK' /\ FrameOK' /\ StatesOK'
<1>1. LinksOK'
  BY DEF TInv, LinksOK, given, Below, NoShortcut
<1>2. FrameOK'
  BY DEF TInv, FrameOK, given, routerVars, Neighbours
<1>3. StatesOK'
  BY DEF TInv, StatesOK, given, routerVars, DistancesSound
<1> QED BY <1>1, <1>2, <1>3

(* A router leaves the main thread alone, or stops it by a failed assert.  *)
LEMMA MainUntouched ==
  ASSUME MainOK, Abort \/ UNCHANGED mainVars
  PROVE  MainOK'
BY DEF MainOK, Abort, mainVars

(* The loops of the main thread.                                           *)
LEMMA IterateFacts ==
  ASSUME MainOK, NEW loop, NEW then, Iterate(loop, then)
  PROVE  i' \in Router /\ main' \in {loop, then}
BY RouterFacts DEF MainOK, Iterate

-----------------------------------------------------------------------------
(* The initial states.                                                     *)
LEMMA InitTInv == Init => TInv
<1> SUFFICES ASSUME Init PROVE TInv
  OBVIOUS
<1>1. LinksOK
  BY StressAssumption DEF Init, LinksOK
<1>2. QueueOK
  BY EmptySeq DEF Init, QueueOK, Every
<1>3. MainOK
  <2>1. /\ closed = FALSE /\ main = "flush" /\ round = 1 /\ i = 0 /\ valid = TRUE
        /\ completed = [r \in Router |-> NULL]
    BY DEF Init
  <2>2. NULL \in Message
    BY DEF Message
  <2>3. completed \in [Router -> Message]
    BY <2>1, <2>2
  <2>4. i \in Router /\ round \in 1 .. 2
    BY <2>1, RouterFacts
  <2> QED BY <2>1, <2>3, <2>4 DEF MainOK
<1>4. FrameOK
  <2>1. \A r \in Router : Neighbours(r) \subseteq Router
    BY DEF Neighbours
  <2>2. selected_index \in [Router -> Nat]
    BY StressAssumption DEF Init
  <2> QED BY <2>1, <2>2 DEF Init, FrameOK, Message
<1>5. StatesOK
  <2>1. DistancesSound
    BY <1>1 DEF LinksOK, Below, Init, DistancesSound
  <2>2. dist \in [Router -> [Slot -> [Router -> Distances]]]
    BY <1>1 DEF LinksOK, Matrix, Init
  <2>3. curr \in [Router -> Slot] /\ epoch \in [Router -> [Slot -> Nat]]
    BY DEF Init, Slot
  <2> QED BY <2>1, <2>2, <2>3 DEF StatesOK
<1>6. StubSilent
  BY <1>2, EmptySeq DEF Init, StubSilent, Every
<1> QED BY <1>1, <1>2, <1>3, <1>4, <1>5, <1>6 DEF TInv

(* Router r takes a message from its channel.                              *)
LEMMA SelectReceiveT ==
  ASSUME TInv, SelectWorks, NEW r \in Router, SelectReceive(r)
  PROVE  TInv'
<1>1. r \in Every /\ QueueOK /\ Receive(r)
  BY DEF Every, TInv, SelectReceive
<1>2. QueueOK' /\ Head(queue[r]) \in Message
  BY <1>1, ReceiveFacts
<1>3. LinksOK'
  BY DEF TInv, LinksOK, given, Below, NoShortcut, SelectReceive
<1>4. StatesOK'
  BY DEF TInv, StatesOK, given, DistancesSound, SelectReceive
<1>5. MainOK'
  BY MainUntouched DEF TInv, SelectReceive
<1>6. FrameOK'
  <2>1. /\ rpc' = [rpc EXCEPT ![r] = IF Head(queue[r]) = NULL THEN "reply" ELSE "merge"]
        /\ data' = [data EXCEPT ![r] = Head(queue[r])]
        /\ UNCHANGED <<topology, selected_index, to_send, changed>>
    BY DEF SelectReceive, Selected, given
  <2>2. Head(queue[r]) # NULL => Head(queue[r]) \in Pointer
    BY <1>2 DEF Message
  <2> QED BY <1>2, <2>1, <2>2 DEF TInv, FrameOK, Neighbours
<1>7. StubSilent'
  BY StressAssumption DEF StubSilent
<1> QED BY <1>2, <1>3, <1>4, <1>5, <1>6, <1>7 DEF TInv

(* Router r sends its current state to a neighbour.                        *)
LEMMA SelectSendT ==
  ASSUME TInv, SelectWorks, NEW r \in Router, SelectSend(r)
  PROVE  TInv'
<1>1. PICK n \in to_send[r] :
        /\ Send(n, <<r, curr[r]>>)
        /\ to_send' = [to_send EXCEPT ![r] = @ \ {n}]
        /\ Selected(r, IF to_send[r] = {n} /\ changed[r] THEN "cycle" ELSE "select")
  BY DEF SelectSend
<1>2. n \in Every /\ <<r, curr[r]>> \in Message /\ QueueOK
  BY DEF Every, TInv, FrameOK, StatesOK, Message, Pointer
<1>3. QueueOK'
  BY <1>1, <1>2, SendFacts
<1>4. LinksOK'
  BY DEF TInv, LinksOK, given, Below, NoShortcut, SelectSend
<1>5. StatesOK'
  BY DEF TInv, StatesOK, given, DistancesSound, SelectSend
<1>6. MainOK'
  BY MainUntouched DEF TInv, SelectSend
<1>7. FrameOK'
  <2>1. /\ rpc' = [rpc EXCEPT ![r] = IF to_send[r] = {n} /\ changed[r] THEN "cycle" ELSE "select"]
        /\ to_send' = [to_send EXCEPT ![r] = @ \ {n}]
        /\ UNCHANGED <<topology, selected_index, data, changed>>
    BY <1>1 DEF SelectSend, Selected, given
  <2> QED BY <2>1 DEF TInv, FrameOK, Neighbours
<1>8. StubSilent'
  BY StressAssumption DEF StubSilent
<1> QED BY <1>3, <1>4, <1>5, <1>6, <1>7, <1>8 DEF TInv

(* Router r leaves its loop.                                               *)
LEMMA SelectClosedT ==
  ASSUME TInv, SelectWorks, NEW r \in Router, SelectClosed(r)
  PROVE  TInv'
<1>1. LinksOK' /\ QueueOK'
  BY DEF TInv, LinksOK, QueueOK, given, Below, NoShortcut, SelectClosed
<1>2. StatesOK'
  BY DEF TInv, StatesOK, given, DistancesSound, SelectClosed
<1>3. MainOK'
  BY MainUntouched DEF TInv, SelectClosed
<1>4. FrameOK'
  <2>1. /\ rpc' = [rpc EXCEPT ![r] = "exited"]
        /\ UNCHANGED <<topology, selected_index, data, to_send, changed>>
    BY DEF SelectClosed, Selected, given
  <2> QED BY <2>1 DEF TInv, FrameOK, Neighbours
<1>5. StubSilent'
  BY StressAssumption DEF StubSilent
<1> QED BY <1>1, <1>2, <1>3, <1>4, <1>5 DEF TInv

(* Router r is fooled by the stub.                                         *)
LEMMA SelectStubT ==
  ASSUME TInv, ~SelectWorks, NEW r \in Router, SelectStub(r)
  PROVE  TInv'
<1>1. LinksOK' /\ QueueOK'
  BY DEF TInv, LinksOK, QueueOK, given, Below, NoShortcut, SelectStub
<1>2. StatesOK'
  BY DEF TInv, StatesOK, given, DistancesSound, SelectStub
<1>3. MainOK'
  BY MainUntouched DEF TInv, SelectStub
<1>4. PICK after \in {"select", "reply", "overrun"} : rpc' = [rpc EXCEPT ![r] = after]
  BY DEF SelectStub, Selected
<1>5. FrameOK'
  <2>1. UNCHANGED <<topology, selected_index, data, changed>>
    BY DEF SelectStub, given
  <2>2. \/ to_send' = to_send
        \/ \E n \in to_send[r] : to_send' = [to_send EXCEPT ![r] = @ \ {n}]
    BY DEF SelectStub
  <2> QED BY <1>4, <2>1, <2>2 DEF TInv, FrameOK, Neighbours
<1>6. StubSilent'
  BY <1>4 DEF TInv, FrameOK, StubSilent, SelectStub
<1> QED BY <1>1, <1>2, <1>3, <1>5, <1>6 DEF TInv

(* The steps that end an iteration and touch no channel.                   *)
LEMMA EndIterationT ==
  ASSUME TInv, NEW r \in Router, rpc[r] # "select", UNCHANGED given,
         NEW vector \in [Router -> Distances], NEW better \in BOOLEAN,
         \A d \in Router : solution[r][d] <= vector[d],
         EndIteration(r, to_send[r], vector, better),
         data' \in [Router -> Message], \A x \in Router : x # r => data'[x] = data[x],
         QueueOK', \A n \in Router : queue'[n] = queue[n], MainOK'
  PROVE  TInv'
<1>1. UNCHANGED <<topology, solution, selected_index>>
  BY DEF given
<1>2. to_send[r] \subseteq Neighbours(r)
  BY DEF TInv, FrameOK
<1>3. /\ StatesOK'
      /\ rpc' = [rpc EXCEPT ![r] = "select"]
      /\ changed' \in [Router -> BOOLEAN]
      /\ to_send' \in [Router -> SUBSET Router]
      /\ \A x \in Router : to_send'[x] \subseteq Neighbours(x)'
  BY <1>1, <1>2, EndIterationFacts
<1>4. LinksOK'
  BY <1>1 DEF TInv, LinksOK, Below, NoShortcut
<1>5. FrameOK'
  BY <1>1, <1>3 DEF TInv, FrameOK
<1>6. StubSilent'
  BY <1>3 DEF TInv, FrameOK, StubSilent
<1> QED BY <1>3, <1>4, <1>5, <1>6 DEF TInv

(* What the next state of a router holds.                                  *)
LEMMA NextStateFacts ==
  ASSUME TInv, NEW r \in Router
  PROVE  /\ next(r) \in Slot /\ dist[r][next(r)] \in [Router -> Distances]
         /\ \A d \in Router : solution[r][d] <= dist[r][next(r)][d]
         /\ changed[r] \in BOOLEAN
<1>1. next(r) \in Slot
  BY Circle DEF TInv, StatesOK, next
<1> QED BY <1>1 DEF TInv, StatesOK, FrameOK, DistancesSound

(* Router r cycles its states.                                             *)
LEMMA CycleT ==
  ASSUME TInv, NEW r \in Router, Cycle(r)
  PROVE  TInv'
<1>1. QueueOK' /\ \A n \in Router : queue'[n] = queue[n]
  BY DEF TInv, QueueOK, Cycle
<1>2. MainOK'
  BY MainUntouched DEF TInv, Cycle
<1>3. data' \in [Router -> Message] /\ \A x \in Router : x # r => data'[x] = data[x]
  BY DEF TInv, FrameOK, Cycle
<1>4. /\ rpc[r] # "select" /\ UNCHANGED given
      /\ EndIteration(r, to_send[r], dist[r][next(r)], changed[r])
  BY DEF Cycle
<1> QED BY <1>1, <1>2, <1>3, <1>4, NextStateFacts, EndIterationT

(* Router r answers the special message.                                   *)
LEMMA ReplyT ==
  ASSUME TInv, NEW r \in Router, Reply(r)
  PROVE  TInv'
<1>1. PICK m \in Message : Send(Completed, m)
  BY DEF TInv, StatesOK, Reply, Message, Pointer
<1>2. QueueOK' /\ \A n \in Router : queue'[n] = queue[n]
  BY <1>1, SendFacts, RouterFacts DEF TInv, Every
<1>3. MainOK'
  BY MainUntouched DEF TInv, Reply
<1>4. data' \in [Router -> Message] /\ \A x \in Router : x # r => data'[x] = data[x]
  BY DEF TInv, FrameOK, Reply
<1>5. /\ rpc[r] # "select" /\ UNCHANGED given
      /\ EndIteration(r, to_send[r], dist[r][next(r)], changed[r])
  BY DEF Reply
<1> QED BY <1>2, <1>3, <1>4, <1>5, NextStateFacts, EndIterationT

(* A detour over a neighbour is no shorter than the shortest walk.         *)
LEMMA MergeSound ==
  ASSUME TInv, NEW r \in Router, NEW n \in Router, NEW s \in Slot
  PROVE  LET new == [d \in Router |-> Plus(topology[r][n], dist[n][s][d])]
             merged == Improved(dist[r][next(r)], new)
         IN  /\ merged \in [Router -> Distances]
             /\ \A d \in Router : solution[r][d] <= merged[d]
<1> DEFINE old == dist[r][next(r)]
           new == [d \in Router |-> Plus(topology[r][n], dist[n][s][d])]
           merged == Improved(old, new)
<1>1. old \in [Router -> Distances] /\ \A d \in Router : solution[r][d] <= old[d]
  BY NextStateFacts
<1>2. ASSUME NEW d \in Router
      PROVE  new[d] \in Nat /\ solution[r][d] <= new[d]
  <2>1. topology[r][n] \in Distances /\ dist[n][s][d] \in Distances
    BY DEF TInv, LinksOK, Matrix, StatesOK
  <2>2. new[d] = topology[r][n] + dist[n][s][d] /\ new[d] \in Nat
    BY <2>1, PlusExact
  <2>3. solution[r][n] <= topology[r][n] /\ solution[n][d] <= dist[n][s][d]
    BY DEF TInv, LinksOK, Below, StatesOK, DistancesSound
  <2>4. solution[r][d] <= solution[r][n] + solution[n][d]
    BY DEF TInv, LinksOK, NoShortcut
  <2>5. solution[r][n] \in Distances /\ solution[n][d] \in Distances /\ solution[r][d] \in Distances
    BY DEF TInv, LinksOK, Matrix
  <2> QED BY <2>1, <2>2, <2>3, <2>4, <2>5 DEF Distances
<1>3. merged = [d \in Router |-> IF new[d] < old[d] THEN new[d] ELSE old[d]]
  BY DEF Improved
<1> HIDE DEF old, new, merged
<1>4. ASSUME NEW d \in Router
      PROVE  merged[d] \in Distances /\ solution[r][d] <= merged[d]
  <2>1. old[d] \in Distances
    BY <1>1
  <2>2. CASE new[d] < old[d]
    BY <1>2, <1>3, <2>1, <2>2, DistanceAssumption DEF Distances
  <2>3. CASE ~(new[d] < old[d])
    BY <1>1, <1>3, <2>1, <2>3
  <2> QED BY <2>2, <2>3
<1>5. merged \in [Router -> Distances]
  BY <1>3, <1>4
<1> QED BY <1>4, <1>5 DEF merged, old, new

(* Router r merges the vector of a neighbour.                              *)
LEMMA MergeT ==
  ASSUME TInv, NEW r \in Router, Merge(r)
  PROVE  TInv'
<1> DEFINE n == data[r][1]
           s == data[r][2]
           old == dist[r][next(r)]
           merged == Improved(old, [d \in Router |-> Plus(topology[r][n], dist[n][s][d])])
<1>1. n \in Router /\ s \in Slot
  BY DEF TInv, FrameOK, Merge, Pointer
<1>2. merged \in [Router -> Distances] /\ \A d \in Router : solution[r][d] <= merged[d]
  BY <1>1, MergeSound
<1>3. (changed[r] \/ merged # old) \in BOOLEAN
  OBVIOUS
<1>4. /\ rpc[r] # "select" /\ UNCHANGED <<given, queue>>
      /\ EndIteration(r, to_send[r], merged, changed[r] \/ merged # old)
      /\ data' = [data EXCEPT ![r] = NULL]
  BY DEF Merge
<1>5. MainOK'
  BY MainUntouched DEF TInv, Merge
<1>6. QueueOK' /\ \A x \in Router : queue'[x] = queue[x]
  BY <1>4 DEF TInv, QueueOK
<1>7. data' \in [Router -> Message] /\ \A x \in Router : x # r => data'[x] = data[x]
  BY <1>4 DEF TInv, FrameOK, Message
<1> HIDE DEF merged
<1> QED BY <1>2, <1>3, <1>4, <1>5, <1>6, <1>7, EndIterationT

-----------------------------------------------------------------------------
(* check_done sends a special message.                                     *)
LEMMA FlushT ==
  ASSUME TInv, Flush
  PROVE  TInv'
<1>1. i \in Every /\ NULL \in Message /\ QueueOK /\ MainOK /\ FrameOK /\ Send(i, NULL)
  BY DEF Every, TInv, MainOK, Message, Flush
<1>2. /\ QueueOK' /\ queue'[i][1] = NULL
      /\ \A x \in Every : x # i => queue'[x] = queue[x]
  BY <1>1, SendFacts
<1>3. LinksOK' /\ FrameOK' /\ StatesOK'
  BY RoutersUntouched DEF Flush
<1>4. MainOK'
  BY <1>1, IterateFacts DEF Flush, MainOK
<1>5. StubSilent'
  BY <1>2 DEF TInv, StubSilent, Every, Flush, routerVars
<1> QED BY <1>2, <1>3, <1>4, <1>5 DEF TInv

(* check_done receives an answer.                                          *)
LEMMA CollectT ==
  ASSUME TInv, Collect
  PROVE  TInv'
<1> DEFINE d == Head(queue[Completed])
<1>1. Completed \in Every /\ QueueOK /\ MainOK /\ Receive(Completed)
  BY DEF Every, TInv, Collect
<1>2. QueueOK' /\ d \in Message /\ \A x \in Router : queue'[x] = queue[x]
  BY <1>1, ReceiveFacts, RouterFacts DEF Every
<1>3. LinksOK' /\ FrameOK' /\ StatesOK'
  BY RoutersUntouched DEF Collect
<1>4. MainOK'
  <2>1. valid' \in BOOLEAN
    BY DEF Collect, StillValid
  <2>2. AfterRound(valid') \in {"usleep", "flush", "verify"}
    BY DEF AfterRound
  <2>3. i' \in Router /\ main' \in {"collect", "usleep", "flush", "verify"}
    BY <1>1, <2>2, IterateFacts DEF Collect
  <2>4. round' \in 1 .. 2
    BY <1>1 DEF Collect, MainOK
  <2>5. completed' \in [Router -> Message]
    BY <1>1, <1>2 DEF Collect, MainOK
  <2>6. closed' = closed
    BY DEF Collect
  <2> QED BY <1>1, <2>1, <2>3, <2>4, <2>5, <2>6 DEF MainOK
<1>5. StubSilent'
  BY <1>2 DEF TInv, StubSilent, Collect, routerVars
<1> QED BY <1>2, <1>3, <1>4, <1>5 DEF TInv

(* The steps of the main thread that touch no channel.                     *)
LEMMA OtherMainT ==
  ASSUME TInv, UNCHANGED <<given, queue, routerVars>>, MainOK'
  PROVE  TInv'
<1>1. LinksOK' /\ FrameOK' /\ StatesOK'
  BY RoutersUntouched
<1>2. QueueOK'
  BY DEF TInv, QueueOK
<1>3. StubSilent'
  BY DEF TInv, StubSilent, routerVars
<1> QED BY <1>1, <1>2, <1>3 DEF TInv

(* Every step keeps TInv.                                                  *)
LEMMA StepTInv == TInv /\ [Next]_vars => TInv'
<1> SUFFICES ASSUME TInv, [Next]_vars PROVE TInv'
  OBVIOUS
<1>1. MainOK
  BY DEF TInv
<1>2. CASE run_stress
  <2>1. CASE Flush
    BY <2>1, FlushT
  <2>2. CASE Collect
    BY <2>2, CollectT
  <2>3. CASE Retry
    <3>1. MainOK'
      BY <1>1, <2>3 DEF Retry, MainOK, Message
    <3> QED BY <2>3, <3>1, OtherMainT DEF Retry
  <2>4. CASE Verify
    <3>1. MainOK'
      BY <1>1, <2>4 DEF Verify, MainOK
    <3> QED BY <2>4, <3>1, OtherMainT DEF Verify
  <2>5. CASE CloseDone
    <3>1. MainOK'
      BY <1>1, <2>5 DEF CloseDone, MainOK
    <3> QED BY <2>5, <3>1, OtherMainT DEF CloseDone
  <2>6. CASE Join
    <3>1. MainOK'
      BY <1>1, <2>6, IterateFacts DEF Join, MainOK
    <3> QED BY <2>6, <3>1, OtherMainT DEF Join
  <2> QED BY <1>2, <2>1, <2>2, <2>3, <2>4, <2>5, <2>6 DEF run_stress
<1>3. ASSUME NEW r \in Router, router(r)
      PROVE  TInv'
  <2>1. CASE channel_select(r)
    BY <2>1, SelectReceiveT, SelectSendT, SelectClosedT, SelectStubT DEF channel_select
  <2>2. CASE Cycle(r) \/ Merge(r) \/ Reply(r)
    BY <2>2, CycleT, MergeT, ReplyT
  <2> QED BY <1>3, <2>1, <2>2 DEF router
<1>4. CASE UNCHANGED vars
  <2>1. MainOK'
    BY <1>1, <1>4 DEF vars, mainVars, MainOK
  <2> QED BY <1>4, <2>1, OtherMainT DEF vars
<1> QED BY <1>2, <1>3, <1>4 DEF Next, Terminated

(* The invariant of router and check_done, for any network.                *)
THEOREM TypeInvariance == Spec => []TInv
BY InitTInv, StepTInv, PTL DEF Spec

-----------------------------------------------------------------------------
(* One channel leaves the front of a list: the one that entry k names or,  *)
(* if that has left before, the last one.  It and entry k change places.   *)
LEMMA ListDrop ==
  ASSUME NEW N, IsFiniteSet(N), NEW T, T \subseteq N,
         NEW l \in Bijection(1 .. Cardinality(N), N),
         \A j \in 1 .. Cardinality(N) : l[j] \in T <=> j <= Cardinality(T),
         NEW k \in 1 .. Cardinality(N), NEW n \in T,
         n = l[IF k < Cardinality(T) THEN k ELSE Cardinality(T)]
  PROVE  LET new == [l EXCEPT ![k] = l[Cardinality(T)], ![Cardinality(T)] = l[k]]
         IN  /\ new \in Bijection(1 .. Cardinality(N), N)
             /\ \A j \in 1 .. Cardinality(N) :
                  new[j] \in T \ {n} <=> j <= Cardinality(T \ {n})
<1> DEFINE total == Cardinality(N)
           last == Cardinality(T)
           new == [l EXCEPT ![k] = l[last], ![last] = l[k]]
<1>1. total \in Nat /\ last \in Nat /\ IsFiniteSet(T)
  BY FS_CardinalityType, FS_Subset
<1>2. /\ last \in 1 .. total /\ k \in 1 .. total
      /\ n = l[IF k < last THEN k ELSE last]
      /\ \A j \in 1 .. total : l[j] \in T <=> j <= last
  BY <1>1, FS_Subset, FS_EmptySet
<1>3. Cardinality(T \ {n}) = last - 1
  BY <1>1, FS_RemoveElement
<1> HIDE DEF total, last
<1>4. /\ l \in [1 .. total -> N]
      /\ \A a, b \in 1 .. total : l[a] = l[b] => a = b
      /\ \A t \in N : \E a \in 1 .. total : l[a] = t
  BY DEF Bijection, Injection, Surjection, IsInjective, total
<1>5. new \in [1 .. total -> N]
  BY <1>2, <1>4
<1>6. \A j \in 1 .. total :
        new[j] = IF j = last THEN l[k] ELSE IF j = k THEN l[last] ELSE l[j]
  <2>1. DOMAIN l = 1 .. total
    BY <1>4
  <2> QED BY <1>2, <2>1, ZenonT(30)
<1>7. \A a, b \in 1 .. total : new[a] = new[b] => a = b
  BY <1>2, <1>4, <1>6
<1>8. \A t \in N : \E a \in 1 .. total : new[a] = t
  <2> SUFFICES ASSUME NEW t \in N PROVE \E a \in 1 .. total : new[a] = t
    OBVIOUS
  <2>1. PICK a \in 1 .. total : l[a] = t
    BY <1>4
  <2>2. CASE a = k
    BY <1>2, <1>6, <2>1, <2>2
  <2>3. CASE a = last /\ a # k
    BY <1>2, <1>6, <2>1, <2>3
  <2>4. CASE a # last /\ a # k
    BY <1>6, <2>1, <2>4
  <2> QED BY <2>2, <2>3, <2>4
<1>9. ASSUME NEW j \in 1 .. total
      PROVE  new[j] \in T \ {n} <=> j <= last - 1
  <2>1. CASE k < last
    BY <1>1, <1>2, <1>4, <1>6, <2>1
  <2>2. CASE ~(k < last)
    BY <1>1, <1>2, <1>4, <1>6, <2>2
  <2> QED BY <2>1, <2>2
<1>10. \A j \in 1 .. total : new[j] \in T \ {n} <=> j <= Cardinality(T \ {n})
  BY <1>3, <1>9
<1>11. new \in Bijection(1 .. total, N)
  BY <1>5, <1>7, <1>8 DEF Bijection, Injection, Surjection, IsInjective
<1> QED BY <1>10, <1>11 DEF total, last

(* How many numbers of a set are up to n.                                  *)
LEMMA CountUpTo ==
  ASSUME NEW N, N \subseteq Nat, IsFiniteSet(N), NEW n \in N,
         NEW Low, Low = {m \in N : m <= n}
  PROVE  IsFiniteSet(Low) /\ Cardinality(Low) \in 1 .. Cardinality(N)
<1>1. Low \subseteq N /\ n \in Low
  OBVIOUS
<1>2. IsFiniteSet(Low) /\ Cardinality(Low) <= Cardinality(N) /\ Cardinality(Low) # 0
  BY <1>1, FS_Subset, FS_EmptySet
<1>3. Cardinality(Low) \in Nat /\ Cardinality(N) \in Nat
  BY <1>2, FS_CardinalityType
<1> QED BY <1>2, <1>3

(* The places of the neighbours, each taken once.                          *)
LEMMA PlaceFacts ==
  ASSUME NEW r \in Router
  PROVE  /\ IsFiniteSet(Neighbours(r)) /\ Cardinality(Neighbours(r)) \in Nat
         /\ \A n \in Neighbours(r) : Place(r, n) \in 1 .. Cardinality(Neighbours(r))
         /\ \A m, n \in Neighbours(r) : Place(r, m) = Place(r, n) => m = n
<1>1. Neighbours(r) \subseteq Nat /\ IsFiniteSet(Neighbours(r))
  <2>1. Neighbours(r) \subseteq 0 .. num_channel - 1 /\ num_channel \in Nat
    BY DistanceAssumption DEF Neighbours, Router
  <2>2. IsFiniteSet(0 .. num_channel - 1)
    BY <2>1, FS_Interval
  <2>3. IsFiniteSet(Neighbours(r))
    BY <2>1, <2>2, FS_Subset
  <2> QED BY <2>1, <2>3
<1>2. Cardinality(Neighbours(r)) \in Nat
  BY <1>1, FS_CardinalityType
<1>3. ASSUME NEW n \in Neighbours(r)
      PROVE  Place(r, n) \in 1 .. Cardinality(Neighbours(r))
  BY <1>1, CountUpTo DEF Place
<1>4. ASSUME NEW m \in Neighbours(r), NEW n \in Neighbours(r), m < n
      PROVE  Place(r, m) # Place(r, n)
  <2> DEFINE Low(x) == {y \in Neighbours(r) : y <= x}
  <2>1. Low(m) \subseteq Low(n) /\ n \in Low(n) /\ n \notin Low(m)
    BY <1>1, <1>4
  <2>2. Low(n) \subseteq Neighbours(r)
    OBVIOUS
  <2>3. Place(r, m) = Cardinality(Low(m)) /\ Place(r, n) = Cardinality(Low(n))
    BY DEF Place
  <2> HIDE DEF Low
  <2> QED BY <1>1, <2>1, <2>2, <2>3, FS_Subset
<1>5. \A m, n \in Neighbours(r) : m # n => m < n \/ n < m
  BY <1>1
<1> QED BY <1>1, <1>2, <1>3, <1>4, <1>5

(* Every neighbour has its place in the list a router starts with.         *)
LEMMA InitialListOK ==
  ASSUME NEW r \in Router
  PROVE  InitialList(r) \in Bijection(1 .. Cardinality(Neighbours(r)), Neighbours(r))
<1> DEFINE total == Cardinality(Neighbours(r))
           place == [n \in Neighbours(r) |-> Place(r, n)]
           list == InitialList(r)
<1>1. place \in Injection(Neighbours(r), 1 .. total)
  BY PlaceFacts DEF Injection, IsInjective
<1>2. place \in Surjection(Neighbours(r), 1 .. total)
  <2>1. IsFiniteSet(1 .. total) /\ Cardinality(1 .. total) = total
    BY PlaceFacts, FS_Interval
  <2> HIDE DEF place
  <2> QED BY <1>1, <2>1, FS_Injection
<1>3. ASSUME NEW k \in 1 .. total
      PROVE  list[k] \in Neighbours(r) /\ Place(r, list[k]) = k
  <2>1. PICK n \in Neighbours(r) : Place(r, n) = k
    BY <1>2 DEF Surjection
  <2> QED BY <2>1 DEF InitialList
<1>4. list \in [1 .. total -> Neighbours(r)]
  BY <1>3 DEF InitialList
<1> HIDE DEF list
<1>5. \A a, b \in 1 .. total : list[a] = list[b] => a = b
  BY <1>3
<1>6. \A n \in Neighbours(r) : \E k \in 1 .. total : list[k] = n
  BY <1>3, PlaceFacts
<1> HIDE DEF total
<1>7. list \in Bijection(1 .. total, Neighbours(r))
  BY <1>4, <1>5, <1>6 DEF Bijection, Injection, Surjection, IsInjective
<1> QED BY <1>7 DEF list, total

(***************************************************************************)
(* The lists of neighbours.  This invariant rests on TInv and says nothing *)
(* that other proofs need.                                                 *)
(***************************************************************************)
ListInv ==
  /\ select_list \in [Router -> Seq(Router)]
  /\ \A r \in Router : ListOK(r)

LEMMA ListShape ==
  ASSUME NEW r \in Router, NEW l \in Bijection(1 .. Cardinality(Neighbours(r)), Neighbours(r))
  PROVE  l \in Seq(Router)
<1>1. Cardinality(Neighbours(r)) \in Nat /\ Neighbours(r) \subseteq Router
  BY PlaceFacts DEF Neighbours
<1>2. l \in [1 .. Cardinality(Neighbours(r)) -> Neighbours(r)]
  BY DEF Bijection, Injection
<1>3. l \in [1 .. Cardinality(Neighbours(r)) -> Router]
  BY <1>1, <1>2
<1> QED BY <1>1, <1>3

(* Only the list of r and whom r still sends to matter to ListOK(r).       *)
LEMMA ListSame ==
  ASSUME NEW r \in Router, ListOK(r), topology' = topology,
         select_list'[r] = select_list[r], to_send'[r] = to_send[r]
  PROVE  ListOK(r)'
BY DEF ListOK, Neighbours

(* Router r has sent everything, and starts over or not.                   *)
LEMMA ListReset ==
  ASSUME ListInv, NEW r \in Router, UNCHANGED <<topology, select_list>>,
         to_send \in [Router -> SUBSET Router], NEW reset \in BOOLEAN,
         to_send' = [to_send EXCEPT ![r] = IF reset THEN Neighbours(r) ELSE to_send[r]]
  PROVE  ListInv'
<1>1. ASSUME NEW x \in Router, x # r \/ ~reset
      PROVE  ListOK(x)'
  <2>1. to_send'[x] = to_send[x]
    BY <1>1
  <2> QED BY <2>1, ListSame DEF ListInv
<1>2. ASSUME reset
      PROVE  ListOK(r)'
  <2>1. to_send'[r] = Neighbours(r) /\ Neighbours(r)' = Neighbours(r)
    BY <1>2 DEF Neighbours
  <2>2. ListOK(r)
    BY DEF ListInv
  <2>3. \A k \in 1 .. Cardinality(Neighbours(r)) : select_list[r][k] \in Neighbours(r)
    BY <2>2 DEF ListOK, Bijection, Injection
  <2>4. Cardinality(Neighbours(r)) \in Nat
    BY PlaceFacts
  <2> QED BY <2>1, <2>2, <2>3, <2>4 DEF ListOK
<1>3. select_list' \in [Router -> Seq(Router)]
  BY DEF ListInv
<1> QED BY <1>1, <1>2, <1>3 DEF ListInv

(* A channel has been selected and taken off the list of r.                *)
LEMMA ListDropped ==
  ASSUME ListInv, NEW r \in Router, UNCHANGED topology,
         to_send \in [Router -> SUBSET Router], to_send[r] \subseteq Neighbours(r),
         NEW k \in 1 .. Cardinality(Neighbours(r)), NEW n \in to_send[r],
         n = select_list[r][IF k < Cardinality(to_send[r]) THEN k ELSE Cardinality(to_send[r])],
         to_send' = [to_send EXCEPT ![r] = @ \ {n}],
         SwapWithLast(r, k)
  PROVE  ListInv'
<1> DEFINE last == Cardinality(to_send[r])
           l == select_list[r]
           new == [l EXCEPT ![k] = l[last], ![last] = l[k]]
<1>1. /\ select_list'[r] = new
      /\ \A x \in Router : x # r => select_list'[x] = select_list[x]
      /\ DOMAIN select_list' = Router
      /\ select_list' = [x \in Router |-> select_list'[x]]
  BY DEF SwapWithLast, ListInv
<1>2. /\ to_send'[r] = to_send[r] \ {n}
      /\ \A x \in Router : x # r => to_send'[x] = to_send[x]
  OBVIOUS
<1>3. ListOK(r) /\ IsFiniteSet(Neighbours(r)) /\ Neighbours(r)' = Neighbours(r)
  BY PlaceFacts DEF ListInv, Neighbours
<1>4. /\ new \in Bijection(1 .. Cardinality(Neighbours(r)), Neighbours(r))
      /\ \A j \in 1 .. Cardinality(Neighbours(r)) :
           new[j] \in to_send[r] \ {n} <=> j <= Cardinality(to_send[r] \ {n})
  <2>1. /\ l \in Bijection(1 .. Cardinality(Neighbours(r)), Neighbours(r))
        /\ \A j \in 1 .. Cardinality(Neighbours(r)) : l[j] \in to_send[r] <=> j <= last
    BY <1>3 DEF ListOK
  <2> DEFINE N == Neighbours(r)
             T == to_send[r]
  <2>2. /\ n = l[IF k < Cardinality(T) THEN k ELSE Cardinality(T)] /\ n \in T
        /\ k \in 1 .. Cardinality(N) /\ T \subseteq N /\ IsFiniteSet(N)
    BY <1>3
  <2>3. /\ l \in Bijection(1 .. Cardinality(N), N)
        /\ \A j \in 1 .. Cardinality(N) : l[j] \in T <=> j <= Cardinality(T)
    BY <2>1
  <2>4. new = [l EXCEPT ![k] = l[Cardinality(T)], ![Cardinality(T)] = l[k]]
    OBVIOUS
  <2> HIDE DEF l, N, T, new
  <2>5. /\ new \in Bijection(1 .. Cardinality(N), N)
        /\ \A j \in 1 .. Cardinality(N) :
             new[j] \in T \ {n} <=> j <= Cardinality(T \ {n})
    BY <2>2, <2>3, <2>4, ListDrop
  <2> QED BY <2>5 DEF N, T
<1> HIDE DEF new
<1>5. ListOK(r)'
  BY <1>1, <1>2, <1>3, <1>4 DEF ListOK
<1>6. \A x \in Router : ListOK(x)'
  BY <1>1, <1>2, <1>5, ListSame DEF ListInv
<1>7. \A x \in Router : select_list'[x] \in Seq(Router)
  <2>1. select_list'[r] \in Seq(Router)
    BY <1>4, <1>1, <1>3, ListShape DEF Bijection
  <2> QED BY <1>1, <2>1 DEF ListInv
<1>8. select_list' \in [Router -> Seq(Router)]
  BY <1>1, <1>7
<1> QED BY <1>6, <1>8 DEF ListInv

(* With a channel_select that works, router r has sent to neighbour n.     *)
LEMMA SelectSendL ==
  ASSUME TInv, ListInv, NEW r \in Router, SelectSend(r)
  PROVE  ListInv'
<1>1. PICK n \in to_send[r], k \in 1 .. Cardinality(to_send[r]) :
        /\ n = select_list[r][k]
        /\ to_send' = [to_send EXCEPT ![r] = @ \ {n}]
        /\ SwapWithLast(r, k)
  BY DEF SelectSend
<1>2. /\ to_send \in [Router -> SUBSET Router] /\ to_send[r] \subseteq Neighbours(r)
      /\ topology' = topology
  BY DEF TInv, FrameOK, SelectSend, given
<1>3. /\ Cardinality(to_send[r]) \in Nat /\ Cardinality(Neighbours(r)) \in Nat
      /\ Cardinality(to_send[r]) <= Cardinality(Neighbours(r))
  BY <1>2, PlaceFacts, FS_Subset, FS_CardinalityType
<1>4. /\ k \in 1 .. Cardinality(Neighbours(r))
      /\ k = IF k < Cardinality(to_send[r]) THEN k ELSE Cardinality(to_send[r])
  BY <1>3
<1> QED BY <1>1, <1>2, <1>4, ListDropped

(* The stub has made router r drop a channel, or not.                      *)
LEMMA SelectStubL ==
  ASSUME TInv, ListInv, NEW r \in Router, SelectStub(r)
  PROVE  ListInv'
<1> DEFINE s == selected_index[r]
           last == Cardinality(to_send[r])
           inBounds == s < 2 + Cardinality(Neighbours(r)) /\ to_send[r] # {}
<1>1. /\ to_send \in [Router -> SUBSET Router] /\ to_send[r] \subseteq Neighbours(r)
      /\ topology' = topology /\ s \in Nat
  BY DEF TInv, FrameOK, SelectStub, given
<1>2. CASE s >= 2 /\ inBounds
  <2>1. PICK n \in to_send[r] :
          /\ n = select_list[r][IF s - 1 < last THEN s - 1 ELSE last]
          /\ to_send' = [to_send EXCEPT ![r] = @ \ {n}]
          /\ SwapWithLast(r, s - 1)
    BY <1>2 DEF SelectStub
  <2>2. s - 1 \in 1 .. Cardinality(Neighbours(r))
    BY <1>1, <1>2, PlaceFacts
  <2> QED BY <1>1, <2>1, <2>2, ListDropped
<1>3. CASE ~(s >= 2 /\ inBounds)
  <2>1. UNCHANGED <<select_list, to_send>>
    BY <1>3 DEF SelectStub
  <2> QED BY <1>1, <2>1, ListSame DEF ListInv
<1> QED BY <1>2, <1>3

(* Every step keeps ListInv.                                               *)
LEMMA StepListInv == TInv /\ ListInv /\ [Next]_vars => ListInv'
<1> SUFFICES ASSUME TInv, ListInv, [Next]_vars PROVE ListInv'
  OBVIOUS
<1>1. ASSUME UNCHANGED <<topology, select_list, to_send>>
      PROVE  ListInv'
  BY <1>1, ListSame DEF ListInv
<1>2. CASE run_stress
  <2>1. UNCHANGED <<given, routerVars>>
    BY <1>2 DEF run_stress, Flush, Collect, Retry, Verify, CloseDone, Join
  <2> QED BY <1>1, <2>1 DEF given, routerVars
<1>3. ASSUME NEW r \in Router, router(r)
      PROVE  ListInv'
  <2>1. CASE SelectReceive(r) \/ SelectClosed(r)
    BY <1>1, <2>1 DEF SelectReceive, SelectClosed, given
  <2>2. CASE Cycle(r) \/ Merge(r) \/ Reply(r)
    <3>1. /\ UNCHANGED <<topology, select_list>>
          /\ \E vector, better : EndIteration(r, to_send[r], vector, better)
      BY <2>2 DEF Cycle, Merge, Reply, given
    <3>2. PICK vector, better : EndIteration(r, to_send[r], vector, better)
      BY <3>1
    <3>3. \E reset \in BOOLEAN :
            to_send' = [to_send EXCEPT ![r] = IF reset THEN Neighbours(r) ELSE to_send[r]]
      BY <3>2, Zenon DEF EndIteration
    <3> QED BY <3>1, <3>3, ListReset DEF TInv, FrameOK
  <2> QED BY <1>3, <2>1, <2>2, SelectSendL, SelectStubL DEF router, channel_select
<1>4. CASE UNCHANGED vars
  BY <1>1, <1>4 DEF vars, given, routerVars
<1> QED BY <1>2, <1>3, <1>4 DEF Next, Terminated

(* Every router keeps the list of its neighbours together.                 *)
THEOREM ListInvariance == Spec => []ListInv
<1>1. Init => ListInv
  <2> SUFFICES ASSUME Init PROVE ListInv
    OBVIOUS
  <2>1. ASSUME NEW r \in Router
        PROVE  ListOK(r) /\ select_list[r] \in Seq(Router)
    <3>1. select_list[r] = InitialList(r) /\ to_send[r] = Neighbours(r)
      BY DEF Init
    <3>2. select_list[r] \in Bijection(1 .. Cardinality(Neighbours(r)), Neighbours(r))
      BY <3>1, InitialListOK
    <3>3. \A k \in 1 .. Cardinality(Neighbours(r)) : select_list[r][k] \in Neighbours(r)
      BY <3>2 DEF Bijection, Injection
    <3> QED BY <3>1, <3>2, <3>3, ListShape, PlaceFacts DEF ListOK
  <2>2. select_list \in [Router -> Seq(Router)]
    BY <2>1 DEF Init
  <2> QED BY <2>1, <2>2 DEF ListInv
<1> QED BY <1>1, StepListInv, TypeInvariance, PTL DEF Spec

(* Type correctness of the router stress test.                             *)
THEOREM TypeCorrect == Spec => []TypeOK
<1>1. TInv /\ ListInv => TypeOK
  BY DEF TInv, ListInv, LinksOK, QueueOK, MainOK, FrameOK, StatesOK, TypeOK, Every
<1> QED BY <1>1, TypeInvariance, ListInvariance, PTL

(* No vector of a router ever promises a distance that the network does    *)
(* not have, in whatever order the vectors of others arrive.               *)
THEOREM VectorsSound == Spec => []DistancesSound
<1>1. TInv => DistancesSound
  BY DEF TInv, StatesOK
<1> QED BY <1>1, TypeInvariance, PTL

-----------------------------------------------------------------------------
(***************************************************************************)
(* Which states others may still read.  A router has sent a neighbour its  *)
(* current state or, before that, the one before.  Since the channel holds *)
(* one message only, a neighbour that still reads an older state has the   *)
(* newer one waiting in its channel, where no third one fits.              *)
(***************************************************************************)
Before(s) == (s + 3) % 4

LastSent(r, n) == IF n \in to_send[r] THEN Before(curr[r]) ELSE curr[r]

Queued(r, n, s) == Len(queue[n]) = 1 /\ queue[n][1] = <<r, s>>

Held(r, n, s) == rpc[n] = "merge" /\ data[n] = <<r, s>>

HandoverInv ==
  \A r, n \in Router, s \in Slot :
    /\ Queued(r, n, s) => n \in Neighbours(r) /\ s = LastSent(r, n)
    /\ Held(r, n, s) =>
         /\ n \in Neighbours(r)
         /\ \/ s = LastSent(r, n)
            \/ s = Before(LastSent(r, n)) /\ Queued(r, n, LastSent(r, n))

(* The way back round the circle.                                          *)
LEMMA CircleBack ==
  ASSUME NEW s \in Slot
  PROVE  /\ Before(s) \in Slot /\ Before(Before(s)) \in Slot
         /\ Before(After(s)) = s
         /\ After(s) \notin {s, Before(s), Before(Before(s))}
BY DEF Slot, After, Before

(* The stub of channel_select sends no states.                             *)
LEMMA StubHandover == TInv /\ ~SelectWorks => HandoverInv
<1> SUFFICES ASSUME TInv, ~SelectWorks, NEW r \in Router, NEW n \in Router, NEW s \in Slot
             PROVE  ~Queued(r, n, s) /\ ~Held(r, n, s)
  BY DEF HandoverInv
<1>1. NULL # <<r, s>>
  BY StressAssumption DEF Slot
<1> QED BY <1>1 DEF TInv, StubSilent, Queued, Held

(* A step that neither sends nor receives a state.                         *)
LEMMA HandoverKept ==
  ASSUME HandoverInv, UNCHANGED topology,
         \A n \in Router : queue'[n] = queue[n],
         \A r, n \in Router : n \in Neighbours(r) => LastSent(r, n)' = LastSent(r, n),
         \A n \in Router, r \in Router, s \in Slot : Held(r, n, s)' => Held(r, n, s)
  PROVE  HandoverInv'
<1> SUFFICES ASSUME NEW r \in Router, NEW n \in Router, NEW s \in Slot
             PROVE  /\ Queued(r, n, s)' => n \in Neighbours(r)' /\ s = LastSent(r, n)'
                    /\ Held(r, n, s)' =>
                         /\ n \in Neighbours(r)'
                         /\ \/ s = LastSent(r, n)'
                            \/ s = Before(LastSent(r, n)') /\ Queued(r, n, LastSent(r, n))'
  BY DEF HandoverInv, Before
<1>1. Neighbours(r)' = Neighbours(r)
  BY DEF Neighbours
<1>2. Queued(r, n, s)' = Queued(r, n, s)
  BY DEF Queued
<1>3. n \in Neighbours(r) => Queued(r, n, LastSent(r, n))' = Queued(r, n, LastSent(r, n))
  BY DEF Queued
<1> QED BY <1>1, <1>2, <1>3 DEF HandoverInv

(* Cycling the states does not change which of them was sent last.         *)
LEMMA EndIterationHandover ==
  ASSUME TInv, HandoverInv, NEW r \in Router, UNCHANGED topology,
         NEW vector, NEW better, EndIteration(r, to_send[r], vector, better),
         \A x \in Router : x # r => data'[x] = data[x],
         \A n \in Router : queue'[n] = queue[n]
  PROVE  HandoverInv'
<1> DEFINE cycle == to_send[r] = {} /\ better
<1>1. /\ rpc \in [Router -> {"select", "merge", "reply", "cycle", "exited", "overrun"}]
      /\ to_send \in [Router -> SUBSET Router] /\ curr \in [Router -> Slot]
  BY DEF TInv, FrameOK, StatesOK
<1>2. /\ rpc' = [rpc EXCEPT ![r] = "select"]
      /\ to_send' = [to_send EXCEPT ![r] = IF cycle THEN Neighbours(r) ELSE to_send[r]]
      /\ curr' = IF cycle THEN [curr EXCEPT ![r] = After(curr[r])] ELSE curr
  BY DEF EndIteration, next
<1>3. ASSUME NEW a \in Router, NEW n \in Router, n \in Neighbours(a)
      PROVE  LastSent(a, n)' = LastSent(a, n)
  <2>1. CASE a = r /\ cycle
    <3>1. n \in to_send'[r] /\ curr'[r] = After(curr[r]) /\ n \notin to_send[r]
      BY <1>1, <1>2, <1>3, <2>1
    <3>2. Before(curr'[r]) = curr[r]
      BY <1>1, <3>1, CircleBack
    <3> QED BY <2>1, <3>1, <3>2 DEF LastSent
  <2>2. CASE ~(a = r /\ cycle)
    <3>1. to_send'[a] = to_send[a] /\ curr'[a] = curr[a]
      BY <1>1, <1>2, <2>2
    <3> QED BY <3>1 DEF LastSent, Before
  <2> QED BY <2>1, <2>2
<1>4. ASSUME NEW n \in Router, NEW a \in Router, NEW s \in Slot, Held(a, n, s)'
      PROVE  Held(a, n, s)
  BY <1>1, <1>2, <1>4 DEF Held
<1> QED BY <1>3, <1>4, HandoverKept

(* What was queued is then in hand.                                        *)
LEMMA SelectReceiveH ==
  ASSUME TInv, HandoverInv, NEW q \in Router, SelectReceive(q)
  PROVE  HandoverInv'
<1>1. /\ Len(queue[q]) = 1 /\ Head(queue[q]) = queue[q][1] /\ Len(queue'[q]) = 0
      /\ \A x \in Router : x # q => queue'[x] = queue[x]
  BY ReceiveFacts DEF TInv, Every, SelectReceive
<1>2. /\ rpc' = [rpc EXCEPT ![q] = IF Head(queue[q]) = NULL THEN "reply" ELSE "merge"]
      /\ data' = [data EXCEPT ![q] = Head(queue[q])]
      /\ UNCHANGED <<topology, to_send, curr>>
  BY DEF SelectReceive, Selected, given
<1>3. /\ rpc \in [Router -> {"select", "merge", "reply", "cycle", "exited", "overrun"}]
      /\ data \in [Router -> Message]
  BY DEF TInv, FrameOK
<1> SUFFICES ASSUME NEW r \in Router, NEW n \in Router, NEW s \in Slot
             PROVE  /\ Queued(r, n, s)' => n \in Neighbours(r) /\ s = LastSent(r, n)
                    /\ Held(r, n, s)' =>
                         /\ n \in Neighbours(r)
                         /\ \/ s = LastSent(r, n)
                            \/ s = Before(LastSent(r, n)) /\ Queued(r, n, LastSent(r, n))'
  BY <1>2 DEF HandoverInv, Before, Neighbours, LastSent
<1>4. CASE n = q
  <2>1. ~Queued(r, n, s)'
    BY <1>1, <1>4 DEF Queued
  <2>2. Held(r, n, s)' => Queued(r, n, s)
    BY <1>1, <1>2, <1>3, <1>4 DEF Held, Queued
  <2> QED BY <2>1, <2>2 DEF HandoverInv
<1>5. CASE n # q
  <2>1. /\ Queued(r, n, s)' = Queued(r, n, s) /\ Held(r, n, s)' = Held(r, n, s)
        /\ Queued(r, n, LastSent(r, n))' = Queued(r, n, LastSent(r, n))
    BY <1>1, <1>2, <1>3, <1>5 DEF Queued, Held, LastSent
  <2> QED BY <2>1 DEF HandoverInv
<1> QED BY <1>4, <1>5

(* A send into the empty channel of q.                                     *)
LEMMA SelectSendH ==
  ASSUME TInv, HandoverInv, NEW a \in Router, SelectSend(a)
  PROVE  HandoverInv'
<1>1. PICK q \in to_send[a] :
        /\ Send(q, <<a, curr[a]>>)
        /\ to_send' = [to_send EXCEPT ![a] = @ \ {q}]
        /\ Selected(a, IF to_send[a] = {q} /\ changed[a] THEN "cycle" ELSE "select")
  BY DEF SelectSend
<1>2. /\ rpc \in [Router -> {"select", "merge", "reply", "cycle", "exited", "overrun"}]
      /\ to_send \in [Router -> SUBSET Router] /\ curr \in [Router -> Slot]
      /\ \A r \in Router : to_send[r] \subseteq Neighbours(r)
  BY DEF TInv, FrameOK, StatesOK
<1>3. q \in Router /\ q \in Neighbours(a) /\ q # a
  BY <1>2 DEF Neighbours
<1>4. /\ Len(queue[q]) = 0 /\ Len(queue'[q]) = 1 /\ queue'[q][1] = <<a, curr[a]>>
      /\ \A x \in Router : x # q => queue'[x] = queue[x]
  <2>1. q \in Every /\ <<a, curr[a]>> \in Message /\ QueueOK
    BY <1>2, <1>3 DEF TInv, Every, Message, Pointer
  <2> QED BY <1>1, <2>1, SendFacts DEF Every
<1>5. /\ \E then \in {"cycle", "select"} : rpc' = [rpc EXCEPT ![a] = then]
      /\ UNCHANGED <<topology, data, curr>>
  BY <1>1 DEF SelectSend, Selected, given
<1>6. /\ LastSent(a, q) = Before(curr[a]) /\ LastSent(a, q)' = curr[a]
      /\ \A r, n \in Router : r # a \/ n # q => LastSent(r, n)' = LastSent(r, n)
  BY <1>1, <1>2, <1>3, <1>5 DEF LastSent, Before
<1> SUFFICES ASSUME NEW r \in Router, NEW n \in Router, NEW s \in Slot
             PROVE  /\ Queued(r, n, s)' => n \in Neighbours(r) /\ s = LastSent(r, n)'
                    /\ Held(r, n, s)' =>
                         /\ n \in Neighbours(r)
                         /\ \/ s = LastSent(r, n)'
                            \/ s = Before(LastSent(r, n)') /\ Queued(r, n, LastSent(r, n))'
  BY <1>5 DEF HandoverInv, Before, Neighbours
<1>7. Held(r, n, s)' => Held(r, n, s)
  BY <1>2, <1>5 DEF Held
<1>8. CASE n = q
  <2>1. Held(r, n, s) => n \in Neighbours(r) /\ s = LastSent(r, n)
    BY <1>4, <1>8 DEF HandoverInv, Queued
  <2>2. CASE r = a
    <3>1. Queued(r, n, s)' => s = LastSent(r, n)'
      BY <1>4, <1>6, <1>8, <2>2 DEF Queued
    <3>2. Queued(r, n, LastSent(r, n))'
      BY <1>4, <1>6, <1>8, <2>2 DEF Queued
    <3>3. Held(r, n, s)' => s = Before(LastSent(r, n)')
      BY <1>6, <1>7, <1>8, <2>1, <2>2
    <3> QED BY <1>3, <1>8, <2>2, <3>1, <3>2, <3>3
  <2>3. CASE r # a
    <3>1. ~Queued(r, n, s)'
      BY <1>4, <1>8, <2>3 DEF Queued
    <3> QED BY <1>6, <1>7, <2>1, <2>3, <3>1
  <2> QED BY <2>2, <2>3
<1>9. CASE n # q
  <2>1. /\ Queued(r, n, s)' = Queued(r, n, s) /\ LastSent(r, n)' = LastSent(r, n)
        /\ Queued(r, n, LastSent(r, n))' = Queued(r, n, LastSent(r, n))
    BY <1>4, <1>6, <1>9 DEF Queued
  <2> QED BY <1>7, <2>1 DEF HandoverInv
<1> QED BY <1>8, <1>9

(* The special message goes into an empty channel, too.                    *)
LEMMA FlushH ==
  ASSUME TInv, HandoverInv, Flush
  PROVE  HandoverInv'
<1>1. i \in Router /\ i \in Every /\ NULL \in Message /\ QueueOK /\ Send(i, NULL)
  BY DEF Every, TInv, MainOK, Message, Flush
<1>2. /\ Len(queue[i]) = 0 /\ queue'[i][1] = NULL
      /\ \A x \in Router : x # i => queue'[x] = queue[x]
  BY <1>1, SendFacts DEF Every
<1>3. UNCHANGED <<topology, rpc, data, to_send, curr>>
  BY DEF Flush, given, routerVars
<1> SUFFICES ASSUME NEW r \in Router, NEW n \in Router, NEW s \in Slot
             PROVE  /\ Queued(r, n, s)' => n \in Neighbours(r) /\ s = LastSent(r, n)
                    /\ Held(r, n, s) =>
                         /\ n \in Neighbours(r)
                         /\ \/ s = LastSent(r, n)
                            \/ s = Before(LastSent(r, n)) /\ Queued(r, n, LastSent(r, n))'
  BY <1>3 DEF HandoverInv, Before, Neighbours, LastSent, Held
<1>4. CASE n = i
  <2>1. NULL # <<r, s>>
    BY StressAssumption DEF Slot
  <2>2. ~Queued(r, n, s)'
    BY <1>2, <1>4, <2>1 DEF Queued
  <2>3. Held(r, n, s) => n \in Neighbours(r) /\ s = LastSent(r, n)
    BY <1>2, <1>4 DEF HandoverInv, Queued
  <2> QED BY <2>2, <2>3
<1>5. CASE n # i
  <2>1. /\ Queued(r, n, s)' = Queued(r, n, s)
        /\ Queued(r, n, LastSent(r, n))' = Queued(r, n, LastSent(r, n))
    BY <1>2, <1>3, <1>5 DEF Queued, LastSent
  <2> QED BY <2>1 DEF HandoverInv
<1> QED BY <1>4, <1>5

(* Every step keeps HandoverInv.                                           *)
LEMMA StepHandover == TInv /\ TInv' /\ HandoverInv /\ [Next]_vars => HandoverInv'
<1> SUFFICES ASSUME TInv, TInv', HandoverInv, [Next]_vars PROVE HandoverInv'
  OBVIOUS
<1>1. ASSUME \A n \in Router : queue'[n] = queue[n], UNCHANGED <<given, routerVars>>
      PROVE  HandoverInv'
  <2>1. UNCHANGED topology /\ \A r, n \in Router : LastSent(r, n)' = LastSent(r, n)
    BY <1>1 DEF given, routerVars, LastSent, Before
  <2>2. \A n, r \in Router, s \in Slot : Held(r, n, s)' => Held(r, n, s)
    BY <1>1 DEF routerVars, Held
  <2> QED BY <1>1, <2>1, <2>2, HandoverKept
<1>2. CASE run_stress
  <2>1. CASE Flush
    BY <2>1, FlushH
  <2>2. CASE Collect
    <3>1. Completed \in Every /\ QueueOK /\ Receive(Completed)
      BY <2>2 DEF Every, TInv, Collect
    <3>2. \A n \in Router : queue'[n] = queue[n]
      BY <3>1, ReceiveFacts, RouterFacts DEF Every
    <3> QED BY <1>1, <2>2, <3>2 DEF Collect
  <2>3. CASE Retry \/ Verify \/ CloseDone \/ Join
    BY <1>1, <2>3 DEF Retry, Verify, CloseDone, Join
  <2> QED BY <1>2, <2>1, <2>2, <2>3 DEF run_stress
<1>3. ASSUME NEW a \in Router, router(a)
      PROVE  HandoverInv'
  <2>1. CASE SelectWorks /\ SelectReceive(a)
    BY <2>1, SelectReceiveH
  <2>2. CASE SelectWorks /\ SelectSend(a)
    BY <2>2, SelectSendH
  <2>3. CASE SelectWorks /\ SelectClosed(a)
    <3>1. UNCHANGED <<topology, queue, data, to_send, curr>> /\ rpc' = [rpc EXCEPT ![a] = "exited"]
      BY <2>3 DEF SelectClosed, Selected, given
    <3>2. \A r, n \in Router : LastSent(r, n)' = LastSent(r, n)
      BY <3>1 DEF LastSent, Before
    <3>3. \A n, r \in Router, s \in Slot : Held(r, n, s)' => Held(r, n, s)
      BY <3>1 DEF Held, TInv, FrameOK
    <3> QED BY <3>1, <3>2, <3>3, HandoverKept
  <2>4. CASE ~SelectWorks
    <3>1. (TInv /\ ~SelectWorks => HandoverInv)'
      BY StubHandover, PTL
    <3> QED BY <2>4, <3>1
  <2>5. CASE Cycle(a)
    BY <2>5, EndIterationHandover DEF Cycle, given
  <2>6. CASE Merge(a)
    <3>1. \A x \in Router : x # a => data'[x] = data[x]
      BY <2>6 DEF Merge, TInv, FrameOK
    <3> QED BY <2>6, <3>1, EndIterationHandover DEF Merge, given
  <2>7. CASE Reply(a)
    <3>1. PICK m \in Message : Send(Completed, m)
      BY <2>7 DEF TInv, StatesOK, Reply, Message, Pointer
    <3>2. \A n \in Router : queue'[n] = queue[n]
      BY <3>1, SendFacts, RouterFacts DEF TInv, Every
    <3> QED BY <2>7, <3>2, EndIterationHandover DEF Reply, given
  <2> QED BY <1>3, <2>1, <2>2, <2>3, <2>4, <2>5, <2>6, <2>7 DEF router, channel_select
<1>4. CASE UNCHANGED vars
  BY <1>1, <1>4 DEF vars
<1> QED BY <1>2, <1>3, <1>4 DEF Next, Terminated

(* At first nothing is under way.                                          *)
LEMMA InitHandover == Init => HandoverInv
BY EmptySeq DEF Init, HandoverInv, Queued, Held

(* The state that a router writes to is in no channel and in no            *)
(* neighbour's hands.  Four states are enough because no channel holds     *)
(* more than one message.                                                  *)
THEOREM StatesPrivate == Spec => []NextStatePrivate
<1>1. TInv /\ HandoverInv => NextStatePrivate
  <2> SUFFICES ASSUME TInv, HandoverInv, NEW r \in Router
               PROVE  /\ \A c \in Router : \A k \in DOMAIN queue[c] : queue[c][k] # <<r, next(r)>>
                      /\ \A n \in Router : rpc[n] = "merge" => data[n] # <<r, next(r)>>
    BY DEF NextStatePrivate
  <2>1. curr[r] \in Slot /\ next(r) \in Slot
    BY Circle DEF TInv, StatesOK, next
  <2>2. ASSUME NEW n \in Router
        PROVE  next(r) \notin {LastSent(r, n), Before(LastSent(r, n))}
    BY <2>1, CircleBack DEF LastSent, next
  <2>3. ASSUME NEW c \in Router, NEW k \in DOMAIN queue[c], queue[c][k] = <<r, next(r)>>
        PROVE  FALSE
    <3>1. queue[c] \in Seq(Message) /\ Len(queue[c]) <= 1
      BY DEF TInv, QueueOK, Every
    <3>2. Len(queue[c]) \in Nat /\ k \in 1 .. Len(queue[c])
      BY <3>1, LenProperties
    <3>3. k = 1 /\ Len(queue[c]) = 1
      BY <3>1, <3>2, AtMostOne
    <3> QED BY <2>1, <2>2, <2>3, <3>3 DEF HandoverInv, Queued
  <2>4. ASSUME NEW n \in Router, rpc[n] = "merge", data[n] = <<r, next(r)>>
        PROVE  FALSE
    BY <2>1, <2>2, <2>4 DEF HandoverInv, Held
  <2> QED BY <2>3, <2>4
<1>2. TInv /\ HandoverInv /\ [Next]_vars => (TInv /\ HandoverInv)'
  BY StepTInv, StepHandover
<1> QED BY <1>1, <1>2, InitTInv, InitHandover, PTL DEF Spec
=============================================================================
