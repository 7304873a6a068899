-------------------------- MODULE AcceptanceProofs --------------------------
(***************************************************************************)
(* Proofs about check_done of stress.c for any network: what it accepts    *)
(* when channel_select works, and that it accepts nothing with the stub.   *)
(***************************************************************************)
EXTENDS StressProofs

-----------------------------------------------------------------------------
(***************************************************************************)
(* With the stub of channel_select no router receives.  The channel of the *)
(* first router is full once the first NULL is in it, so there is no       *)
(* second round, and no second call of check_done gets anywhere.           *)
(***************************************************************************)
StubInv ==
  /\ main \in {"flush", "collect", "usleep", "abort"}
  /\ main \in {"flush", "collect"} /\ round = 2 => main = "flush" /\ i = 0
  /\ \/ main \in {"collect", "usleep"}
     \/ main = "flush" /\ (round = 2 \/ i # 0)
     => Len(queue[0]) = 1

(* check_done sends NULL to a router whose channel is empty.               *)
LEMMA FlushStub == TInv /\ StubInv /\ Flush => StubInv'
<1> SUFFICES ASSUME TInv, StubInv, Flush PROVE StubInv'
  OBVIOUS
<1>1. i \in Every /\ NULL \in Message /\ QueueOK /\ MainOK /\ Send(i, NULL)
  BY DEF Every, TInv, MainOK, Message, Flush
<1>2. /\ Len(queue[i]) = 0 /\ Len(queue'[i]) = 1
      /\ \A x \in Router : x # i => queue'[x] = queue[x]
  BY <1>1, SendFacts DEF Every
<1>3. main = "flush" /\ main' \in {"flush", "collect"} /\ round' = round
  BY DEF Flush, Iterate
<1>4. Len(queue'[0]) = 1
  BY <1>1, <1>2, <1>3, RouterFacts DEF StubInv, MainOK
<1>5. round # 2
  BY <1>2, <1>3 DEF StubInv
<1> QED BY <1>3, <1>4, <1>5 DEF StubInv

(* check_done receives an answer in the first round.                       *)
LEMMA CollectStub == TInv /\ StubInv /\ Collect => StubInv'
<1> SUFFICES ASSUME TInv, StubInv, Collect PROVE StubInv'
  OBVIOUS
<1>1. Completed \in Every /\ QueueOK /\ MainOK /\ Receive(Completed)
  BY DEF Every, TInv, Collect
<1>2. \A x \in Router : queue'[x] = queue[x]
  BY <1>1, ReceiveFacts, RouterFacts DEF Every
<1>3. Len(queue'[0]) = 1
  BY <1>2, RouterFacts DEF StubInv, Collect
<1>4. main = "collect" /\ round = 1
  BY <1>1 DEF StubInv, Collect, MainOK
<1>5. Iterate("collect", AfterRound(valid'))
  BY DEF Collect
<1>6. \/ main' = "collect" /\ round' = 1
      \/ main' = "usleep"
      \/ main' = "flush" /\ i' = 0
  BY <1>4, <1>5 DEF Collect, Iterate, AfterRound
<1> QED BY <1>3, <1>6 DEF StubInv

(* With the stub of channel_select check_done never accepts: whatever the  *)
(* uninitialised selected_index holds, on whatever network.                *)
THEOREM StubNeverAccepts == ~SelectWorks => (Spec => []NeverAccepted)
<1> SUFFICES ASSUME ~SelectWorks PROVE Spec => []NeverAccepted
  OBVIOUS
<1>1. Init => StubInv
  BY DEF Init, StubInv
<1>2. TInv /\ StubInv /\ [Next]_vars => StubInv'
  <2> SUFFICES ASSUME TInv, StubInv, [Next]_vars PROVE StubInv'
    OBVIOUS
  <2>1. CASE run_stress
    <3>1. CASE Retry
      BY <3>1 DEF StubInv, Retry
    <3>2. ~Verify /\ ~CloseDone /\ ~Join
      BY DEF StubInv, Verify, CloseDone, Join, Iterate
    <3> QED BY <2>1, <3>1, <3>2, FlushStub, CollectStub DEF run_stress
  <2>2. ASSUME NEW r \in Router, router(r)
        PROVE  StubInv'
    <3>1. UNCHANGED <<round, i>> /\ main' \in {main, "abort"}
      BY <2>2 DEF router, channel_select, SelectStub, Cycle, Merge, Reply, Abort, mainVars
    <3>2. queue'[0] = queue[0]
      <4>1. CASE channel_select(r)
        BY <4>1 DEF channel_select, SelectStub
      <4>2. CASE Cycle(r) \/ Merge(r)
        BY <4>2 DEF Cycle, Merge
      <4>3. CASE Reply(r)
        <5>1. PICK m \in Message : Send(Completed, m)
          BY <4>3 DEF TInv, StatesOK, Reply, Message, Pointer
        <5> QED BY <5>1, SendFacts, RouterFacts DEF TInv, Every
      <4> QED BY <2>2, <4>1, <4>2, <4>3 DEF router
    <3> QED BY <3>1, <3>2 DEF StubInv
  <2>3. CASE UNCHANGED vars
    BY <2>3 DEF StubInv, vars, mainVars
  <2> QED BY <2>1, <2>2, <2>3 DEF Next, Terminated
<1>3. StubInv => NeverAccepted
  BY DEF StubInv, NeverAccepted
<1> QED BY <1>1, <1>2, <1>3, TypeInvariance, PTL DEF Spec

-----------------------------------------------------------------------------
(***************************************************************************)
(* What the vectors say of each other at any time.  What a router knows    *)
(* is no worse than its links, and what it has not been told by a          *)
(* neighbour is still on its way: to be sent, in its channel or in hand.   *)
(***************************************************************************)
LocalInv ==
  \A r \in Router :
    /\ ~changed[r] => dist[r][next(r)] = dist[r][curr[r]]
    /\ (rpc[r] = "cycle") <=> (to_send[r] = {} /\ changed[r])
    /\ \A d \in Router : /\ dist[r][curr[r]][d] <= topology[r][d]
                         /\ dist[r][next(r)][d] <= topology[r][d]

Told(a, b) ==
  \A d \in Router : dist[b][next(b)][d] <= topology[b][a] + dist[a][curr[a]][d]

NewsInv ==
  \A b \in Router : \A a \in Neighbours(b) :
    \/ b \in to_send[a] \/ Queued(a, b, curr[a]) \/ Held(a, b, curr[a])
    \/ Told(a, b)

(* The network does not change, and its links have two directions.         *)
GivenOK == \E n \in Networks : topology = n.topology /\ solution = n.solution

VectorInv == GivenOK /\ LocalInv /\ NewsInv

(* If b is a neighbour of a then a is a neighbour of b.                    *)
LEMMA TwoDirections ==
  ASSUME GivenOK, NEW a \in Router, NEW b \in Router, a \in Neighbours(b)
  PROVE  b \in Neighbours(a)
BY StressAssumption DEF GivenOK, Neighbours

(* The end of an iteration of one router, and what it is to the others.    *)
Kept(x) ==
  /\ rpc'[x] = rpc[x] /\ changed'[x] = changed[x] /\ to_send'[x] = to_send[x]
  /\ curr'[x] = curr[x] /\ dist'[x] = dist[x] /\ epoch'[x] = epoch[x]

Cycled(r, vector) ==
  /\ to_send[r] = {} /\ to_send'[r] = Neighbours(r) /\ ~changed'[r]
  /\ curr'[r] = next(r)
  /\ dist'[r][next(r)] = vector /\ dist'[r][After(next(r))] = vector
  /\ epoch'[r] = [epoch[r] EXCEPT ![After(next(r))] = epoch[r][next(r)] + 1]

Stayed(r, vector, better) ==
  /\ to_send'[r] = to_send[r] /\ changed'[r] = better
  /\ curr'[r] = curr[r]
  /\ dist'[r][next(r)] = vector /\ dist'[r][curr[r]] = dist[r][curr[r]]
  /\ epoch'[r] = epoch[r]

(* What the end of an iteration does to router r and to nobody else.       *)
LEMMA EndIterationEffect ==
  ASSUME TInv, NEW r \in Router, NEW vector \in [Router -> Distances],
         NEW better \in BOOLEAN, EndIteration(r, to_send[r], vector, better)
  PROVE  /\ \A x \in Router : x # r => Kept(x)
         /\ rpc'[r] = "select"
         /\ \/ better /\ Cycled(r, vector)
            \/ (to_send[r] # {} \/ ~better) /\ Stayed(r, vector, better)
<1> DEFINE cycle == to_send[r] = {} /\ better
           V == [Router -> Distances]
<1>1. /\ curr \in [Router -> Slot] /\ epoch \in [Router -> [Slot -> Nat]]
      /\ dist \in [Router -> [Slot -> V]]
      /\ DOMAIN rpc = Router /\ DOMAIN changed = Router /\ DOMAIN to_send = Router
  BY DEF TInv, StatesOK, FrameOK
<1> HIDE DEF V
<1>2. /\ next(r) \in Slot /\ After(next(r)) \in Slot
      /\ next(r) # curr[r] /\ After(next(r)) # next(r)
  BY <1>1, Circle DEF next
<1>3. vector \in V
  BY DEF V
<1>4. /\ rpc' = [rpc EXCEPT ![r] = "select"]
      /\ changed' = [changed EXCEPT ![r] = better /\ ~cycle]
      /\ to_send' = [to_send EXCEPT ![r] = IF cycle THEN Neighbours(r) ELSE to_send[r]]
  BY DEF EndIteration
<1>5. CASE cycle
  <2>1. /\ curr' = [curr EXCEPT ![r] = next(r)]
        /\ epoch' = [epoch EXCEPT ![r][After(next(r))] = epoch[r][next(r)] + 1]
        /\ dist' = [dist EXCEPT ![r] = [@ EXCEPT ![next(r)] = vector,
                                                 ![After(next(r))] = vector]]
    BY <1>5 DEF EndIteration
  <2>2. /\ changed'[r] = FALSE /\ to_send'[r] = Neighbours(r)
        /\ \A x \in Router : x # r => changed'[x] = changed[x] /\ to_send'[x] = to_send[x]
    BY <1>1, <1>4, <1>5
  <2> HIDE DEF cycle
  <2>3. \A x \in Router : x # r => rpc'[x] = rpc[x]
    BY <1>1, <1>4
  <2>4. rpc'[r] = "select"
    BY <1>1, <1>4
  <2>5. /\ curr'[r] = next(r) /\ epoch'[r] = [epoch[r] EXCEPT ![After(next(r))] = epoch[r][next(r)] + 1]
        /\ \A x \in Router : x # r => curr'[x] = curr[x] /\ epoch'[x] = epoch[x]
    BY <1>1, <2>1
  <2>6. /\ dist'[r][next(r)] = vector /\ dist'[r][After(next(r))] = vector
        /\ \A x \in Router : x # r => dist'[x] = dist[x]
    BY <1>1, <1>2, <1>3, <2>1
  <2>7. Cycled(r, vector)
    BY <1>5, <2>2, <2>5, <2>6 DEF cycle, Cycled
  <2>8. \A x \in Router : x # r => Kept(x)
    BY <2>2, <2>3, <2>5, <2>6 DEF Kept
  <2> QED BY <1>5, <2>4, <2>7, <2>8 DEF cycle
<1>6. CASE ~cycle
  <2>1. curr' = curr /\ epoch' = epoch /\ dist' = [dist EXCEPT ![r][next(r)] = vector]
    BY <1>6 DEF EndIteration
  <2>2. /\ changed'[r] = better /\ to_send'[r] = to_send[r]
        /\ \A x \in Router : x # r => changed'[x] = changed[x] /\ to_send'[x] = to_send[x]
    BY <1>1, <1>4, <1>6
  <2> HIDE DEF cycle
  <2>3. rpc'[r] = "select" /\ \A x \in Router : x # r => rpc'[x] = rpc[x]
    BY <1>1, <1>4
  <2>4. /\ dist'[r][next(r)] = vector /\ dist'[r][curr[r]] = dist[r][curr[r]]
        /\ \A x \in Router : x # r => dist'[x] = dist[x]
    BY <1>1, <1>2, <1>3, <2>1
  <2>5. Stayed(r, vector, better)
    BY <2>1, <2>2, <2>4 DEF Stayed
  <2>6. \A x \in Router : x # r => Kept(x)
    BY <2>1, <2>2, <2>3, <2>4 DEF Kept
  <2> QED BY <1>6, <2>3, <2>5, <2>6 DEF cycle
<1> QED BY <1>5, <1>6

(* A router only ever improves its next vector, and merges what it holds.  *)
LEMMA IterationVector ==
  ASSUME TInv, VectorInv, UNCHANGED given, NEW r \in Router, rpc[r] # "select",
         NEW vector \in [Router -> Distances], NEW better \in BOOLEAN,
         EndIteration(r, to_send[r], vector, better),
         \A d \in Router : vector[d] <= dist[r][next(r)][d],
         ~better => ~changed[r] /\ vector = dist[r][next(r)],
         \A a \in Router : Held(a, r, curr[a]) =>
           \A d \in Router : vector[d] <= topology[r][a] + dist[a][curr[a]][d],
         \A x \in Router : x # r => data'[x] = data[x],
         \A n \in Router : queue'[n] = queue[n]
  PROVE  VectorInv'
<1>1. /\ \A x \in Router : x # r => Kept(x)
      /\ rpc'[r] = "select"
      /\ \/ better /\ Cycled(r, vector)
         \/ (to_send[r] # {} \/ ~better) /\ Stayed(r, vector, better)
  BY EndIterationEffect
<1>2. UNCHANGED <<topology, solution>>
  BY DEF given
<1>3. GivenOK'
  BY <1>2 DEF VectorInv, GivenOK
<1>4. dist'[r][next(r)'] = vector
  BY <1>1 DEF next, Cycled, Stayed
<1>5. LocalInv'
  <2> SUFFICES ASSUME NEW x \in Router
               PROVE  /\ ~changed'[x] => dist'[x][next(x)'] = dist'[x][curr'[x]]
                      /\ (rpc'[x] = "cycle") <=> (to_send'[x] = {} /\ changed'[x])
                      /\ \A d \in Router : /\ dist'[x][curr'[x]][d] <= topology[x][d]
                                           /\ dist'[x][next(x)'][d] <= topology[x][d]
    BY <1>2 DEF LocalInv
  <2>1. /\ ~changed[x] => dist[x][next(x)] = dist[x][curr[x]]
        /\ (rpc[x] = "cycle") <=> (to_send[x] = {} /\ changed[x])
        /\ \A d \in Router : /\ dist[x][curr[x]][d] <= topology[x][d]
                             /\ dist[x][next(x)][d] <= topology[x][d]
    BY DEF VectorInv, LocalInv
  <2>2. CASE x # r
    <3>1. Kept(x)
      BY <1>1, <2>2
    <3> QED BY <2>1, <3>1 DEF next, Kept
  <2>3. CASE x = r
    <3>1. \A d \in Router : vector[d] <= topology[r][d]
      <4>1. ASSUME NEW d \in Router PROVE vector[d] <= topology[r][d]
        <5>1. vector[d] \in Int /\ dist[r][next(r)][d] \in Int /\ topology[r][d] \in Int
          BY NextStateFacts DEF TInv, LinksOK, Matrix, Distances
        <5> QED BY <2>1, <2>3, <5>1
      <4> QED BY <4>1
    <3>2. CASE better /\ Cycled(r, vector)
      <4>1. dist'[r][curr'[r]] = vector
        BY <3>2 DEF Cycled
      <4>2. rpc'[x] # "cycle" /\ ~changed'[x]
        BY <1>1, <2>3, <3>2 DEF Cycled
      <4>3. (rpc'[x] = "cycle") <=> (to_send'[x] = {} /\ changed'[x])
        BY <4>2, Zenon
      <4>4. dist'[x][next(x)'] = vector /\ dist'[x][curr'[x]] = vector
        BY <1>4, <2>3, <4>1
      <4>5. \A d \in Router : /\ dist'[x][curr'[x]][d] <= topology[x][d]
                             /\ dist'[x][next(x)'][d] <= topology[x][d]
        BY <2>3, <3>1, <4>4
      <4> QED BY <4>3, <4>4, <4>5, Zenon
    <3>3. CASE (to_send[r] # {} \/ ~better) /\ Stayed(r, vector, better)
      <4>1. dist'[r][curr'[r]] = dist[r][curr[r]]
        BY <3>3 DEF Stayed
      <4>2. ~changed'[r] => dist'[r][next(r)'] = dist[r][curr[r]]
        BY <1>4, <2>1, <2>3, <3>3 DEF Stayed
      <4>3. rpc'[r] # "cycle" /\ ~(to_send'[r] = {} /\ changed'[r])
        BY <1>1, <3>3 DEF Stayed
      <4>4. \A d \in Router : dist'[r][next(r)'][d] <= topology[r][d]
        BY <1>4, <3>1
      <4> QED BY <2>1, <2>3, <4>1, <4>2, <4>3, <4>4
    <3> QED BY <1>1, <3>2, <3>3
  <2> QED BY <2>2, <2>3
<1>6. NewsInv'
  <2> SUFFICES ASSUME NEW b \in Router, NEW a \in Neighbours(b)
               PROVE  \/ b \in to_send'[a] \/ Queued(a, b, curr[a])' \/ Held(a, b, curr[a])'
                      \/ Told(a, b)'
    BY <1>2 DEF NewsInv, Neighbours
  <2>1. a \in Router /\ a # b
    BY DEF Neighbours
  <2>2. \/ b \in to_send[a] \/ Queued(a, b, curr[a]) \/ Held(a, b, curr[a]) \/ Told(a, b)
    BY DEF VectorInv, NewsInv
  <2>3. CASE a = r /\ Cycled(r, vector)
    BY <2>1, <2>3, TwoDirections DEF VectorInv, Cycled
  <2>4. CASE ~(a = r /\ Cycled(r, vector))
    <3>1. to_send'[a] = to_send[a] /\ curr'[a] = curr[a] /\ dist'[a][curr'[a]] = dist[a][curr[a]]
      BY <1>1, <2>1, <2>4 DEF Kept, Stayed
    <3>2. Queued(a, b, curr[a])' = Queued(a, b, curr[a])
      BY <3>1 DEF Queued
    <3>3. CASE b # r
      <4>1. Kept(b) /\ data'[b] = data[b]
        BY <1>1, <3>3
      <4>2. Held(a, b, curr[a])' = Held(a, b, curr[a])
        BY <3>1, <4>1 DEF Held, Kept
      <4>3. Told(a, b)' = Told(a, b)
        BY <1>2, <3>1, <4>1 DEF Told, next, Kept
      <4> QED BY <2>2, <3>1, <3>2, <4>2, <4>3
    <3>4. CASE b = r
      <4>1. ASSUME Told(a, b) PROVE Told(a, b)'
        <5> SUFFICES ASSUME NEW d \in Router
                     PROVE  vector[d] <= topology[r][a] + dist[a][curr[a]][d]
          BY <1>2, <1>4, <3>1, <3>4 DEF Told
        <5>1. dist[r][next(r)][d] <= topology[r][a] + dist[a][curr[a]][d]
          BY <3>4, <4>1 DEF Told
        <5>2. /\ vector[d] \in Int /\ dist[r][next(r)][d] \in Int
              /\ topology[r][a] \in Int /\ dist[a][curr[a]][d] \in Int
          BY <2>1, NextStateFacts DEF TInv, LinksOK, Matrix, StatesOK, Distances
        <5> QED BY <5>1, <5>2
      <4>2. ASSUME Held(a, b, curr[a]) PROVE Told(a, b)'
        <5>1. \A d \in Router : vector[d] <= topology[r][a] + dist[a][curr[a]][d]
          BY <2>1, <3>4, <4>2
        <5> QED BY <1>2, <1>4, <3>1, <3>4, <5>1 DEF Told
      <4> QED BY <2>2, <3>1, <3>2, <4>1, <4>2
    <3> QED BY <3>3, <3>4
  <2> QED BY <2>3, <2>4
<1> QED BY <1>3, <1>5, <1>6 DEF VectorInv

(* What router r merges, and what comes of it.                             *)
Merged(r) ==
  Improved(dist[r][next(r)],
           [d \in Router |-> Plus(topology[r][data[r][1]], dist[data[r][1]][data[r][2]][d])])

LEMMA MergedFacts ==
  ASSUME TInv, NEW r \in Router, rpc[r] = "merge"
  PROVE  /\ data[r] \in Pointer
         /\ Merged(r) \in [Router -> Distances]
         /\ \A d \in Router :
              /\ Merged(r)[d] <= dist[r][next(r)][d]
              /\ Merged(r)[d] <= topology[r][data[r][1]] + dist[data[r][1]][data[r][2]][d]
<1> DEFINE n == data[r][1]
           s == data[r][2]
           new == [d \in Router |-> Plus(topology[r][n], dist[n][s][d])]
<1>1. data[r] \in Pointer /\ n \in Router /\ s \in Slot
  BY DEF TInv, FrameOK, Pointer
<1>2. Merged(r) \in [Router -> Distances]
  <2> DEFINE merged == Improved(dist[r][next(r)], new)
  <2>1. merged \in [Router -> Distances] /\ \A d \in Router : solution[r][d] <= merged[d]
    BY <1>1, MergeSound
  <2>2. Merged(r) = merged
    BY DEF Merged
  <2> QED BY <2>1, <2>2
<1>3. ASSUME NEW d \in Router
      PROVE  /\ Merged(r)[d] <= dist[r][next(r)][d]
             /\ Merged(r)[d] <= topology[r][n] + dist[n][s][d]
  <2>1. dist[r][next(r)][d] \in Int
    BY NextStateFacts DEF Distances
  <2>2. topology[r][n] \in Distances /\ dist[n][s][d] \in Distances
    BY <1>1 DEF TInv, LinksOK, Matrix, StatesOK
  <2>3. new[d] = topology[r][n] + dist[n][s][d] /\ new[d] \in Nat
    BY <2>2, PlusExact
  <2>4. Merged(r)[d] = IF new[d] < dist[r][next(r)][d] THEN new[d] ELSE dist[r][next(r)][d]
    BY DEF Merged, Improved
  <2> HIDE DEF new
  <2> QED BY <2>1, <2>3, <2>4
<1> QED BY <1>1, <1>2, <1>3

(* The end of an iteration keeps VectorInv.                                *)
LEMMA CycleReplyVector ==
  ASSUME TInv, VectorInv, NEW r \in Router, Cycle(r) \/ Reply(r)
  PROVE  VectorInv'
<1>1. /\ rpc[r] \in {"cycle", "reply"} /\ UNCHANGED given /\ data' = data
      /\ EndIteration(r, to_send[r], dist[r][next(r)], changed[r])
  BY DEF Cycle, Reply
<1>2. \A n \in Router : queue'[n] = queue[n]
  <2>1. CASE Reply(r)
    <3>1. PICK m \in Message : Send(Completed, m)
      BY <2>1 DEF TInv, StatesOK, Reply, Message, Pointer
    <3> QED BY <3>1, SendFacts, RouterFacts DEF TInv, Every
  <2> QED BY <2>1 DEF Cycle
<1>3. \A a \in Router : ~Held(a, r, curr[a])
  BY <1>1 DEF Held
<1>4. /\ dist[r][next(r)] \in [Router -> Distances] /\ changed[r] \in BOOLEAN
      /\ \A d \in Router : dist[r][next(r)][d] <= dist[r][next(r)][d]
  BY NextStateFacts DEF Distances
<1> QED BY <1>1, <1>2, <1>3, <1>4, IterationVector

(* Merging keeps VectorInv: this is where news arrive.                     *)
LEMMA MergeVector ==
  ASSUME TInv, VectorInv, NEW r \in Router, Merge(r)
  PROVE  VectorInv'
<1>1. /\ rpc[r] = "merge" /\ UNCHANGED given /\ queue' = queue
      /\ data' = [data EXCEPT ![r] = NULL]
      /\ EndIteration(r, to_send[r], Merged(r), changed[r] \/ Merged(r) # dist[r][next(r)])
  BY DEF Merge, Merged
<1>2. \A x \in Router : x # r => data'[x] = data[x]
  BY <1>1 DEF TInv, FrameOK
<1>3. (changed[r] \/ Merged(r) # dist[r][next(r)]) \in BOOLEAN
  OBVIOUS
<1>4. /\ Merged(r) \in [Router -> Distances]
      /\ \A d \in Router : Merged(r)[d] <= dist[r][next(r)][d]
  BY <1>1, MergedFacts
<1>5. ASSUME NEW a \in Router, Held(a, r, curr[a])
      PROVE  \A d \in Router : Merged(r)[d] <= topology[r][a] + dist[a][curr[a]][d]
  <2>1. data[r][1] = a /\ data[r][2] = curr[a]
    BY <1>5 DEF Held
  <2> QED BY <1>1, <2>1, MergedFacts
<1> QED BY <1>1, <1>2, <1>3, <1>4, <1>5, IterationVector

(* A step that writes no vector keeps what the vectors say.                *)
LEMMA VectorKept ==
  ASSUME VectorInv, UNCHANGED <<given, changed, curr, dist>>,
         \A x \in Router : (rpc'[x] = "cycle") <=> (to_send'[x] = {} /\ changed[x]),
         \A b \in Router : \A a \in Neighbours(b) :
           b \in to_send[a] \/ Queued(a, b, curr[a]) \/ Held(a, b, curr[a]) =>
           b \in to_send'[a] \/ Queued(a, b, curr[a])' \/ Held(a, b, curr[a])'
  PROVE  VectorInv'
<1>1. UNCHANGED <<topology, solution>>
  BY DEF given
<1>2. GivenOK'
  BY <1>1 DEF VectorInv, GivenOK
<1>3. LocalInv'
  BY <1>1 DEF VectorInv, LocalInv, next
<1>4. NewsInv'
  <2>1. \A a, b \in Router : Told(a, b)' = Told(a, b) /\ Neighbours(b)' = Neighbours(b)
    BY <1>1 DEF Told, next, Neighbours
  <2> QED BY <2>1 DEF VectorInv, NewsInv, Neighbours
<1> QED BY <1>2, <1>3, <1>4 DEF VectorInv

(* What is in the channel of q is in its hands then.                       *)
LEMMA SelectReceiveVector ==
  ASSUME TInv, VectorInv, NEW q \in Router, SelectReceive(q)
  PROVE  VectorInv'
<1>1. /\ Len(queue[q]) = 1 /\ Head(queue[q]) = queue[q][1]
      /\ \A x \in Router : x # q => queue'[x] = queue[x]
  BY ReceiveFacts DEF TInv, Every, SelectReceive
<1>2. /\ rpc[q] = "select"
      /\ rpc' = [rpc EXCEPT ![q] = IF Head(queue[q]) = NULL THEN "reply" ELSE "merge"]
      /\ data' = [data EXCEPT ![q] = Head(queue[q])]
      /\ UNCHANGED <<given, to_send, changed, curr, dist>>
  BY DEF SelectReceive, Selected
<1>3. DOMAIN rpc = Router /\ DOMAIN data = Router
  BY DEF TInv, FrameOK
<1>4. \A x \in Router : (rpc'[x] = "cycle") <=> (to_send'[x] = {} /\ changed[x])
  BY <1>2, <1>3 DEF VectorInv, LocalInv
<1>5. ASSUME NEW b \in Router, NEW a \in Neighbours(b)
      PROVE  Queued(a, b, curr[a]) => Queued(a, b, curr[a])' \/ Held(a, b, curr[a])'
  <2>1. CASE b = q
    <3>1. <<a, curr[a]>> # NULL
      BY StressAssumption DEF TInv, StatesOK, Slot, Neighbours
    <3> QED BY <1>1, <1>2, <1>3, <2>1, <3>1 DEF Queued, Held
  <2>2. CASE b # q
    BY <1>1, <1>2, <2>2 DEF Queued
  <2> QED BY <2>1, <2>2
<1>6. ASSUME NEW b \in Router, NEW a \in Neighbours(b)
      PROVE  Held(a, b, curr[a]) => Held(a, b, curr[a])'
  BY <1>2, <1>3 DEF Held
<1> QED BY <1>2, <1>4, <1>5, <1>6, VectorKept

(* What router p had to send to n is in the channel of n then.             *)
LEMMA SelectSendVector ==
  ASSUME TInv, VectorInv, NEW p \in Router, SelectSend(p)
  PROVE  VectorInv'
<1>1. PICK n \in to_send[p] :
        /\ Send(n, <<p, curr[p]>>)
        /\ to_send' = [to_send EXCEPT ![p] = @ \ {n}]
        /\ Selected(p, IF to_send[p] = {n} /\ changed[p] THEN "cycle" ELSE "select")
  BY DEF SelectSend
<1>2. /\ UNCHANGED <<given, data, changed, curr, dist>>
      /\ rpc[p] = "select"
      /\ rpc' = [rpc EXCEPT ![p] = IF to_send[p] = {n} /\ changed[p] THEN "cycle" ELSE "select"]
  BY <1>1 DEF SelectSend, Selected
<1>3. DOMAIN rpc = Router /\ DOMAIN to_send = Router /\ n \in Router
  BY DEF TInv, FrameOK
<1>4. /\ Len(queue[n]) = 0 /\ Len(queue'[n]) = 1 /\ queue'[n][1] = <<p, curr[p]>>
      /\ \A x \in Router : x # n => queue'[x] = queue[x]
  <2>1. n \in Every /\ <<p, curr[p]>> \in Message /\ QueueOK
    BY <1>3 DEF TInv, StatesOK, Every, Message, Pointer
  <2> QED BY <1>1, <2>1, SendFacts DEF Every
<1>5. \A x \in Router : (rpc'[x] = "cycle") <=> (to_send'[x] = {} /\ changed[x])
  <2> SUFFICES ASSUME NEW x \in Router
               PROVE  (rpc'[x] = "cycle") <=> (to_send'[x] = {} /\ changed[x])
    OBVIOUS
  <2>1. CASE x = p
    <3>1. (to_send'[p] = {}) <=> (to_send[p] = {n})
      BY <1>1, <1>3
    <3> QED BY <1>2, <1>3, <2>1, <3>1
  <2>2. CASE x # p
    BY <1>1, <1>2, <1>3, <2>2 DEF VectorInv, LocalInv
  <2> QED BY <2>1, <2>2
<1>6. ASSUME NEW b \in Router, NEW a \in Neighbours(b)
      PROVE  /\ b \in to_send[a] => b \in to_send'[a] \/ Queued(a, b, curr[a])'
             /\ Queued(a, b, curr[a]) => Queued(a, b, curr[a])'
             /\ Held(a, b, curr[a]) => Held(a, b, curr[a])'
  <2>1. a \in Router
    BY DEF Neighbours
  <2>2. b \in to_send[a] => b \in to_send'[a] \/ Queued(a, b, curr[a])'
    BY <1>1, <1>2, <1>3, <1>4, <2>1 DEF Queued
  <2>3. Queued(a, b, curr[a]) => Queued(a, b, curr[a])'
    BY <1>2, <1>4 DEF Queued
  <2>4. Held(a, b, curr[a]) => Held(a, b, curr[a])'
    BY <1>2, <1>3 DEF Held
  <2> QED BY <2>2, <2>3, <2>4
<1> QED BY <1>2, <1>5, <1>6, VectorKept

(* Every step keeps what the vectors say of each other.                    *)
LEMMA StepVector ==
  TInv /\ VectorInv /\ SelectWorks /\ [Next]_vars => VectorInv'
<1> SUFFICES ASSUME TInv, VectorInv, SelectWorks, [Next]_vars PROVE VectorInv'
  OBVIOUS
<1>1. ASSUME UNCHANGED <<given, routerVars>>,
             \A b \in Router : Len(queue[b]) = 1 => queue'[b] = queue[b]
      PROVE  VectorInv'
  <2>1. UNCHANGED <<given, rpc, data, to_send, changed, curr, dist>>
    BY <1>1 DEF routerVars
  <2>2. \A x \in Router : (rpc'[x] = "cycle") <=> (to_send'[x] = {} /\ changed[x])
    BY <2>1 DEF VectorInv, LocalInv
  <2>3. \A b \in Router : \A a \in Neighbours(b) :
          b \in to_send[a] \/ Queued(a, b, curr[a]) \/ Held(a, b, curr[a]) =>
          b \in to_send'[a] \/ Queued(a, b, curr[a])' \/ Held(a, b, curr[a])'
    BY <1>1, <2>1 DEF Queued, Held
  <2> QED BY <2>1, <2>2, <2>3, VectorKept
<1>2. CASE run_stress
  <2>1. CASE Flush
    <3>1. i \in Router /\ i \in Every /\ NULL \in Message /\ QueueOK /\ Send(i, NULL)
      BY <2>1 DEF Every, TInv, MainOK, Message, Flush
    <3>2. \A b \in Router : Len(queue[b]) = 1 => queue'[b] = queue[b]
      BY <3>1, SendFacts DEF Every
    <3> QED BY <1>1, <2>1, <3>2 DEF Flush
  <2>2. CASE Collect
    <3>1. Completed \in Every /\ QueueOK /\ Receive(Completed)
      BY <2>2 DEF Every, TInv, Collect
    <3>2. \A n \in Router : queue'[n] = queue[n]
      BY <3>1, ReceiveFacts, RouterFacts DEF Every
    <3> QED BY <1>1, <2>2, <3>2 DEF Collect
  <2>3. CASE Retry \/ Verify \/ CloseDone \/ Join
    BY <1>1, <2>3 DEF Retry, Verify, CloseDone, Join
  <2> QED BY <1>2, <2>1, <2>2, <2>3 DEF run_stress
<1>3. ASSUME NEW r \in Router, router(r)
      PROVE  VectorInv'
  <2>1. CASE SelectClosed(r)
    <3>1. /\ UNCHANGED <<given, queue, data, to_send, changed, curr, dist>>
          /\ rpc[r] = "select" /\ rpc' = [rpc EXCEPT ![r] = "exited"] /\ DOMAIN rpc = Router
      BY <2>1 DEF SelectClosed, Selected, TInv, FrameOK
    <3>2. \A x \in Router : (rpc'[x] = "cycle") <=> (to_send'[x] = {} /\ changed[x])
      BY <3>1 DEF VectorInv, LocalInv
    <3>3. \A b \in Router : \A a \in Neighbours(b) :
            b \in to_send[a] \/ Queued(a, b, curr[a]) \/ Held(a, b, curr[a]) =>
            b \in to_send'[a] \/ Queued(a, b, curr[a])' \/ Held(a, b, curr[a])'
      BY <3>1 DEF Queued, Held
    <3> QED BY <3>1, <3>2, <3>3, VectorKept
  <2>2. CASE SelectReceive(r) \/ SelectSend(r)
    BY <2>2, SelectReceiveVector, SelectSendVector
  <2>3. CASE Cycle(r) \/ Merge(r) \/ Reply(r)
    BY <2>3, CycleReplyVector, MergeVector
  <2> QED BY <1>3, <2>1, <2>2, <2>3 DEF router, channel_select
<1>4. CASE UNCHANGED vars
  BY <1>1, <1>4 DEF vars
<1> QED BY <1>2, <1>3, <1>4 DEF Next, Terminated

(* At first everybody has his links to tell to all neighbours.             *)
LEMMA InitVector == Init => VectorInv
<1> SUFFICES ASSUME Init PROVE VectorInv
  OBVIOUS
<1>1. GivenOK
  BY DEF Init, GivenOK
<1>2. TInv
  BY InitTInv
<1>3. \A r \in Router : curr[r] = 2 /\ next(r) = 3 /\ dist[r][2] = topology[r] /\ dist[r][3] = topology[r]
  BY DEF Init, next, After, Slot
<1>4. LocalInv
  <2>1. \A r, d \in Router : topology[r][d] <= topology[r][d]
    BY <1>2 DEF TInv, LinksOK, Matrix, Distances
  <2>2. \A r \in Router : rpc[r] = "select" /\ ~changed[r]
    BY DEF Init
  <2> QED BY <1>3, <2>1, <2>2 DEF LocalInv
<1>5. NewsInv
  BY <1>1, TwoDirections DEF Init, NewsInv, Neighbours
<1> QED BY <1>1, <1>4, <1>5 DEF VectorInv

-----------------------------------------------------------------------------
(***************************************************************************)
(* At rest everybody has the solution.  Distances to d that no link        *)
(* improves are no longer than the solution, because their differences     *)
(* are a matrix below the topology without shortcuts.                      *)
(***************************************************************************)
LEMMA Potential ==
  ASSUME NEW t \in Matrix, NEW m \in Matrix, IsSolution(m, t),
         NEW d \in Router, NEW f \in [Router -> Distances],
         \A a \in Router : f[a] <= t[a][d],
         \A a, b \in Router : f[b] <= t[b][a] + f[a]
  PROVE  \A a \in Router : f[a] <= m[a][d]
<1> DEFINE diff(a, b) == IF b = d THEN f[a] ELSE IF f[a] > f[b] THEN f[a] - f[b] ELSE 0
           n == [a \in Router |-> [b \in Router |-> diff(a, b)]]
<1>1. \A a \in Router : f[a] \in Nat /\ f[a] <= inf_distance
  BY DistanceAssumption DEF Distances
<1>2. \A a, b \in Router : diff(a, b) \in Distances
  BY <1>1, DistanceAssumption DEF Distances
<1>3. n \in Matrix
  BY <1>2 DEF Matrix
<1>4. \A a, b \in Router : n[a][b] = diff(a, b)
  OBVIOUS
<1>5. Below(n, t)
  <2> SUFFICES ASSUME NEW a \in Router, NEW b \in Router PROVE diff(a, b) <= t[a][b]
    BY <1>4 DEF Below
  <2>1. t[a][b] \in Nat
    BY DEF Matrix, Distances
  <2>2. f[a] <= t[a][b] + f[b]
    OBVIOUS
  <2> QED BY <1>1, <2>1, <2>2
<1>6. NoShortcut(n)
  <2> SUFFICES ASSUME NEW a \in Router, NEW b \in Router, NEW c \in Router
               PROVE  diff(a, c) <= diff(a, b) + diff(b, c)
    BY <1>4 DEF NoShortcut
  <2> QED BY <1>1
<1>7. Below(n, m)
  BY <1>3, <1>5, <1>6 DEF IsSolution
<1>8. \A a \in Router : n[a][d] = f[a]
  BY <1>4
<1> QED BY <1>7, <1>8 DEF Below

(* The solution of a network is that of floyd_warshall, which              *)
(* FloydWarshallCorrect of TopologyProofs proves to be the solution.       *)
Solved == \A n \in Networks : IsSolution(n.solution, n.topology)

(* Nobody has anything to do but wait, to send or to merge.                *)
AtRest ==
  \A r \in Router : queue[r] = <<>> /\ to_send[r] = {} /\ ~changed[r]
                   /\ rpc[r] \in {"select", "exited"}

(* If all routers are at rest then each of them knows all distances.       *)
LEMMA RestSolution ==
  ASSUME TInv, VectorInv, Solved, AtRest
  PROVE  \A r \in Router : dist[r][curr[r]] = solution[r]
<1>1. topology \in Matrix /\ solution \in Matrix /\ IsSolution(solution, topology)
  BY DEF TInv, LinksOK, VectorInv, GivenOK, Solved
<1>2. \A r \in Router : dist[r][curr[r]] \in [Router -> Distances] /\ dist[r][next(r)] = dist[r][curr[r]]
  BY DEF TInv, StatesOK, VectorInv, LocalInv, AtRest
<1>3. ASSUME NEW b \in Router, NEW a \in Neighbours(b)
      PROVE  Told(a, b)
  <2>1. a \in Router /\ ~(b \in to_send[a])
    BY DEF Neighbours, AtRest
  <2>2. ~Queued(a, b, curr[a]) /\ ~Held(a, b, curr[a])
    BY EmptySeq DEF AtRest, Queued, Held
  <2> QED BY <2>1, <2>2 DEF VectorInv, NewsInv
<1>4. ASSUME NEW d \in Router
      PROVE  \A a \in Router : dist[a][curr[a]][d] <= solution[a][d]
  <2> DEFINE f == [a \in Router |-> dist[a][curr[a]][d]]
  <2>1. f \in [Router -> Distances]
    BY <1>2
  <2>2. \A a \in Router : f[a] <= topology[a][d]
    BY DEF VectorInv, LocalInv
  <2>3. ASSUME NEW a \in Router, NEW b \in Router
        PROVE  f[b] <= topology[b][a] + f[a]
    <3>1. f[a] \in Distances /\ f[b] \in Distances /\ topology[b][a] \in Distances
      BY <1>1, <2>1 DEF Matrix
    <3>2. CASE a = b
      BY <3>1, <3>2 DEF Distances
    <3>3. CASE topology[b][a] = inf_distance
      BY <3>1, <3>3, DistanceAssumption DEF Distances
    <3>4. CASE a \in Neighbours(b)
      <4>1. dist[b][next(b)][d] <= topology[b][a] + dist[a][curr[a]][d]
        BY <1>3, <3>4 DEF Told
      <4> QED BY <1>2, <4>1
    <3> QED BY <3>2, <3>3, <3>4 DEF Neighbours
  <2> HIDE DEF f
  <2>4. \A a \in Router : f[a] <= solution[a][d]
    BY <1>1, <2>1, <2>2, <2>3, Potential
  <2> QED BY <2>4 DEF f
<1> SUFFICES ASSUME NEW r \in Router PROVE dist[r][curr[r]] = solution[r]
  OBVIOUS
<1>5. \A d \in Router : dist[r][curr[r]][d] = solution[r][d]
  <2> SUFFICES ASSUME NEW d \in Router PROVE dist[r][curr[r]][d] = solution[r][d]
    OBVIOUS
  <2>1. solution[r][d] <= dist[r][curr[r]][d] /\ dist[r][curr[r]][d] <= solution[r][d]
    BY <1>4 DEF TInv, StatesOK, DistancesSound
  <2>2. solution[r][d] \in Int /\ dist[r][curr[r]][d] \in Int
    BY <1>1, <1>2 DEF Matrix, Distances
  <2> QED BY <2>1, <2>2
<1>6. solution[r] \in [Router -> Distances]
  BY <1>1 DEF Matrix
<1> QED BY <1>2, <1>5, <1>6

-----------------------------------------------------------------------------
(***************************************************************************)
(* check_done.  A router owes it an answer from the time NULL is in its    *)
(* channel until it has answered.                                          *)
(***************************************************************************)
Quiet(r) == to_send[r] = {} /\ ~changed[r]

HasNull(r) == Len(queue[r]) = 1 /\ queue[r][1] = NULL

Owes(r) == HasNull(r) \/ rpc[r] = "reply"

Owing == {r \in Router : Owes(r)}

Asking == main \in {"flush", "collect"}

Asked(r) == main = "collect" \/ (main = "flush" /\ r < i)

Answered(r) == Asked(r) /\ ~Owes(r)

Answer(m) == Len(queue[Completed]) = 1 /\ queue[Completed][1] = m

(* The answers that check_done has not received yet.                       *)
Due == IF main = "flush" THEN i ELSE IF main = "collect" THEN num_channel - i ELSE 0

TokenInv ==
  /\ \A r \in Router : Owes(r) => Asked(r)
  /\ \A r \in Router : ~(HasNull(r) /\ rpc[r] = "reply")
  /\ Cardinality(Owing) + Len(queue[Completed]) = Due
  /\ main = "usleep" => i = 0

(* Slots hold different epochs.                                            *)
EpochInv ==
  \A r \in Router :
    /\ epoch[r][Before(next(r))] = epoch[r][next(r)] - 1
    /\ epoch[r][Before(Before(next(r)))] = epoch[r][next(r)] - 2
    /\ epoch[r][After(next(r))] = epoch[r][next(r)] - 3

(* A router has not moved on from the state that it answered with.         *)
Unmoved(r) == completed[r] = <<r, curr[r]>>

(* The first round.  The state a router has answered with is quiet as long *)
(* as it is the current one.                                               *)
Vouched(r) ==
  \E s \in Slot :
    (completed[r] = <<r, s>> \/ Answer(<<r, s>>)) /\ (curr[r] = s => Quiet(r))

RoundOneInv ==
  Asking /\ round = 1 =>
    \A r \in Router :
      /\ completed[r] # NULL => Answered(r)
      /\ \A s \in Slot : Answer(<<r, s>>) => Answered(r) /\ completed[r] = NULL
      /\ Answered(r) => ~valid \/ Answer(NULL) \/ Vouched(r)

(* The second round.  Either it will fail, or nobody has moved and whoever *)
(* has answered has nothing left to read.                                  *)
Doomed ==
  \/ ~valid
  \/ Len(queue[Completed]) = 1 /\ \A r \in Router : queue[Completed][1] # completed[r]
  \/ \E r \in Router : ~Answered(r) /\ ~Unmoved(r)

Calm ==
  \A r \in Router :
    /\ Unmoved(r)
    /\ rpc[r] = "reply" \/ Answered(r) => queue[r] = <<>> /\ rpc[r] \in {"reply", "select"}

RoundTwoInv ==
  Asking /\ round = 2 =>
    /\ \A r \in Router : completed[r] # NULL
    /\ \A r \in Router : Unmoved(r) => Quiet(r)
    /\ Doomed \/ Calm

(* Whoever has accepted leaves a network at rest.                          *)
RestInv ==
  main \in {"verify", "close", "join", "end"} => AtRest /\ \A r \in Router : Unmoved(r)

EndInv ==
  /\ main # "abort"
  /\ closed => main \in {"join", "end"}
  /\ \A r \in Router : rpc[r] = "exited" => closed

AnswerInv == \A r \in Router : completed[r] = NULL \/ \E s \in Slot : completed[r] = <<r, s>>

CheckInv ==
  TokenInv /\ EpochInv /\ AnswerInv /\ RoundOneInv /\ RoundTwoInv /\ RestInv /\ EndInv

-----------------------------------------------------------------------------
(* What a step of router r is to check_done: unless it answers, or finds   *)
(* done_channel closed, it owes what it did before, and its current state  *)
(* stays as quiet as it was or is followed by the next one.                *)
Moves(r) ==
  /\ \A x \in Router : x # r =>
       /\ curr'[x] = curr[x] /\ to_send'[x] = to_send[x] /\ changed'[x] = changed[x]
       /\ rpc'[x] = rpc[x]
  /\ \/ curr'[r] = curr[r] /\ (Quiet(r) => Quiet(r)')
     \/ curr'[r] = next(r) /\ rpc[r] \in {"cycle", "merge"}

Silent(r) ==
  /\ UNCHANGED mainVars /\ queue'[Completed] = queue[Completed] /\ rpc'[r] # "exited"
  /\ \A x \in Router : Owes(x)' = Owes(x) /\ HasNull(x)' \in {HasNull(x), FALSE}
  /\ \A x \in Router : ~(HasNull(x)' /\ rpc'[x] = "reply")

Answers(r) ==
  /\ UNCHANGED mainVars
  /\ Len(queue[Completed]) = 0 /\ Len(queue'[Completed]) = 1
  /\ queue'[Completed][1] = IF Quiet(r) THEN <<r, curr[r]>> ELSE NULL
  /\ \A x \in Router : queue'[x] = queue[x]
  /\ rpc[r] = "reply" /\ rpc'[r] = "select"
  /\ curr'[r] = curr[r] /\ (Quiet(r) => Quiet(r)')

(* The end of an iteration moves router r.                                 *)
LEMMA IterationMoves ==
  ASSUME TInv, LocalInv, NEW r \in Router, rpc[r] \in {"cycle", "merge", "reply"},
         NEW vector \in [Router -> Distances], NEW better \in BOOLEAN,
         EndIteration(r, to_send[r], vector, better),
         rpc[r] = "reply" => better = changed[r],
         rpc[r] = "cycle" => better
  PROVE  /\ Moves(r) /\ rpc'[r] = "select"
         /\ rpc[r] = "reply" => curr'[r] = curr[r]
<1>1. /\ \A x \in Router : x # r => Kept(x)
      /\ rpc'[r] = "select"
      /\ \/ better /\ Cycled(r, vector)
         \/ (to_send[r] # {} \/ ~better) /\ Stayed(r, vector, better)
  BY EndIterationEffect
<1>2. \A x \in Router : x # r =>
        /\ curr'[x] = curr[x] /\ to_send'[x] = to_send[x] /\ changed'[x] = changed[x]
        /\ rpc'[x] = rpc[x]
  BY <1>1 DEF Kept
<1>3. CASE better /\ Cycled(r, vector)
  <2>1. to_send[r] = {} /\ curr'[r] = next(r)
    BY <1>3 DEF Cycled
  <2>2. rpc[r] # "reply"
    BY <1>3, <2>1 DEF LocalInv
  <2> QED BY <1>1, <1>2, <2>1, <2>2 DEF Moves
<1>4. CASE (to_send[r] # {} \/ ~better) /\ Stayed(r, vector, better)
  <2>1. curr'[r] = curr[r] /\ to_send'[r] = to_send[r] /\ changed'[r] = better
    BY <1>4 DEF Stayed
  <2>2. Quiet(r) => Quiet(r)'
    BY <1>4, <2>1 DEF Quiet
  <2> QED BY <1>1, <1>2, <2>1, <2>2 DEF Moves
<1> QED BY <1>1, <1>3, <1>4

(* Cycle and Merge.                                                        *)
LEMMA CycleMergeStep ==
  ASSUME TInv, HandoverInv, VectorInv, TokenInv, NEW r \in Router, Cycle(r) \/ Merge(r)
  PROVE  Moves(r) /\ Silent(r)
<1>1. CASE Cycle(r)
  <2>1. /\ rpc[r] = "cycle" /\ UNCHANGED <<queue, mainVars>> /\ changed[r]
        /\ EndIteration(r, to_send[r], dist[r][next(r)], changed[r])
    BY <1>1 DEF Cycle, VectorInv, LocalInv
  <2>2. dist[r][next(r)] \in [Router -> Distances] /\ changed[r] \in BOOLEAN
    BY NextStateFacts
  <2>3. Moves(r) /\ rpc'[r] = "select"
    BY <2>1, <2>2, IterationMoves DEF VectorInv
  <2>4. Silent(r)
    BY <2>1, <2>3 DEF Silent, Moves, Owes, HasNull, TokenInv
  <2> QED BY <2>3, <2>4
<1>2. CASE Merge(r)
  <2>1. /\ rpc[r] = "merge" /\ queue' = queue
        /\ EndIteration(r, to_send[r], Merged(r), changed[r] \/ Merged(r) # dist[r][next(r)])
        /\ IF topology[r][data[r][1]] = inf_distance THEN Abort ELSE UNCHANGED mainVars
    BY <1>2 DEF Merge, Merged
  <2>2. Merged(r) \in [Router -> Distances] /\ data[r] \in Pointer
    BY <2>1, MergedFacts
  <2>3. (changed[r] \/ Merged(r) # dist[r][next(r)]) \in BOOLEAN
    OBVIOUS
  <2>4. Moves(r) /\ rpc'[r] = "select"
    BY <2>1, <2>2, <2>3, IterationMoves DEF VectorInv
  <2>5. topology[r][data[r][1]] # inf_distance
    <3>1. PICK a \in Router, s \in Slot : data[r] = <<a, s>>
      BY <2>2 DEF Pointer
    <3>2. r \in Neighbours(a)
      BY <2>1, <3>1 DEF HandoverInv, Held
    <3>3. a \in Neighbours(r)
      BY <3>2, TwoDirections DEF VectorInv
    <3> QED BY <3>1, <3>3 DEF Neighbours
  <2>6. Silent(r)
    BY <2>1, <2>4, <2>5 DEF Silent, Moves, Owes, HasNull, TokenInv
  <2> QED BY <2>4, <2>6
<1> QED BY <1>1, <1>2

(* Reply.                                                                  *)
LEMMA ReplyStep ==
  ASSUME TInv, VectorInv, NEW r \in Router, Reply(r)
  PROVE  Moves(r) /\ Answers(r)
<1>1. /\ rpc[r] = "reply" /\ UNCHANGED mainVars
      /\ Send(Completed, IF Quiet(r) THEN <<r, curr[r]>> ELSE NULL)
      /\ EndIteration(r, to_send[r], dist[r][next(r)], changed[r])
  BY DEF Reply, Quiet
<1>2. dist[r][next(r)] \in [Router -> Distances] /\ changed[r] \in BOOLEAN
  BY NextStateFacts
<1>3. Moves(r) /\ rpc'[r] = "select" /\ curr'[r] = curr[r]
  BY <1>1, <1>2, IterationMoves DEF VectorInv
<1>4. next(r) # curr[r]
  BY Circle DEF TInv, StatesOK, next
<1>5. Quiet(r) => Quiet(r)'
  BY <1>3, <1>4 DEF Moves
<1>6. (IF Quiet(r) THEN <<r, curr[r]>> ELSE NULL) \in Message
  BY DEF TInv, StatesOK, Message, Pointer
<1>7. /\ Len(queue[Completed]) = 0 /\ Len(queue'[Completed]) = 1
      /\ queue'[Completed][1] = IF Quiet(r) THEN <<r, curr[r]>> ELSE NULL
      /\ \A x \in Router : queue'[x] = queue[x]
  BY <1>1, <1>6, SendFacts, RouterFacts DEF TInv, Every
<1> QED BY <1>1, <1>3, <1>5, <1>7 DEF Answers

(* A receive: NULL in the channel is NULL to be answered.                  *)
LEMMA SelectReceiveStep ==
  ASSUME TInv, TokenInv, NEW r \in Router, SelectReceive(r)
  PROVE  Moves(r) /\ Silent(r)
<1>1. /\ Len(queue[r]) = 1 /\ Head(queue[r]) = queue[r][1] /\ Len(queue'[r]) = 0
      /\ \A x \in Every : x # r => queue'[x] = queue[x]
  BY ReceiveFacts DEF TInv, Every, SelectReceive
<1>2. /\ rpc[r] = "select"
      /\ rpc' = [rpc EXCEPT ![r] = IF Head(queue[r]) = NULL THEN "reply" ELSE "merge"]
      /\ UNCHANGED <<mainVars, to_send, changed, curr>>
  BY DEF SelectReceive, Selected
<1>3. DOMAIN rpc = Router
  BY DEF TInv, FrameOK
<1>4. Moves(r)
  BY <1>2, <1>3 DEF Moves, Quiet
<1>5. queue'[Completed] = queue[Completed] /\ rpc'[r] # "exited"
  BY <1>1, <1>2, <1>3, RouterFacts DEF Every
<1>6. ASSUME NEW x \in Router
      PROVE  /\ Owes(x)' = Owes(x) /\ HasNull(x)' \in {HasNull(x), FALSE}
             /\ ~(HasNull(x)' /\ rpc'[x] = "reply")
  <2>1. CASE x = r
    <3>1. ~HasNull(r)'
      BY <1>1 DEF HasNull
    <3>2. Owes(r) <=> queue[r][1] = NULL
      BY <1>1, <1>2 DEF Owes, HasNull
    <3>3. rpc'[r] = IF queue[r][1] = NULL THEN "reply" ELSE "merge"
      BY <1>1, <1>2, <1>3
    <3>4. Owes(r)' <=> queue[r][1] = NULL
      BY <3>1, <3>3 DEF Owes
    <3>5. Owes(r)' = Owes(r) /\ HasNull(r)' \in {HasNull(r), FALSE}
      BY <3>1, <3>2, <3>4 DEF Owes, HasNull
    <3> QED BY <2>1, <3>1, <3>5
  <2>2. CASE x # r
    <3>1. queue'[x] = queue[x] /\ rpc'[x] = rpc[x]
      BY <1>1, <1>2, <1>3, <2>2 DEF Every
    <3> QED BY <3>1 DEF Owes, HasNull, TokenInv
  <2> QED BY <2>1, <2>2
<1> QED BY <1>2, <1>4, <1>5, <1>6 DEF Silent

(* A send: a state is not NULL.                                            *)
LEMMA SelectSendStep ==
  ASSUME TInv, TokenInv, NEW r \in Router, SelectSend(r)
  PROVE  Moves(r) /\ Silent(r) /\ ~Quiet(r)
<1>1. PICK n \in to_send[r] :
        /\ Send(n, <<r, curr[r]>>)
        /\ to_send' = [to_send EXCEPT ![r] = @ \ {n}]
        /\ Selected(r, IF to_send[r] = {n} /\ changed[r] THEN "cycle" ELSE "select")
  BY DEF SelectSend
<1>2. /\ UNCHANGED <<mainVars, changed, curr>>
      /\ rpc[r] = "select"
      /\ rpc' = [rpc EXCEPT ![r] = IF to_send[r] = {n} /\ changed[r] THEN "cycle" ELSE "select"]
  BY <1>1 DEF SelectSend, Selected
<1>3. DOMAIN rpc = Router /\ DOMAIN to_send = Router /\ n \in Router /\ curr[r] \in Slot
  BY DEF TInv, FrameOK, StatesOK
<1>4. /\ Len(queue[n]) = 0 /\ Len(queue'[n]) = 1 /\ queue'[n][1] = <<r, curr[r]>>
      /\ \A x \in Every : x # n => queue'[x] = queue[x]
  <2>1. n \in Every /\ <<r, curr[r]>> \in Message /\ QueueOK
    BY <1>3 DEF TInv, Every, Message, Pointer
  <2> QED BY <1>1, <2>1, SendFacts
<1>5. ~Quiet(r)
  BY <1>1 DEF Quiet
<1>6. Moves(r)
  BY <1>1, <1>2, <1>3, <1>5 DEF Moves
<1>7. queue'[Completed] = queue[Completed] /\ rpc'[r] # "exited"
  BY <1>2, <1>3, <1>4, RouterFacts DEF Every
<1>8. ASSUME NEW x \in Router
      PROVE  /\ Owes(x)' = Owes(x) /\ HasNull(x)' \in {HasNull(x), FALSE}
             /\ ~(HasNull(x)' /\ rpc'[x] = "reply")
  <2>1. HasNull(x)' = HasNull(x)
    <3>1. <<r, curr[r]>> # NULL
      BY <1>3, StressAssumption DEF Slot
    <3>2. CASE x = n
      <4>1. ~HasNull(n) /\ ~HasNull(n)'
        BY <1>4, <3>1 DEF HasNull
      <4> QED BY <3>2, <4>1 DEF HasNull
    <3>3. CASE x # n
      BY <1>4, <3>3 DEF HasNull, Every
    <3> QED BY <3>2, <3>3
  <2>2. (rpc'[x] = "reply") = (rpc[x] = "reply")
    BY <1>2, <1>3
  <2> QED BY <2>1, <2>2 DEF Owes, TokenInv
<1> QED BY <1>2, <1>5, <1>6, <1>7, <1>8 DEF Silent

(* What a step of a router is to check_done, in short.                     *)
LEMMA RouterStep ==
  ASSUME TInv, HandoverInv, VectorInv, TokenInv, SelectWorks, NEW r \in Router, router(r)
  PROVE  \/ SelectClosed(r) /\ closed
         \/ Moves(r) /\ Silent(r)
         \/ Moves(r) /\ Answers(r) /\ Reply(r)
<1>1. CASE SelectClosed(r)
  BY <1>1 DEF SelectClosed
<1>2. CASE SelectReceive(r) \/ SelectSend(r)
  BY <1>2, SelectReceiveStep, SelectSendStep
<1>3. CASE Cycle(r) \/ Merge(r) \/ Reply(r)
  BY <1>3, CycleMergeStep, ReplyStep
<1> QED BY <1>1, <1>2, <1>3 DEF router, channel_select

-----------------------------------------------------------------------------
(* Finitely many routers owe an answer.                                    *)
LEMMA OwingFinite ==
  /\ IsFiniteSet(Owing) /\ Cardinality(Owing) \in Nat
  /\ Cardinality(Owing) = 0 => Owing = {}
<1>1. IsFiniteSet(Router)
  BY DistanceAssumption, FS_Interval DEF Router
<1>2. IsFiniteSet(Owing)
  BY <1>1, FS_Subset DEF Owing
<1> QED BY <1>2, FS_CardinalityType, FS_EmptySet

(* When the last answer of a round is there nobody owes one.               *)
LEMMA LastAnswer ==
  ASSUME TInv, TokenInv, Collect
  PROVE  /\ main = "collect" /\ Len(queue[Completed]) = 1 /\ Len(queue'[Completed]) = 0
         /\ Head(queue[Completed]) = queue[Completed][1]
         /\ Head(queue[Completed]) \in Message
         /\ \A x \in Router : queue'[x] = queue[x]
         /\ \/ main' = "collect" /\ i < num_channel - 1 /\ i' = i + 1
            \/ main' = AfterRound(valid') /\ i' = 0 /\ Owing = {} /\ i = num_channel - 1
<1>1. Completed \in Every /\ QueueOK /\ Receive(Completed) /\ i \in Router
  BY DEF Every, TInv, MainOK, Collect
<1>2. /\ Len(queue[Completed]) = 1 /\ Len(queue'[Completed]) = 0
      /\ Head(queue[Completed]) = queue[Completed][1]
      /\ Head(queue[Completed]) \in Message
      /\ \A x \in Router : queue'[x] = queue[x]
  BY <1>1, ReceiveFacts, RouterFacts DEF Every
<1>3. main = "collect" /\ Iterate("collect", AfterRound(valid'))
  BY DEF Collect
<1>4. CASE i < num_channel - 1
  BY <1>2, <1>3, <1>4 DEF Iterate
<1>5. CASE ~(i < num_channel - 1)
  <2>1. i = num_channel - 1
    BY <1>1, <1>5, DistanceAssumption DEF Router
  <2>2. Cardinality(Owing) + 1 = num_channel - i
    BY <1>2, <1>3 DEF TokenInv, Due
  <2>3. Owing = {}
    BY <2>1, <2>2, OwingFinite, DistanceAssumption
  <2> QED BY <1>2, <1>3, <1>5, <2>1, <2>3 DEF Iterate
<1> QED BY <1>4, <1>5

(* What sending NULL to the next router n changes.                         *)
LEMMA FlushStep ==
  ASSUME TInv, TokenInv, Flush, NEW n \in Router, n = i
  PROVE  /\ ~Owes(n) /\ Len(queue[n]) = 0 /\ rpc[n] # "reply" /\ HasNull(n)'
         /\ \A x \in Every : x # n => queue'[x] = queue[x]
         /\ \A x \in Router : x # n => HasNull(x)' = HasNull(x) /\ Owes(x)' = Owes(x)
         /\ main = "flush" /\ UNCHANGED <<round, valid, completed, closed, routerVars>>
         /\ \/ main' = "flush" /\ i' = n + 1
            \/ main' = "collect" /\ i' = 0 /\ n = num_channel - 1
         /\ \A x \in Router : Asked(x)' <=> Asked(x) \/ x = n
<1>1. n \in Every /\ NULL \in Message /\ QueueOK /\ Send(n, NULL)
  BY DEF Every, TInv, Message, Flush
<1>2. /\ Len(queue[n]) = 0 /\ Len(queue'[n]) = 1 /\ queue'[n][1] = NULL
      /\ \A x \in Every : x # n => queue'[x] = queue[x]
  BY <1>1, SendFacts
<1>3. main = "flush" /\ UNCHANGED <<round, valid, completed, closed, routerVars, rpc>>
  BY DEF Flush, Iterate, routerVars
<1>4. \/ main' = "flush" /\ i' = n + 1 /\ n < num_channel - 1
      \/ main' = "collect" /\ i' = 0 /\ n = num_channel - 1
  BY DistanceAssumption DEF Flush, Iterate, Router
<1>5. ~Owes(n) /\ rpc[n] # "reply"
  BY <1>1, <1>3 DEF TokenInv, Asked, Owes, Router
<1>6. HasNull(n)'
  BY <1>2 DEF HasNull
<1>7. \A x \in Router : x # n => HasNull(x)' = HasNull(x) /\ Owes(x)' = Owes(x)
  BY <1>2, <1>3 DEF HasNull, Owes, Every
<1>8. \A x \in Router : Asked(x)' <=> Asked(x) \/ x = n
  BY <1>3, <1>4, DistanceAssumption DEF Asked, Router
<1> QED BY <1>2, <1>3, <1>4, <1>5, <1>6, <1>7, <1>8

(* Every step keeps the account of the answers.                            *)
LEMMA StepToken ==
  ASSUME TInv, HandoverInv, VectorInv, TokenInv, SelectWorks, [Next]_vars,
         closed => main \in {"join", "end"}
  PROVE  TokenInv'
<1>1. ASSUME UNCHANGED <<queue, rpc>>, main \notin {"flush", "collect"},
             main' \notin {"flush", "collect"} \/ (main' = "flush" /\ i' = 0),
             main' = "usleep" => i' = 0
      PROVE  TokenInv'
  <2>1. \A x \in Router : HasNull(x)' = HasNull(x) /\ Owes(x)' = Owes(x) /\ ~Owes(x)
    BY <1>1 DEF HasNull, Owes, TokenInv, Asked
  <2>2. Owing' = Owing /\ Due = 0 /\ Due' = 0
    BY <1>1, <2>1 DEF Owing, Due
  <2> QED BY <1>1, <2>1, <2>2 DEF TokenInv
<1>2. CASE Flush
  <2>1. PICK n \in Router : n = i
    BY DEF TInv, MainOK
  <2>2. /\ ~Owes(n) /\ rpc[n] # "reply" /\ HasNull(n)'
        /\ \A x \in Every : x # n => queue'[x] = queue[x]
        /\ \A x \in Router : x # n => HasNull(x)' = HasNull(x) /\ Owes(x)' = Owes(x)
        /\ main = "flush" /\ UNCHANGED routerVars
        /\ \/ main' = "flush" /\ i' = n + 1
           \/ main' = "collect" /\ i' = 0 /\ n = num_channel - 1
        /\ \A x \in Router : Asked(x)' <=> Asked(x) \/ x = n
    BY <1>2, <2>1, FlushStep
  <2>3. rpc' = rpc /\ queue'[Completed] = queue[Completed]
    BY <2>2, RouterFacts DEF routerVars, Every
  <2>4. Owing' = Owing \cup {n} /\ n \notin Owing
    BY <2>2 DEF Owing, Owes
  <2>5. Cardinality(Owing') = Cardinality(Owing) + 1
    BY <2>4, OwingFinite, FS_AddElement
  <2>6. Due' = Due + 1
    BY <2>1, <2>2, DistanceAssumption DEF Due, Router
  <2>7. Len(queue[Completed]) \in Nat /\ Cardinality(Owing) \in Nat
    BY OwingFinite, LenProperties DEF TInv, QueueOK, Every
  <2>8. Cardinality(Owing') + Len(queue'[Completed]) = Due'
    BY <2>3, <2>5, <2>6, <2>7 DEF TokenInv
  <2>9. \A x \in Router : (Owes(x)' => Asked(x)') /\ ~(HasNull(x)' /\ rpc'[x] = "reply")
    BY <2>2, <2>3 DEF TokenInv
  <2> QED BY <2>2, <2>8, <2>9 DEF TokenInv
<1>3. CASE Collect
  <2>1. /\ main = "collect" /\ Len(queue[Completed]) = 1 /\ Len(queue'[Completed]) = 0
        /\ \A x \in Router : queue'[x] = queue[x]
        /\ \/ main' = "collect" /\ i < num_channel - 1 /\ i' = i + 1
           \/ main' = AfterRound(valid') /\ i' = 0 /\ Owing = {} /\ i = num_channel - 1
    BY <1>3, LastAnswer
  <2>2. rpc' = rpc
    BY <1>3 DEF Collect, routerVars
  <2>3. \A x \in Router : HasNull(x)' = HasNull(x) /\ Owes(x)' = Owes(x)
    BY <2>1, <2>2 DEF HasNull, Owes
  <2>4. Owing' = Owing
    BY <2>3 DEF Owing
  <2>5. Cardinality(Owing) + 1 = num_channel - i /\ Cardinality(Owing) \in Nat
    BY <2>1, OwingFinite DEF TokenInv, Due
  <2>6. i \in Int /\ num_channel \in Int
    BY DistanceAssumption DEF TInv, MainOK, Router
  <2>7. CASE main' = "collect" /\ i < num_channel - 1 /\ i' = i + 1
    <3>1. Cardinality(Owing') + Len(queue'[Completed]) = Due'
      BY <2>1, <2>4, <2>5, <2>6, <2>7 DEF Due
    <3> QED BY <2>2, <2>3, <2>7, <3>1 DEF TokenInv, Asked
  <2>8. CASE main' = AfterRound(valid') /\ i' = 0 /\ Owing = {} /\ i = num_channel - 1
    <3>1. Due' = 0
      BY <2>8 DEF Due, AfterRound
    <3>2. Cardinality(Owing') + Len(queue'[Completed]) = Due'
      BY <2>1, <2>4, <2>8, <3>1, FS_EmptySet
    <3>3. \A x \in Router : ~Owes(x)'
      BY <2>3, <2>8 DEF Owing
    <3> QED BY <2>2, <2>3, <2>8, <3>2, <3>3 DEF TokenInv
  <2> QED BY <2>1, <2>7, <2>8
<1>4. CASE Retry \/ Verify \/ CloseDone \/ Join
  <2>1. UNCHANGED <<queue, rpc>> /\ main \notin {"flush", "collect"}
    BY <1>4 DEF Retry, Verify, CloseDone, Join, Iterate, routerVars
  <2>2. main' # "usleep" /\ main' # "collect" /\ (main' = "flush" => i' = 0)
    BY <1>4 DEF Retry, Verify, CloseDone, Join, Iterate, TokenInv
  <2> QED BY <1>1, <2>1, <2>2
<1>5. ASSUME NEW r \in Router, router(r)
      PROVE  TokenInv'
  <2>1. CASE SelectClosed(r) /\ closed
    <3>1. queue' = queue /\ rpc' = [rpc EXCEPT ![r] = "exited"] /\ main \in {"join", "end"}
      BY <2>1 DEF SelectClosed, Selected
    <3>2. main' \in {"join", "end", "abort"}
      BY <2>1, <3>1 DEF SelectClosed, Abort, mainVars
    <3>3. rpc[r] = "select" /\ DOMAIN rpc = Router
      BY <2>1 DEF SelectClosed, Selected, TInv, FrameOK
    <3>4. \A x \in Router : HasNull(x)' = HasNull(x) /\ Owes(x)' = Owes(x) /\ ~Owes(x)
      BY <3>1, <3>3 DEF HasNull, Owes, TokenInv, Asked
    <3>5. Owing' = Owing /\ Due = 0 /\ Due' = 0
      BY <3>1, <3>2, <3>4 DEF Owing, Due
    <3> QED BY <3>1, <3>2, <3>4, <3>5 DEF TokenInv, Owes
  <2>2. CASE Silent(r)
    <3>1. UNCHANGED <<main, i>> /\ queue'[Completed] = queue[Completed]
      BY <2>2 DEF Silent, mainVars
    <3>2. \A x \in Router : Owes(x)' = Owes(x) /\ Asked(x)' = Asked(x) /\ ~(HasNull(x)' /\ rpc'[x] = "reply")
      BY <2>2, <3>1 DEF Silent, Asked
    <3>3. Owing' = Owing /\ Due' = Due
      BY <3>1, <3>2 DEF Owing, Due
    <3> QED BY <3>1, <3>2, <3>3 DEF TokenInv
  <2>3. CASE Moves(r) /\ Answers(r)
    <3>1. /\ UNCHANGED <<main, i>> /\ Len(queue[Completed]) = 0 /\ Len(queue'[Completed]) = 1
          /\ \A x \in Router : queue'[x] = queue[x]
          /\ rpc[r] = "reply" /\ rpc'[r] = "select"
          /\ \A x \in Router : x # r => rpc'[x] = rpc[x]
      BY <2>3 DEF Answers, Moves, mainVars
    <3>2. \A x \in Router : HasNull(x)' = HasNull(x) /\ (x # r => Owes(x)' = Owes(x))
      BY <3>1 DEF HasNull, Owes
    <3>3. Owes(r) /\ ~Owes(r)'
      BY <3>1, <3>2 DEF Owes, TokenInv
    <3>4. Owing' = Owing \ {r} /\ r \in Owing
      BY <3>2, <3>3 DEF Owing
    <3>5. Cardinality(Owing') = Cardinality(Owing) - 1
      BY <3>4, OwingFinite, FS_RemoveElement
    <3>6. Due' = Due /\ \A x \in Router : Asked(x)' = Asked(x)
      BY <3>1 DEF Due, Asked
    <3>7. Cardinality(Owing') + Len(queue'[Completed]) = Due'
      BY <3>1, <3>5, <3>6, OwingFinite DEF TokenInv
    <3> QED BY <3>1, <3>2, <3>3, <3>6, <3>7 DEF TokenInv
  <2> QED BY <1>5, <2>1, <2>2, <2>3, RouterStep
<1>6. CASE UNCHANGED vars
  <2>1. \A x \in Router : HasNull(x)' = HasNull(x) /\ Owes(x)' = Owes(x) /\ Asked(x)' = Asked(x)
    BY <1>6 DEF vars, mainVars, routerVars, HasNull, Owes, Asked
  <2>2. Owing' = Owing /\ Due' = Due
    BY <1>6, <2>1 DEF Owing, Due, vars, mainVars
  <2> QED BY <1>6, <2>1, <2>2 DEF TokenInv, vars, mainVars, routerVars
<1> QED BY <1>2, <1>3, <1>4, <1>5, <1>6 DEF Next, run_stress, Terminated

-----------------------------------------------------------------------------
(* The circle of slots, backwards and forwards.                            *)
LEMMA CircleWay ==
  ASSUME NEW s \in Slot
  PROVE  /\ After(s) \in Slot /\ Before(s) \in Slot /\ Before(Before(s)) \in Slot
         /\ Before(After(s)) = s /\ After(After(s)) = Before(Before(s))
         /\ After(s) \notin {s, Before(s), Before(Before(s))}
         /\ Slot = {s, Before(s), Before(Before(s)), After(s)}
BY DEF Slot, After, Before

(* The slots of a router hold different epochs, so that comparing the      *)
(* epochs of two of its states at one time is comparing the slots.         *)
LEMMA EpochsDistinct ==
  ASSUME TInv, EpochInv, NEW r \in Router, NEW s \in Slot, NEW t \in Slot,
         epoch[r][s] = epoch[r][t]
  PROVE  s = t
<1>1. next(r) \in Slot /\ \A x \in Slot : epoch[r][x] \in Nat
  BY NextStateFacts DEF TInv, StatesOK
<1>2. /\ Before(next(r)) \in Slot /\ Before(Before(next(r))) \in Slot /\ After(next(r)) \in Slot
      /\ Slot = {next(r), Before(next(r)), Before(Before(next(r))), After(next(r))}
  BY <1>1, CircleWay
<1>3. /\ epoch[r][Before(next(r))] = epoch[r][next(r)] - 1
      /\ epoch[r][Before(Before(next(r)))] = epoch[r][next(r)] - 2
      /\ epoch[r][After(next(r))] = epoch[r][next(r)] - 3
  BY DEF EpochInv
<1> QED BY <1>1, <1>2, <1>3

(* A cycle gives the recycled slot the epoch that follows.                 *)
LEMMA IterationEpoch ==
  ASSUME TInv, EpochInv, NEW r \in Router,
         NEW vector \in [Router -> Distances], NEW better \in BOOLEAN,
         EndIteration(r, to_send[r], vector, better)
  PROVE  EpochInv'
<1>1. /\ \A x \in Router : x # r => Kept(x)
      /\ Cycled(r, vector) \/ Stayed(r, vector, better)
  BY EndIterationEffect
<1> SUFFICES ASSUME NEW x \in Router
             PROVE  /\ epoch'[x][Before(next(x)')] = epoch'[x][next(x)'] - 1
                    /\ epoch'[x][Before(Before(next(x)'))] = epoch'[x][next(x)'] - 2
                    /\ epoch'[x][After(next(x)')] = epoch'[x][next(x)'] - 3
  BY DEF EpochInv, Before, After
<1>2. /\ epoch[x][Before(next(x))] = epoch[x][next(x)] - 1
      /\ epoch[x][Before(Before(next(x)))] = epoch[x][next(x)] - 2
      /\ epoch[x][After(next(x))] = epoch[x][next(x)] - 3
  BY DEF EpochInv
<1>3. CASE x = r /\ Cycled(r, vector)
  <2> DEFINE s == next(r)
  <2>1. s \in Slot /\ epoch[r] \in [Slot -> Nat]
    BY NextStateFacts DEF TInv, StatesOK
  <2>2. next(r)' = After(s)
    BY <1>3 DEF Cycled, next
  <2>3. epoch'[r] = [epoch[r] EXCEPT ![After(s)] = epoch[r][s] + 1]
    BY <1>3 DEF Cycled
  <2> HIDE DEF s
  <2>4. /\ After(s) \in Slot /\ Before(s) \in Slot /\ Before(Before(s)) \in Slot
        /\ Before(After(s)) = s /\ After(After(s)) = Before(Before(s))
        /\ After(s) \notin {s, Before(s), Before(Before(s))}
    BY <2>1, CircleWay
  <2>5. /\ epoch'[r][After(s)] = epoch[r][s] + 1 /\ epoch'[r][s] = epoch[r][s]
        /\ epoch'[r][Before(s)] = epoch[r][Before(s)]
        /\ epoch'[r][Before(Before(s))] = epoch[r][Before(Before(s))]
    BY <2>1, <2>3, <2>4
  <2>6. epoch[r][s] \in Nat
    BY <2>1
  <2>7. epoch[r][Before(s)] = epoch[r][s] - 1 /\ epoch[r][Before(Before(s))] = epoch[r][s] - 2
    BY <1>2, <1>3 DEF s
  <2> QED BY <1>3, <2>2, <2>4, <2>5, <2>6, <2>7
<1>4. CASE ~(x = r /\ Cycled(r, vector))
  <2>1. epoch'[x] = epoch[x] /\ next(x)' = next(x)
    BY <1>1, <1>4 DEF Kept, Stayed, next
  <2> QED BY <1>2, <2>1
<1> QED BY <1>3, <1>4

(* Every step keeps the epochs apart.                                      *)
LEMMA StepEpoch == TInv /\ EpochInv /\ SelectWorks /\ [Next]_vars => EpochInv'
<1> SUFFICES ASSUME TInv, EpochInv, SelectWorks, [Next]_vars PROVE EpochInv'
  OBVIOUS
<1>1. ASSUME UNCHANGED <<curr, epoch>> PROVE EpochInv'
  BY <1>1 DEF EpochInv, next, Before, After
<1>2. CASE run_stress
  BY <1>1, <1>2 DEF run_stress, Flush, Collect, Retry, Verify, CloseDone, Join, routerVars
<1>3. ASSUME NEW r \in Router, router(r) PROVE EpochInv'
  <2>1. CASE channel_select(r)
    BY <1>1, <2>1 DEF channel_select, SelectReceive, SelectSend, SelectClosed
  <2>2. CASE Cycle(r) \/ Reply(r)
    BY <2>2, NextStateFacts, IterationEpoch DEF Cycle, Reply
  <2>3. CASE Merge(r)
    <3>1. /\ rpc[r] = "merge"
          /\ EndIteration(r, to_send[r], Merged(r), changed[r] \/ Merged(r) # dist[r][next(r)])
      BY <2>3 DEF Merge, Merged
    <3>2. (changed[r] \/ Merged(r) # dist[r][next(r)]) \in BOOLEAN
      OBVIOUS
    <3> QED BY <3>1, <3>2, MergedFacts, IterationEpoch
  <2> QED BY <1>3, <2>1, <2>2, <2>3 DEF router
<1>4. CASE UNCHANGED vars
  BY <1>1, <1>4 DEF vars, routerVars
<1> QED BY <1>2, <1>3, <1>4 DEF Next, Terminated

(* What receiving the answer d in a round changes of completed and valid.  *)
LEMMA CollectFacts ==
  ASSUME TInv, TokenInv, AnswerInv, Collect, NEW d, d = Head(queue[Completed])
  PROVE  /\ UNCHANGED <<closed, routerVars>> /\ Answer(d)
         /\ valid' = (valid /\ d # NULL /\ (round = 2 => epoch[d[1]][completed[d[1]][2]] = epoch[d[1]][d[2]]))
         /\ \A x \in Router : Owes(x)' = Owes(x)
         /\ d = NULL \/ round = 2 => completed' = completed
         /\ d # NULL => \E a \in Router, s \in Slot :
              /\ d = <<a, s>>
              /\ round = 1 => completed' = [completed EXCEPT ![a] = d]
         /\ round' = IF main' = "flush" THEN 2 ELSE round
<1>1. /\ Len(queue[Completed]) = 1 /\ queue[Completed][1] = d /\ d \in Message
      /\ \A x \in Router : queue'[x] = queue[x]
  BY LastAnswer
<1>2. /\ UNCHANGED <<closed, routerVars, rpc>> /\ valid' = StillValid(d)
      /\ round' = IF main' = "flush" THEN 2 ELSE round
      /\ completed' = IF d # NULL /\ round = 1
                      THEN [completed EXCEPT ![d[1]] = d] ELSE completed
  BY DEF Collect, routerVars
<1>3. \A x \in Router : Owes(x)' = Owes(x)
  BY <1>1, <1>2 DEF Owes, HasNull
<1>4. ASSUME d # NULL
      PROVE  \E a \in Router, s \in Slot :
               d = <<a, s>> /\ (round = 1 => completed' = [completed EXCEPT ![a] = d])
  <2>1. PICK a \in Router, s \in Slot : d = <<a, s>>
    BY <1>1, <1>4 DEF Message, Pointer
  <2>2. d[1] = a
    BY <2>1
  <2>3. round = 1 => completed' = [completed EXCEPT ![a] = d]
    BY <1>2, <1>4, <2>2
  <2> QED BY <2>1, <2>3
<1>5. valid' = (valid /\ d # NULL /\ (round = 2 => epoch[d[1]][completed[d[1]][2]] = epoch[d[1]][d[2]]))
  BY <1>2 DEF StillValid
<1>6. d = NULL \/ round = 2 => completed' = completed
  BY <1>2
<1>7. Answer(d)
  BY <1>1 DEF Answer
<1> QED BY <1>2, <1>3, <1>4, <1>5, <1>6, <1>7

(* The answers in completed are those of the routers themselves.           *)
LEMMA StepAnswer ==
  ASSUME TInv, HandoverInv, VectorInv, TokenInv, AnswerInv, SelectWorks, [Next]_vars
  PROVE  AnswerInv'
<1>1. CASE completed' = completed
  BY <1>1 DEF AnswerInv
<1>2. CASE Collect
  <2>1. PICK d : d = Head(queue[Completed])
    OBVIOUS
  <2>2. \/ completed' = completed
        \/ \E a \in Router, s \in Slot : completed' = [completed EXCEPT ![a] = <<a, s>>]
    BY <1>2, <2>1, CollectFacts DEF TInv, MainOK
  <2>3. completed \in [Router -> Message]
    BY DEF TInv, MainOK
  <2> QED BY <1>1, <2>2, <2>3 DEF AnswerInv
<1>3. CASE Retry
  BY <1>3 DEF Retry, AnswerInv
<1>4. CASE Flush \/ Verify \/ CloseDone \/ Join
  BY <1>1, <1>4 DEF Flush, Verify, CloseDone, Join
<1>5. ASSUME NEW r \in Router, router(r) PROVE AnswerInv'
  <2>1. completed' = completed
    BY <1>5 DEF router, channel_select, SelectReceive, SelectSend, SelectClosed, Cycle, Merge, Reply,
                mainVars, Abort
  <2> QED BY <1>1, <2>1
<1>6. CASE UNCHANGED vars
  BY <1>1, <1>6 DEF vars, mainVars
<1> QED BY <1>2, <1>3, <1>4, <1>5, <1>6 DEF Next, run_stress, Terminated

-----------------------------------------------------------------------------
(***************************************************************************)
(* The hypothesis under which check_done is right: it never holds, nor is  *)
(* about to receive, a pointer to the state that a router writes to.  It   *)
(* compares epochs through these pointers, and a router that has cycled    *)
(* through all of its states since it answered would compare equal to      *)
(* itself.  Nothing in stress.c ensures this.                              *)
(***************************************************************************)
AnswersKept ==
  main \in {"flush", "collect"} =>
    \A r \in Router :
      /\ completed[r] # <<r, next(r)>>
      /\ round = 1 => \A k \in DOMAIN queue[Completed] : queue[Completed][k] # <<r, next(r)>>

(* What AnswersKept says of a router that moves on.                        *)
LEMMA KeptFacts ==
  ASSUME TInv, AnswersKept, Asking, NEW r \in Router
  PROVE  /\ completed[r] # <<r, next(r)>>
         /\ round = 1 => ~Answer(<<r, next(r)>>)
<1>1. completed[r] # <<r, next(r)>>
  BY DEF AnswersKept, Asking
<1>2. ASSUME round = 1, Answer(<<r, next(r)>>) PROVE FALSE
  <2>1. queue[Completed] \in Seq(Message) /\ Len(queue[Completed]) = 1
    BY <1>2 DEF Answer, TInv, QueueOK, Every
  <2>2. 1 \in DOMAIN queue[Completed]
    BY <2>1
  <2> QED BY <1>2, <2>2 DEF AnswersKept, Asking, Answer
<1> QED BY <1>1, <1>2

(* While check_done asks, done_channel is open.                            *)
LEMMA RouterWhileAsking ==
  ASSUME TInv, HandoverInv, VectorInv, CheckInv, SelectWorks,
         NEW r \in Router, router(r), Asking'
  PROVE  /\ UNCHANGED <<main, round, i, valid, completed, closed>> /\ Asking /\ ~closed
         /\ \/ Moves(r) /\ Silent(r)
            \/ Moves(r) /\ Answers(r) /\ Reply(r)
<1>1. ~(SelectClosed(r) /\ closed)
  BY DEF CheckInv, EndInv, SelectClosed, Abort, mainVars, Asking
<1>2. \/ Moves(r) /\ Silent(r)
      \/ Moves(r) /\ Answers(r) /\ Reply(r)
  BY <1>1, RouterStep DEF CheckInv
<1>3. UNCHANGED <<main, round, i, valid, completed, closed>>
  BY <1>2 DEF Silent, Answers, mainVars
<1> QED BY <1>2, <1>3 DEF Asking, CheckInv, EndInv

(* In the first round, whatever a router does.                             *)
LEMMA RouterRoundOne ==
  ASSUME TInv, HandoverInv, VectorInv, CheckInv, AnswersKept, SelectWorks,
         NEW r \in Router, router(r)
  PROVE  RoundOneInv'
<1> SUFFICES ASSUME Asking', round' = 1, NEW x \in Router
             PROVE  /\ completed'[x] # NULL => Answered(x)'
                    /\ \A s \in Slot : Answer(<<x, s>>)' => Answered(x)' /\ completed'[x] = NULL
                    /\ Answered(x)' => ~valid' \/ Answer(NULL)' \/ Vouched(x)'
  BY DEF RoundOneInv
<1>2. UNCHANGED <<main, round, i, valid, completed, closed>> /\ Asking /\ round = 1
  BY RouterWhileAsking
<1>3. /\ completed[x] # NULL => Answered(x)
      /\ \A s \in Slot : Answer(<<x, s>>) => Answered(x) /\ completed[x] = NULL
      /\ Answered(x) => ~valid \/ Answer(NULL) \/ Vouched(x)
  BY <1>2 DEF CheckInv, RoundOneInv
<1>4. /\ completed[r] # <<r, next(r)>> /\ ~Answer(<<r, next(r)>>)
  BY <1>2, KeptFacts
<1>5. Moves(r) => (x # r => curr'[x] = curr[x] /\ Quiet(x)' = Quiet(x))
  BY DEF Moves, Quiet
<1>6. CASE Moves(r) /\ Silent(r)
  <2>1. Answered(x)' = Answered(x) /\ \A m : Answer(m)' = Answer(m)
    BY <1>2, <1>6 DEF Answered, Asked, Silent, Answer
  <2>2. Vouched(x) => Vouched(x)'
    <3> SUFFICES ASSUME Vouched(x) PROVE Vouched(x)'
      OBVIOUS
    <3>0. PICK s \in Slot : (completed[x] = <<x, s>> \/ Answer(<<x, s>>)) /\ (curr[x] = s => Quiet(x))
      BY DEF Vouched
    <3>1. completed'[x] = <<x, s>> \/ Answer(<<x, s>>)'
      BY <1>2, <2>1, <3>0
    <3>2. curr'[x] = s => Quiet(x)'
      <4>1. CASE x # r
        BY <1>5, <1>6, <3>0, <4>1
      <4>2. CASE x = r
        BY <1>4, <1>6, <3>0, <4>2 DEF Moves
      <4> QED BY <4>1, <4>2
    <3> QED BY <3>1, <3>2 DEF Vouched
  <2> QED BY <1>2, <1>3, <2>1, <2>2
<1>7. CASE Moves(r) /\ Answers(r)
  <2>1. /\ Len(queue[Completed]) = 0 /\ Len(queue'[Completed]) = 1
        /\ queue'[Completed][1] = IF Quiet(r) THEN <<r, curr[r]>> ELSE NULL
        /\ curr'[r] = curr[r] /\ (Quiet(r) => Quiet(r)')
    BY <1>7 DEF Answers
  <2>2. Owes(r) /\ ~Owes(r)' /\ (x # r => Owes(x)' = Owes(x))
    BY <1>7 DEF Answers, Moves, Owes, HasNull, CheckInv, TokenInv
  <2>3. Asked(r) /\ Asked(r)' /\ Asked(x)' = Asked(x)
    BY <1>2, <2>2 DEF CheckInv, TokenInv, Asked
  <2>4. CASE x = r
    <3>1. Answered(x)' /\ ~Answered(x)
      BY <2>2, <2>3, <2>4 DEF Answered
    <3>2. completed'[x] = NULL
      BY <1>2, <1>3, <3>1
    <3>3. Answer(NULL)' \/ Vouched(x)'
      <4>1. CASE Quiet(r)
        <5>1. PICK s \in Slot : s = curr[r]
          BY DEF TInv, StatesOK
        <5>2. Answer(<<x, s>>)'
          BY <2>1, <2>4, <4>1, <5>1 DEF Answer
        <5>3. Quiet(x)'
          BY <2>1, <2>4, <4>1
        <5> QED BY <5>2, <5>3 DEF Vouched
      <4>2. CASE ~Quiet(r)
        BY <2>1, <4>2 DEF Answer
      <4> QED BY <4>1, <4>2
    <3> QED BY <3>1, <3>2, <3>3
  <2>5. CASE x # r
    <3>1. Answered(x)' = Answered(x)
      BY <2>2, <2>3, <2>5 DEF Answered
    <3>2. \A m : ~Answer(m)
      BY <2>1 DEF Answer
    <3>3. \A s \in Slot : ~Answer(<<x, s>>)'
      <4>1. \A s \in Slot : <<x, s>> # (IF Quiet(r) THEN <<r, curr[r]>> ELSE NULL)
        BY <2>5, StressAssumption DEF Slot
      <4> QED BY <1>7, <4>1 DEF Answers, Answer
    <3>4. Vouched(x) => Vouched(x)'
      <4> SUFFICES ASSUME Vouched(x) PROVE Vouched(x)'
        OBVIOUS
      <4>1. PICK s \in Slot : completed[x] = <<x, s>> /\ (curr[x] = s => Quiet(x))
        BY <3>2 DEF Vouched
      <4>2. completed'[x] = <<x, s>> /\ (curr'[x] = s => Quiet(x)')
        BY <1>2, <1>5, <1>7, <2>5, <4>1
      <4> QED BY <4>2 DEF Vouched
    <3> QED BY <1>2, <1>3, <3>1, <3>2, <3>3, <3>4
  <2> QED BY <2>4, <2>5
<1> QED BY <1>6, <1>7, RouterWhileAsking

(* Flushing router n changes nobody's answer.                              *)
LEMMA FlushAnswered ==
  ASSUME TInv, TokenInv, Flush, NEW n \in Router, n = i
  PROVE  /\ ~Answered(n) /\ ~Answered(n)' /\ rpc'[n] # "reply"
         /\ \A x \in Router : x # n => Answered(x)' = Answered(x) /\ queue'[x] = queue[x]
         /\ queue'[Completed] = queue[Completed]
         /\ UNCHANGED <<round, valid, completed, closed, rpc, curr, to_send, changed>>
<1>1. /\ ~Owes(n) /\ rpc[n] # "reply" /\ HasNull(n)'
      /\ \A x \in Every : x # n => queue'[x] = queue[x]
      /\ \A x \in Router : x # n => Owes(x)' = Owes(x)
      /\ main = "flush" /\ UNCHANGED <<round, valid, completed, closed, routerVars>>
      /\ \A x \in Router : Asked(x)' <=> Asked(x) \/ x = n
  BY FlushStep
<1>2. UNCHANGED <<rpc, curr, to_send, changed>>
  BY <1>1 DEF routerVars
<1>3. ~Asked(n)
  BY <1>1 DEF Asked, Router
<1>4. ~Answered(n) /\ ~Answered(n)'
  BY <1>1, <1>3 DEF Answered, Owes
<1>5. ASSUME NEW x \in Router, x # n PROVE Answered(x)' = Answered(x)
  BY <1>1, <1>5 DEF Answered, Asked
<1>6. \A x \in Router : x # n => queue'[x] = queue[x]
  BY <1>1 DEF Every
<1>7. queue'[Completed] = queue[Completed]
  BY <1>1, RouterFacts DEF Every
<1> QED BY <1>1, <1>2, <1>4, <1>5, <1>6, <1>7

(* In both rounds, when another NULL is sent.                              *)
LEMMA FlushRounds ==
  ASSUME TInv, CheckInv, Flush
  PROVE  RoundOneInv' /\ RoundTwoInv'
<1>1. PICK n \in Router : n = i
  BY DEF TInv, MainOK
<1>2. /\ ~Answered(n) /\ ~Answered(n)' /\ rpc'[n] # "reply"
      /\ \A x \in Router : x # n => Answered(x)' = Answered(x) /\ queue'[x] = queue[x]
      /\ queue'[Completed] = queue[Completed]
      /\ UNCHANGED <<round, valid, completed, closed, rpc, curr, to_send, changed>>
  BY <1>1, FlushAnswered DEF CheckInv
<1>3. Asking
  BY DEF Flush, Iterate, Asking
<1>4. \A m : Answer(m)' = Answer(m)
  BY <1>2 DEF Answer
<1>5. \A x \in Router : Quiet(x)' = Quiet(x) /\ Unmoved(x)' = Unmoved(x)
  BY <1>2 DEF Quiet, Unmoved
<1>6. RoundOneInv'
  <2> SUFFICES ASSUME round = 1, NEW x \in Router
               PROVE  /\ completed[x] # NULL => Answered(x)'
                      /\ \A s \in Slot : Answer(<<x, s>>)' => Answered(x)' /\ completed[x] = NULL
                      /\ Answered(x)' => ~valid \/ Answer(NULL)' \/ Vouched(x)'
    BY <1>2 DEF RoundOneInv
  <2>1. /\ completed[x] # NULL => Answered(x)
        /\ \A s \in Slot : Answer(<<x, s>>) => Answered(x) /\ completed[x] = NULL
        /\ Answered(x) => ~valid \/ Answer(NULL) \/ Vouched(x)
    BY <1>3 DEF CheckInv, RoundOneInv
  <2>2. Vouched(x)' = Vouched(x)
    BY <1>2, <1>4, <1>5 DEF Vouched
  <2>3. CASE x = n
    BY <1>2, <1>4, <2>1, <2>3
  <2>4. CASE x # n
    BY <1>2, <1>4, <2>1, <2>2, <2>4
  <2> QED BY <2>3, <2>4
<1>7. RoundTwoInv'
  <2> SUFFICES ASSUME round = 2
               PROVE  /\ \A x \in Router : completed[x] # NULL
                      /\ \A x \in Router : Unmoved(x)' => Quiet(x)'
                      /\ Doomed' \/ Calm'
    BY <1>2 DEF RoundTwoInv
  <2>1. /\ \A x \in Router : completed[x] # NULL
        /\ \A x \in Router : Unmoved(x) => Quiet(x)
        /\ Doomed \/ Calm
    BY <1>3 DEF CheckInv, RoundTwoInv
  <2>2. ASSUME Doomed PROVE Doomed'
    <3>1. CASE \E r \in Router : ~Answered(r) /\ ~Unmoved(r)
      <4>1. PICK r \in Router : ~Answered(r) /\ ~Unmoved(r)
        BY <3>1
      <4>2. ~Answered(r)' /\ ~Unmoved(r)'
        BY <1>2, <1>5, <4>1
      <4> QED BY <4>2 DEF Doomed
    <3>2. CASE ~valid \/ (Len(queue[Completed]) = 1 /\ \A r \in Router : queue[Completed][1] # completed[r])
      BY <1>2, <3>2 DEF Doomed
    <3> QED BY <2>2, <3>1, <3>2 DEF Doomed
  <2>3. ASSUME Calm PROVE Calm'
    <3> SUFFICES ASSUME NEW r \in Router
                 PROVE  /\ Unmoved(r)'
                        /\ rpc'[r] = "reply" \/ Answered(r)' => queue'[r] = <<>> /\ rpc'[r] \in {"reply", "select"}
      BY DEF Calm
    <3>1. /\ Unmoved(r)
          /\ rpc[r] = "reply" \/ Answered(r) => queue[r] = <<>> /\ rpc[r] \in {"reply", "select"}
      BY <2>3 DEF Calm
    <3> QED BY <1>2, <1>5, <3>1
  <2> QED BY <1>5, <2>1, <2>2, <2>3
<1> QED BY <1>6, <1>7

(* In the first round an answer is kept for the second.                    *)
LEMMA CollectVouched ==
  ASSUME TInv, CheckInv, Collect, round = 1, NEW x \in Router
  PROVE  /\ completed'[x] # NULL => Answered(x)
         /\ Answered(x) =>
              ~valid' \/ \E s \in Slot : completed'[x] = <<x, s>> /\ (curr[x] = s => Quiet(x))
<1>1. PICK d : d = Head(queue[Completed])
  OBVIOUS
<1>2. /\ Answer(d)
      /\ valid' = (valid /\ d # NULL /\ (round = 2 => epoch[d[1]][completed[d[1]][2]] = epoch[d[1]][d[2]]))
      /\ d = NULL \/ round = 2 => completed' = completed
      /\ d # NULL => \E a \in Router, s \in Slot :
           d = <<a, s>> /\ (round = 1 => completed' = [completed EXCEPT ![a] = d])
  BY <1>1, CollectFacts DEF CheckInv
<1>3. /\ completed[x] # NULL => Answered(x)
      /\ \A s \in Slot : Answer(<<x, s>>) => Answered(x) /\ completed[x] = NULL
      /\ Answered(x) => ~valid \/ Answer(NULL) \/ Vouched(x)
  BY DEF CheckInv, RoundOneInv, Asking, Collect
<1>4. CASE d = NULL
  BY <1>2, <1>3, <1>4
<1>5. CASE d # NULL
  <2>1. PICK a \in Router, t \in Slot : d = <<a, t>> /\ completed' = [completed EXCEPT ![a] = d]
    BY <1>2, <1>5
  <2>2. completed'[a] = d /\ (x # a => completed'[x] = completed[x])
    BY <2>1 DEF TInv, MainOK
  <2>3. completed'[x] # NULL => Answered(x)
    BY <1>2, <1>3, <2>1, <2>2
  <2>4. ~Answer(NULL)
    BY <1>2, <1>5 DEF Answer
  <2>5. ASSUME Vouched(x)
        PROVE  \E s \in Slot : completed'[x] = <<x, s>> /\ (curr[x] = s => Quiet(x))
    <3>1. PICK s \in Slot : (completed[x] = <<x, s>> \/ Answer(<<x, s>>)) /\ (curr[x] = s => Quiet(x))
      BY <2>5 DEF Vouched
    <3>2. completed'[x] = <<x, s>>
      <4>1. CASE x = a
        <5>1. completed[x] = NULL
          BY <1>2, <1>3, <2>1, <4>1
        <5>2. NULL # <<x, s>>
          BY StressAssumption DEF Slot
        <5>3. d = <<x, s>>
          BY <1>2, <3>1, <5>1, <5>2 DEF Answer
        <5> QED BY <2>2, <4>1, <5>3
      <4>2. CASE x # a
        <5>1. ~Answer(<<x, s>>)
          BY <1>2, <2>1, <4>2 DEF Answer
        <5> QED BY <2>2, <3>1, <4>2, <5>1
      <4> QED BY <4>1, <4>2
    <3> QED BY <3>1, <3>2
  <2>6. ~valid => ~valid'
    BY <1>2
  <2> QED BY <1>3, <2>3, <2>4, <2>5, <2>6
<1> QED BY <1>4, <1>5

(* When an answer of the first round is received.                          *)
LEMMA CollectRoundOne ==
  ASSUME TInv, CheckInv, Collect, round = 1
  PROVE  RoundOneInv' /\ RoundTwoInv' /\ RestInv'
<1>1. /\ main = "collect" /\ Len(queue'[Completed]) = 0
      /\ \/ main' = "collect"
         \/ main' = AfterRound(valid') /\ i' = 0 /\ Owing = {}
  BY LastAnswer DEF CheckInv
<1>2. PICK d : d = Head(queue[Completed])
  OBVIOUS
<1>3. /\ UNCHANGED <<curr, to_send, changed, rpc>>
      /\ \A x \in Router : Owes(x)' = Owes(x)
      /\ round' = IF main' = "flush" THEN 2 ELSE round
  BY <1>2, CollectFacts DEF CheckInv, routerVars
<1>4. \A x \in Router : /\ completed'[x] # NULL => Answered(x)
                        /\ Answered(x) =>
                             ~valid' \/ \E s \in Slot : completed'[x] = <<x, s>> /\ (curr[x] = s => Quiet(x))
  BY CollectVouched
<1>5. \A x \in Router : Quiet(x)' = Quiet(x)
  BY <1>3 DEF Quiet
<1>6. CASE main' = "collect"
  <2>1. \A x \in Router : Answered(x)' = Answered(x)
    BY <1>1, <1>3, <1>6 DEF Answered, Asked
  <2>2. \A m : ~Answer(m)'
    BY <1>1 DEF Answer
  <2>3. RoundOneInv'
    <3> SUFFICES ASSUME NEW x \in Router
                 PROVE  /\ completed'[x] # NULL => Answered(x)'
                        /\ Answered(x)' => ~valid' \/ Vouched(x)'
      BY <2>2 DEF RoundOneInv
    <3>1. (\E s \in Slot : completed'[x] = <<x, s>> /\ (curr[x] = s => Quiet(x))) => Vouched(x)'
      BY <1>3, <1>5 DEF Vouched
    <3> QED BY <1>4, <2>1, <3>1
  <2> QED BY <1>3, <1>6, <2>3 DEF RoundTwoInv, RestInv
<1>7. CASE main' = AfterRound(valid') /\ ~valid'
  BY <1>7 DEF AfterRound, RoundOneInv, RoundTwoInv, RestInv, Asking
<1>8. CASE main' = AfterRound(valid') /\ valid' /\ i' = 0 /\ Owing = {}
  <2>1. main' = "flush" /\ round' = 2
    BY <1>3, <1>8 DEF AfterRound
  <2>2. \A x \in Router : ~Owes(x) /\ Answered(x)
    BY <1>1, <1>8 DEF Owing, Answered, Asked
  <2>3. ASSUME NEW x \in Router
        PROVE  completed'[x] # NULL /\ (Unmoved(x)' => Quiet(x)')
    <3>1. PICK s \in Slot : completed'[x] = <<x, s>> /\ (curr[x] = s => Quiet(x))
      BY <1>4, <1>8, <2>2
    <3>2. <<x, s>> # NULL
      BY StressAssumption DEF Slot
    <3> QED BY <1>3, <1>5, <3>1, <3>2 DEF Unmoved
  <2>4. \A x \in Router : ~Answered(x)'
    <3>1. \A x \in Router : ~(x < 0)
      BY DistanceAssumption DEF Router
    <3>2. \A x \in Router : ~Asked(x)'
      BY <1>8, <2>1, <3>1 DEF Asked
    <3> QED BY <3>2 DEF Answered
  <2>5. Doomed' \/ Calm'
    <3>1. CASE \A x \in Router : Unmoved(x)'
      <4>1. \A x \in Router : rpc'[x] # "reply"
        BY <1>3, <2>2 DEF Owes
      <4> QED BY <2>4, <3>1, <4>1 DEF Calm
    <3>2. CASE \E x \in Router : ~Unmoved(x)'
      BY <2>4, <3>2 DEF Doomed
    <3> QED BY <3>1, <3>2
  <2> QED BY <2>1, <2>3, <2>5 DEF RoundOneInv, RoundTwoInv, RestInv
<1> QED BY <1>1, <1>6, <1>7, <1>8

(* When an answer of the second round is received.                         *)
LEMMA CollectRoundTwo ==
  ASSUME TInv, CheckInv, Collect, round = 2
  PROVE  RoundOneInv' /\ RoundTwoInv' /\ RestInv'
<1>1. /\ main = "collect" /\ Len(queue'[Completed]) = 0
      /\ \A x \in Router : queue'[x] = queue[x]
      /\ \/ main' = "collect"
         \/ main' = AfterRound(valid') /\ i' = 0 /\ Owing = {}
  BY LastAnswer DEF CheckInv
<1>2. PICK d : d = Head(queue[Completed])
  OBVIOUS
<1>3. /\ UNCHANGED <<curr, to_send, changed, rpc, completed>>
      /\ \A x \in Router : Owes(x)' = Owes(x)
      /\ round' = IF main' = "flush" THEN 2 ELSE round
      /\ Answer(d)
      /\ valid' = (valid /\ d # NULL /\ epoch[d[1]][completed[d[1]][2]] = epoch[d[1]][d[2]])
      /\ d # NULL => \E a \in Router, s \in Slot : d = <<a, s>>
  BY <1>2, CollectFacts DEF CheckInv, routerVars
<1>4. /\ \A x \in Router : completed[x] # NULL
      /\ \A x \in Router : Unmoved(x) => Quiet(x)
      /\ Doomed \/ Calm
  BY <1>1 DEF CheckInv, RoundTwoInv, Asking
<1>5. \A x \in Router : Quiet(x)' = Quiet(x) /\ Unmoved(x)' = Unmoved(x)
  BY <1>3 DEF Quiet, Unmoved
<1>6. valid' => \E x \in Router : d = completed[x]
  <2> SUFFICES ASSUME valid' PROVE \E x \in Router : d = completed[x]
    OBVIOUS
  <2>1. PICK a \in Router, s \in Slot : d = <<a, s>>
    BY <1>3
  <2>2. PICK t \in Slot : completed[a] = <<a, t>>
    BY <1>4 DEF CheckInv, AnswerInv
  <2>3. epoch[a][t] = epoch[a][s]
    <3>1. d[1] = a /\ d[2] = s /\ completed[a][2] = t
      BY <2>1, <2>2
    <3>2. epoch[d[1]][completed[d[1]][2]] = epoch[d[1]][d[2]]
      BY <1>3
    <3> QED BY <3>1, <3>2
  <2>4. s = t
    BY <2>3, EpochsDistinct DEF CheckInv
  <2> QED BY <2>1, <2>2, <2>4
<1>7. CASE main' = "collect"
  <2>1. \A x \in Router : Answered(x)' = Answered(x)
    BY <1>1, <1>3, <1>7 DEF Answered, Asked
  <2>2. Doomed => Doomed'
    <3>1. CASE \E r \in Router : ~Answered(r) /\ ~Unmoved(r)
      BY <1>5, <2>1, <3>1 DEF Doomed
    <3>2. CASE ~valid
      BY <1>3, <3>2 DEF Doomed
    <3>3. CASE \A r \in Router : queue[Completed][1] # completed[r]
      BY <1>3, <1>6, <3>3 DEF Doomed, Answer
    <3> QED BY <3>1, <3>2, <3>3 DEF Doomed
  <2>3. Calm => Calm'
    <3> SUFFICES ASSUME Calm, NEW r \in Router
                 PROVE  /\ Unmoved(r)'
                        /\ rpc'[r] = "reply" \/ Answered(r)' => queue'[r] = <<>> /\ rpc'[r] \in {"reply", "select"}
      BY DEF Calm
    <3> QED BY <1>1, <1>3, <1>5, <2>1 DEF Calm
  <2>4. RoundTwoInv'
    BY <1>3, <1>4, <1>5, <2>2, <2>3 DEF RoundTwoInv
  <2> QED BY <1>3, <1>7, <2>4 DEF RoundOneInv, RestInv
<1>8. CASE main' = AfterRound(valid') /\ ~valid'
  BY <1>8 DEF AfterRound, RoundOneInv, RoundTwoInv, RestInv, Asking
<1>9. CASE main' = AfterRound(valid') /\ valid' /\ Owing = {}
  <2>1. main' = "verify"
    BY <1>9 DEF AfterRound
  <2>2. \A x \in Router : ~Owes(x) /\ Answered(x)
    BY <1>1, <1>9 DEF Owing, Answered, Asked
  <2>3. Calm
    BY <1>3, <1>4, <1>6, <1>9, <2>2 DEF Doomed, Answer
  <2>4. ASSUME NEW x \in Router
        PROVE  /\ queue'[x] = <<>> /\ to_send'[x] = {} /\ ~changed'[x]
               /\ rpc'[x] \in {"select", "exited"} /\ Unmoved(x)'
    <3>1. Unmoved(x) /\ queue[x] = <<>> /\ rpc[x] \in {"reply", "select"} /\ rpc[x] # "reply"
      BY <2>2, <2>3 DEF Calm, Owes
    <3> QED BY <1>1, <1>3, <1>4, <1>5, <3>1 DEF Quiet
  <2>5. RestInv'
    BY <2>4 DEF RestInv, AtRest
  <2> QED BY <2>1, <2>5 DEF RoundOneInv, RoundTwoInv, Asking
<1> QED BY <1>1, <1>7, <1>8, <1>9

(* In the second round, whatever a router does.                            *)
LEMMA RouterRoundTwo ==
  ASSUME TInv, QueueOK', HandoverInv, VectorInv, CheckInv, AnswersKept, SelectWorks,
         NEW r \in Router, router(r)
  PROVE  RoundTwoInv'
<1> SUFFICES ASSUME Asking', round' = 2
             PROVE  /\ \A x \in Router : completed'[x] # NULL
                    /\ \A x \in Router : Unmoved(x)' => Quiet(x)'
                    /\ Doomed' \/ Calm'
  BY DEF RoundTwoInv
<1>1. /\ UNCHANGED <<main, round, i, valid, completed, closed>> /\ Asking /\ round = 2 /\ ~closed
      /\ \/ Moves(r) /\ Silent(r)
         \/ Moves(r) /\ Answers(r) /\ Reply(r)
  BY RouterWhileAsking
<1>2. /\ \A x \in Router : completed[x] # NULL
      /\ \A x \in Router : Unmoved(x) => Quiet(x)
      /\ Doomed \/ Calm
  BY <1>1 DEF CheckInv, RoundTwoInv
<1>3. /\ \A x \in Router : x # r => Unmoved(x)' = Unmoved(x) /\ Quiet(x)' = Quiet(x)
      /\ Unmoved(r)' => Unmoved(r) /\ curr'[r] = curr[r] /\ (Quiet(r) => Quiet(r)')
      /\ Unmoved(r) /\ curr'[r] = curr[r] => Unmoved(r)'
  <2>1. completed[r] # <<r, next(r)>>
    BY <1>1, KeptFacts
  <2> QED BY <1>1, <2>1 DEF Moves, Unmoved, Quiet
<1>4. ASSUME NEW x \in Router PROVE Unmoved(x)' => Quiet(x)'
  BY <1>2, <1>3
<1>5. ASSUME Moves(r), Silent(r) PROVE Doomed' \/ Calm'
  <2>1. /\ queue'[Completed] = queue[Completed]
        /\ \A x \in Router : Answered(x)' = Answered(x)
    BY <1>1, <1>5 DEF Silent, Answered, Asked
  <2>2. CASE Doomed
    <3>1. CASE \E x \in Router : ~Answered(x) /\ ~Unmoved(x)
      <4>1. PICK x \in Router : ~Answered(x) /\ ~Unmoved(x)
        BY <3>1
      <4>2. ~Answered(x)' /\ ~Unmoved(x)'
        BY <1>3, <2>1, <4>1
      <4> QED BY <4>2 DEF Doomed
    <3>2. CASE ~valid \/ (Len(queue[Completed]) = 1 /\ \A x \in Router : queue[Completed][1] # completed[x])
      BY <1>1, <2>1, <3>2 DEF Doomed
    <3> QED BY <2>2, <3>1, <3>2 DEF Doomed
  <2>3. CASE Calm
    <3>1. /\ Unmoved(r) /\ Quiet(r)
          /\ rpc[r] = "reply" \/ Answered(r) => queue[r] = <<>> /\ rpc[r] \in {"reply", "select"}
      BY <1>2, <2>3 DEF Calm
    <3>2. ASSUME \A x \in Router : x # r => queue'[x] = queue[x],
                 rpc'[r] = "reply" => queue'[r] = <<>>, ~Answered(r), curr'[r] = curr[r]
          PROVE  Calm'
      <4> SUFFICES ASSUME NEW x \in Router
                   PROVE  /\ Unmoved(x)'
                          /\ rpc'[x] = "reply" \/ Answered(x)' => queue'[x] = <<>> /\ rpc'[x] \in {"reply", "select"}
        BY DEF Calm
      <4>1. CASE x = r
        BY <1>3, <2>1, <3>1, <3>2, <4>1
      <4>2. CASE x # r
        <5>1. rpc'[x] = rpc[x]
          BY <1>5, <4>2 DEF Moves
        <5> QED BY <1>3, <2>1, <2>3, <3>2, <4>2, <5>1 DEF Calm
      <4> QED BY <4>1, <4>2
    <3>3. CASE SelectReceive(r)
      <4>1. /\ Len(queue[r]) = 1 /\ Len(queue'[r]) = 0
            /\ \A x \in Every : x # r => queue'[x] = queue[x]
        BY <3>3, ReceiveFacts DEF TInv, Every, SelectReceive
      <4>2. queue'[r] = <<>> /\ queue[r] # <<>>
        <5>1. queue[r] \in Seq(Message) /\ queue'[r] \in Seq(Message)
          BY DEF TInv, QueueOK, Every
        <5>2. queue'[r] = <<>>
          BY <4>1, <5>1, EmptySeq
        <5>3. queue[r] # <<>>
          BY <3>3 DEF SelectReceive, Receive
        <5> QED BY <5>2, <5>3
      <4>3. curr'[r] = curr[r]
        BY <3>3 DEF SelectReceive
      <4>4. \A x \in Router : x # r => queue'[x] = queue[x]
        BY <4>1 DEF Every
      <4> QED BY <3>1, <3>2, <4>2, <4>3, <4>4
    <3>4. CASE Merge(r)
      <4>1. rpc[r] = "merge" /\ queue' = queue
        BY <3>4 DEF Merge
      <4>2. ~Answered(r)
        BY <3>1, <4>1
      <4>3. rpc'[r] = "select"
        BY <3>4 DEF Merge, EndIteration, TInv, FrameOK
      <4>4. CASE curr'[r] = curr[r]
        BY <3>2, <4>1, <4>2, <4>3, <4>4
      <4>5. CASE curr'[r] # curr[r]
        <5>1. ~Unmoved(r)' /\ ~Answered(r)'
          BY <1>3, <2>1, <4>2, <4>5
        <5> QED BY <5>1 DEF Doomed
      <4> QED BY <4>4, <4>5
    <3>5. ~SelectSend(r)
      BY <3>1, SelectSendStep DEF CheckInv
    <3>6. ~Cycle(r)
      BY <3>1 DEF Cycle, VectorInv, LocalInv, Quiet
    <3>7. ~Reply(r)
      <4>1. ASSUME Reply(r) PROVE FALSE
        <5>1. Answers(r)
          BY <4>1, ReplyStep
        <5> QED BY <2>1, <5>1 DEF Answers
      <4> QED BY <4>1
    <3> QED BY <1>1, <3>3, <3>4, <3>5, <3>6, <3>7 DEF router, channel_select, SelectClosed
  <2> QED BY <1>2, <2>2, <2>3
<1>6. ASSUME Moves(r), Answers(r) PROVE Doomed' \/ Calm'
  <2>1. /\ Len(queue[Completed]) = 0 /\ Len(queue'[Completed]) = 1
        /\ queue'[Completed][1] = IF Quiet(r) THEN <<r, curr[r]>> ELSE NULL
        /\ \A x \in Router : queue'[x] = queue[x]
        /\ rpc[r] = "reply" /\ rpc'[r] = "select"
        /\ curr'[r] = curr[r]
        /\ \A x \in Router : x # r => rpc'[x] = rpc[x]
    BY <1>6 DEF Answers, Moves
  <2>2. \A x \in Router : x # r => Answered(x)' = Answered(x)
    BY <1>1, <2>1 DEF Answered, Asked, Owes, HasNull
  <2>3. CASE Doomed
    <3>1. CASE ~valid
      BY <1>1, <3>1 DEF Doomed
    <3>2. CASE Unmoved(r)
      <4>1. CASE \E x \in Router : ~Answered(x) /\ ~Unmoved(x)
        <5>1. PICK x \in Router : ~Answered(x) /\ ~Unmoved(x)
          BY <4>1
        <5>2. x # r
          BY <3>2, <5>1
        <5>3. ~Answered(x)' /\ ~Unmoved(x)'
          BY <1>3, <2>2, <5>1, <5>2
        <5> QED BY <5>3 DEF Doomed
      <4> QED BY <1>1, <2>1, <2>3, <4>1 DEF Doomed
    <3>3. CASE ~Unmoved(r)
      <4>1. ASSUME NEW x \in Router PROVE queue'[Completed][1] # completed[x]
        <5>1. PICK s \in Slot : completed[x] = <<x, s>>
          BY <1>2 DEF CheckInv, AnswerInv
        <5>2. <<r, curr[r]>> # completed[x]
          BY <3>3, <5>1 DEF Unmoved
        <5> QED BY <1>2, <2>1, <5>2
      <4> QED BY <1>1, <2>1, <4>1 DEF Doomed
    <3> QED BY <3>2, <3>3
  <2>4. CASE Calm
    <3> SUFFICES ASSUME NEW x \in Router
                 PROVE  /\ Unmoved(x)'
                        /\ rpc'[x] = "reply" \/ Answered(x)' => queue'[x] = <<>> /\ rpc'[x] \in {"reply", "select"}
      BY DEF Calm
    <3>1. /\ Unmoved(x)
          /\ rpc[x] = "reply" \/ Answered(x) => queue[x] = <<>> /\ rpc[x] \in {"reply", "select"}
      BY <2>4 DEF Calm
    <3>2. CASE x = r
      BY <1>3, <2>1, <3>1, <3>2
    <3>3. CASE x # r
      BY <1>3, <2>1, <2>2, <3>1, <3>3
    <3> QED BY <3>2, <3>3
  <2> QED BY <1>2, <2>3, <2>4
<1> QED BY <1>1, <1>2, <1>4, <1>5, <1>6

(* Nobody leaves his rest after check_done has accepted.                   *)
LEMMA RouterRest ==
  ASSUME TInv, HandoverInv, VectorInv, CheckInv, SelectWorks, NEW r \in Router, router(r)
  PROVE  RestInv' /\ EndInv'
<1>1. CASE SelectClosed(r) /\ closed
  <2>1. main \in {"join", "end"}
    BY <1>1 DEF CheckInv, EndInv
  <2>2. AtRest /\ \A x \in Router : Unmoved(x)
    BY <2>1 DEF CheckInv, RestInv
  <2>3. UNCHANGED <<main, closed, completed, queue, to_send, changed, curr>>
    BY <1>1, <2>2 DEF SelectClosed, AtRest, mainVars
  <2>4. rpc' = [rpc EXCEPT ![r] = "exited"] /\ DOMAIN rpc = Router
    BY <1>1 DEF SelectClosed, Selected, TInv, FrameOK
  <2>5. AtRest' /\ \A x \in Router : Unmoved(x)'
    BY <2>2, <2>3, <2>4 DEF AtRest, Unmoved
  <2> QED BY <1>1, <2>1, <2>3, <2>5 DEF RestInv, EndInv
<1>2. CASE Moves(r) /\ (Silent(r) \/ Answers(r))
  <2>1. UNCHANGED <<main, closed>>
    BY <1>2 DEF Silent, Answers, mainVars
  <2>2. EndInv'
    BY <1>2, <2>1 DEF CheckInv, EndInv, Moves, Silent, Answers
  <2>3. CASE main \in {"verify", "close", "join", "end"}
    <3>1. queue[r] = <<>> /\ to_send[r] = {} /\ ~changed[r] /\ rpc[r] \in {"select", "exited"}
      BY <2>3 DEF CheckInv, RestInv, AtRest
    <3>2. ~SelectReceive(r) /\ ~SelectSend(r) /\ ~Cycle(r) /\ ~Merge(r) /\ ~Reply(r)
      BY <3>1 DEF SelectReceive, Receive, SelectSend, Cycle, Merge, Reply
    <3>3. SelectClosed(r)
      BY <3>2 DEF router, channel_select
    <3>4. closed /\ rpc' = [rpc EXCEPT ![r] = "exited"] /\ DOMAIN rpc = Router
      BY <3>3 DEF SelectClosed, Selected, TInv, FrameOK
    <3>5. rpc'[r] = "exited"
      BY <3>4
    <3> QED BY <1>2, <3>5 DEF Silent, Answers
  <2>4. CASE main \notin {"verify", "close", "join", "end"}
    BY <2>1, <2>2, <2>4 DEF RestInv
  <2> QED BY <2>3, <2>4
<1> QED BY <1>1, <1>2, RouterStep DEF CheckInv

(* The steps of the main thread outside of the two rounds.                 *)
LEMMA OtherMainCheck ==
  ASSUME TInv, VectorInv, CheckInv, Solved, Retry \/ Verify \/ CloseDone \/ Join
  PROVE  RoundOneInv' /\ RoundTwoInv' /\ RestInv' /\ EndInv'
<1>1. UNCHANGED <<queue, rpc, to_send, changed, curr>>
  BY DEF Retry, Verify, CloseDone, Join, routerVars
<1>2. CASE Retry
  <2>1. main = "usleep" /\ main' = "flush" /\ round' = 1 /\ completed' = [r \in Router |-> NULL] /\ closed' = closed
    BY <1>2 DEF Retry
  <2>2. Len(queue[Completed]) = 0 /\ i' = 0
    <3>1. Cardinality(Owing) + Len(queue[Completed]) = 0
      BY <2>1 DEF CheckInv, TokenInv, Due
    <3>2. Len(queue[Completed]) \in Nat /\ Cardinality(Owing) \in Nat
      BY OwingFinite, LenProperties DEF TInv, QueueOK, Every
    <3> QED BY <1>2, <3>1, <3>2 DEF Retry, CheckInv, TokenInv
  <2>3. \A x \in Router : ~Answered(x)' /\ completed'[x] = NULL /\ \A m : ~Answer(m)'
    <3>1. \A x \in Router : ~(x < 0)
      BY DistanceAssumption DEF Router
    <3> QED BY <1>1, <2>1, <2>2, <3>1 DEF Answered, Asked, Answer
  <2>4. RoundOneInv'
    BY <2>3 DEF RoundOneInv
  <2> QED BY <1>1, <2>1, <2>4 DEF RoundTwoInv, RestInv, EndInv, CheckInv
<1>3. CASE Verify \/ CloseDone \/ Join
  <2>1. main \in {"verify", "close", "join"} /\ completed' = completed
    BY <1>3 DEF Verify, CloseDone, Join, Iterate
  <2>2. AtRest /\ \A x \in Router : Unmoved(x)
    BY <2>1 DEF CheckInv, RestInv
  <2>3. AtRest' /\ \A x \in Router : Unmoved(x)'
    BY <1>1, <2>1, <2>2 DEF AtRest, Unmoved
  <2>4. main' \in {"close", "join", "end"} /\ (closed' => main' \in {"join", "end"}) /\ (closed => closed')
    <3>1. CASE Verify
      <4>1. \A r \in Router : dist[r][curr[r]] = solution[r]
        BY <2>2, RestSolution
      <4>2. \A r \in Router : completed[r][2] = curr[r]
        BY <2>2 DEF Unmoved
      <4>3. main' = "close" /\ closed' = closed /\ main = "verify"
        BY <3>1, <4>1, <4>2 DEF Verify
      <4> QED BY <4>3 DEF CheckInv, EndInv
    <3>2. CASE CloseDone
      BY <3>2 DEF CloseDone
    <3>3. CASE Join
      BY <3>3 DEF Join, Iterate
    <3> QED BY <1>3, <3>1, <3>2, <3>3
  <2>5. EndInv'
    BY <1>1, <2>4 DEF EndInv, CheckInv
  <2> QED BY <2>3, <2>4, <2>5 DEF RoundOneInv, RoundTwoInv, RestInv, Asking
<1> QED BY <1>2, <1>3

(* Every step keeps the invariant of check_done, as long as the answers it *)
(* holds are kept.                                                         *)
LEMMA StepCheck ==
  ASSUME TInv, TInv', HandoverInv, VectorInv, CheckInv, AnswersKept, Solved, SelectWorks, [Next]_vars
  PROVE  CheckInv'
<1>1. TokenInv' /\ EpochInv' /\ AnswerInv'
  BY StepToken, StepEpoch, StepAnswer DEF CheckInv, EndInv
<1>2. ASSUME NEW r \in Router, router(r)
      PROVE  RoundOneInv' /\ RoundTwoInv' /\ RestInv' /\ EndInv'
  BY <1>2, RouterRoundOne, RouterRoundTwo, RouterRest DEF TInv
<1>3. ASSUME Flush
      PROVE  RoundOneInv' /\ RoundTwoInv' /\ RestInv' /\ EndInv'
  <2>1. main' \in {"flush", "collect"} /\ UNCHANGED <<closed, rpc>> /\ main = "flush"
    BY <1>3 DEF Flush, Iterate, routerVars
  <2>2. RestInv' /\ EndInv'
    BY <2>1 DEF RestInv, EndInv, CheckInv
  <2> QED BY <1>3, <2>2, FlushRounds
<1>4. ASSUME Collect
      PROVE  RoundOneInv' /\ RoundTwoInv' /\ RestInv' /\ EndInv'
  <2>1. /\ main' \in {"collect", "usleep", "flush", "verify"} /\ main = "collect"
        /\ UNCHANGED <<closed, rpc>>
    BY <1>4 DEF Collect, Iterate, AfterRound, routerVars
  <2>2. EndInv'
    BY <2>1 DEF EndInv, CheckInv
  <2>3. round \in {1, 2}
    BY DEF TInv, MainOK
  <2> QED BY <1>4, <2>2, <2>3, CollectRoundOne, CollectRoundTwo
<1>5. ASSUME Retry \/ Verify \/ CloseDone \/ Join
      PROVE  RoundOneInv' /\ RoundTwoInv' /\ RestInv' /\ EndInv'
  BY <1>5, OtherMainCheck
<1>6. ASSUME UNCHANGED vars
      PROVE  RoundOneInv' /\ RoundTwoInv' /\ RestInv' /\ EndInv'
  <2>1. UNCHANGED <<queue, closed, main, round, i, valid, completed, rpc, to_send, changed, curr>>
    BY <1>6 DEF vars, mainVars, routerVars
  <2>2. \A x \in Router : /\ Quiet(x)' = Quiet(x) /\ Unmoved(x)' = Unmoved(x)
                          /\ Answered(x)' = Answered(x)
    BY <2>1 DEF Quiet, Unmoved, Answered, Asked, Owes, HasNull
  <2>3. \A m : Answer(m)' = Answer(m)
    BY <2>1 DEF Answer
  <2>4. RoundOneInv'
    BY <2>1, <2>2, <2>3 DEF CheckInv, RoundOneInv, Asking, Vouched
  <2>5. RoundTwoInv'
    BY <2>1, <2>2 DEF CheckInv, RoundTwoInv, Asking, Doomed, Calm
  <2>6. RestInv' /\ EndInv'
    BY <2>1, <2>2 DEF CheckInv, RestInv, EndInv, AtRest
  <2> QED BY <2>4, <2>5, <2>6
<1>7. RoundOneInv' /\ RoundTwoInv' /\ RestInv' /\ EndInv'
  BY <1>2, <1>3, <1>4, <1>5, <1>6 DEF Next, run_stress, Terminated
<1> QED BY <1>1, <1>7 DEF CheckInv

(* At first check_done has asked nobody.                                   *)
LEMMA InitCheck == Init => CheckInv
<1> SUFFICES ASSUME Init PROVE CheckInv
  OBVIOUS
<1>1. /\ main = "flush" /\ round = 1 /\ i = 0 /\ closed = FALSE
      /\ rpc = [r \in Router |-> "select"] /\ completed = [r \in Router |-> NULL]
      /\ epoch = [r \in Router |-> [s \in Slot |-> s]] /\ curr = [r \in Router |-> 2]
      /\ \A c \in Every : queue[c] = <<>> /\ Len(queue[c]) = 0
  BY EmptySeq DEF Init, Every
<1>2. Completed \in Every /\ \A r \in Router : r \in Every /\ ~(r < 0)
  BY DistanceAssumption DEF Every, Router
<1>3. \A r \in Router : ~HasNull(r) /\ ~Owes(r) /\ ~Asked(r) /\ ~Answered(r)
  <2> SUFFICES ASSUME NEW r \in Router PROVE ~HasNull(r) /\ ~Owes(r) /\ ~Asked(r) /\ ~Answered(r)
    OBVIOUS
  <2>1. ~HasNull(r)
    BY <1>1, <1>2 DEF HasNull
  <2>2. ~Owes(r)
    BY <1>1, <2>1 DEF Owes
  <2>3. ~Asked(r)
    BY <1>1, <1>2 DEF Asked
  <2> QED BY <2>1, <2>2, <2>3 DEF Answered
<1>4. \A m : ~Answer(m)
  BY <1>1, <1>2 DEF Answer
<1>5. TokenInv
  <2>1. Owing = {}
    BY <1>3 DEF Owing
  <2>2. Cardinality(Owing) = 0
    BY <2>1, FS_EmptySet
  <2>3. Due = 0 /\ Len(queue[Completed]) = 0
    BY <1>1, <1>2 DEF Due
  <2>4. Cardinality(Owing) + Len(queue[Completed]) = Due
    BY <2>2, <2>3
  <2> QED BY <1>1, <1>3, <2>4 DEF TokenInv
<1>6. EpochInv
  BY <1>1 DEF EpochInv, next, After, Before, Slot
<1>7. AnswerInv /\ RoundOneInv /\ RoundTwoInv /\ RestInv /\ EndInv
  BY <1>1, <1>3, <1>4 DEF AnswerInv, RoundOneInv, RoundTwoInv, RestInv, EndInv
<1> QED BY <1>5, <1>6, <1>7 DEF CheckInv

AcceptanceInv == TInv /\ HandoverInv /\ VectorInv /\ CheckInv

(* The invariant holds as long as the answers check_done holds are kept.   *)
LEMMA Acceptance ==
  SelectWorks /\ Solved => (Spec /\ []AnswersKept => []AcceptanceInv)
<1> SUFFICES ASSUME SelectWorks, Solved
             PROVE  Spec /\ []AnswersKept => []AcceptanceInv
  OBVIOUS
<1>1. Init => AcceptanceInv
  BY InitTInv, InitHandover, InitVector, InitCheck DEF AcceptanceInv
<1>2. AcceptanceInv /\ AnswersKept /\ [Next]_vars => AcceptanceInv'
  BY StepTInv, StepHandover, StepVector, StepCheck DEF AcceptanceInv
<1> QED BY <1>1, <1>2, PTL DEF Spec

(* When check_done accepts, and until the routers have exited, the network *)
(* is at rest and every router knows its distances: on any network, with a *)
(* channel_select that works, as long as no router writes to a state that  *)
(* check_done still holds a pointer to.                                    *)
THEOREM AcceptedAtRest ==
  SelectWorks /\ Solved => (Spec /\ []AnswersKept => []RestWhenAccepted)
<1> SUFFICES ASSUME SelectWorks, Solved
             PROVE  Spec /\ []AnswersKept => []RestWhenAccepted
  OBVIOUS
<1>1. AcceptanceInv => RestWhenAccepted
  BY RestSolution DEF AcceptanceInv, CheckInv, RestInv, AtRest, RestWhenAccepted
<1> QED BY <1>1, Acceptance, PTL

(* No assert of router or check_done fails, under the same conditions.     *)
THEOREM NoAssertFails ==
  SelectWorks /\ Solved => (Spec /\ []AnswersKept => []AssertsHold)
<1> SUFFICES ASSUME SelectWorks, Solved
             PROVE  Spec /\ []AnswersKept => []AssertsHold
  OBVIOUS
<1>1. AcceptanceInv => AssertsHold
  BY DEF AcceptanceInv, CheckInv, EndInv, AssertsHold
<1> QED BY <1>1, Acceptance, PTL
=============================================================================
