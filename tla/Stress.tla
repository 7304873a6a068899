------------------------------- MODULE Stress -------------------------------
(***************************************************************************)
(* The router stress test of stress.c: num_channel routers exchange their  *)
(* distance vectors until check_done finds that all of them have converged *)
(* to the solution.                                                        *)
(*                                                                         *)
(* Channels are the atomic bounded queues of RefinementProofs, as in Ring. *)
(* channel_select, on which the routers rest, is a stub in channel.c.      *)
(* With SelectWorks = FALSE the routers call that stub.  With SelectWorks  *)
(* = TRUE they call a channel_select that keeps the promises of channel.h: *)
(* what is then shown is that stress.c is right if such a channel_select   *)
(* is linked with it.                                                      *)
(***************************************************************************)
EXTENDS Distance, Sequences, FiniteSets, Functions

CONSTANTS
  Networks,               (* results of create_topology: a topology and    *)
                          (* the solution of floyd_warshall (Topology)     *)
  main_buffer_size, secondary_buffer_size,
  SelectWorks,
  Garbage,                (* values of the uninitialised selected_index    *)
  NULL

ASSUME StressAssumption ==
  /\ \A n \in Networks :
       /\ n.topology \in Matrix /\ n.solution \in Matrix
       /\ Below(n.solution, n.topology) /\ NoShortcut(n.solution)
       /\ \A a, b \in Router :   (* links have two directions *)
            n.topology[a][b] = inf_distance <=> n.topology[b][a] = inf_distance
  /\ main_buffer_size \in 0 .. 1 /\ secondary_buffer_size \in 0 .. 1
  /\ SelectWorks \in BOOLEAN /\ Garbage \subseteq Nat
  /\ NULL \notin Router \X (0 .. 3)

Completed == num_channel        (* index of completed_channel in queue     *)
Slot == 0 .. 3                  (* the four states a router allocates      *)
Pointer == Router \X Slot       (* to the states of all routers            *)
Message == Pointer \cup {NULL}

VARIABLES
  topology, solution,
  queue,        (* the contents of channels[i] and completed_channel       *)
  closed,       (* done_channel                                            *)
  main,         (* the loop of check_done or run_stress that runs          *)
  round, i, valid, completed,
  rpc,          (* select; merge, reply or cycle after it; exited;         *)
                (* overrun: select_count has gone below 2 or               *)
                (* selected_index is out of the bounds of select_list      *)
  selected_index,
  data,         (* select_list[1].data until the end of its iteration      *)
  select_list,  (* the channels of its neighbours, in their present order  *)
  to_send,      (* those before select_list[select_count]                  *)
  changed,
  curr,         (* the slot of curr_state                                  *)
  epoch, dist   (* the contents of the slots                               *)

routerVars == <<rpc, data, select_list, to_send, changed, curr, epoch, dist>>
mainVars == <<closed, main, round, i, valid, completed>>
given == <<topology, solution, selected_index>>
vars == <<given, queue, mainVars, routerVars>>

-----------------------------------------------------------------------------
HasRoom(c) ==
  Len(queue[c]) < IF c = Completed THEN secondary_buffer_size ELSE main_buffer_size

Send(c, m) == HasRoom(c) /\ queue' = [queue EXCEPT ![c] = Append(@, m)]

Receive(c) == queue[c] # <<>> /\ queue' = [queue EXCEPT ![c] = Tail(@)]

Abort == main' = "abort" /\ UNCHANGED <<closed, round, i, valid, completed>>

-----------------------------------------------------------------------------
(***************************************************************************)
(* router.  select_list[r][k] is select_list[k + 1].channel of the code,   *)
(* and to_send[r] holds its first select_count - 2 entries.                *)
(* prev_prev_state, prev_state, curr_state and next_state are consecutive  *)
(* slots, and a cycle moves each of them on by one.                        *)
(***************************************************************************)
Neighbours(r) == {n \in Router \ {r} : topology[r][n] # inf_distance}

(* Mutant: curr_state and next_state are swapped. *)
AfterOfTwo(s) == IF s = 3 THEN 2 ELSE 3

After(s) == (s + 1) % 4

next(r) == After(curr[r])

(* The place of n among the neighbours of r by their numbers. *)
Place(r, n) == Cardinality({m \in Neighbours(r) : m <= n})

InitialList(r) ==
  [k \in 1 .. Cardinality(Neighbours(r)) |-> CHOOSE n \in Neighbours(r) : Place(r, n) = k]

(* Mutant: the last channel is copied, and its own entry left as it is. *)
CopyLast(r, k) ==
  select_list' = [select_list EXCEPT ![r][k] = select_list[r][Cardinality(to_send[r])]]

(* Entry k and the last of those to send to change places. *)
SwapWithLast(r, k) ==
  LET last == Cardinality(to_send[r])
  IN  select_list' = [select_list EXCEPT ![r][k] = select_list[r][last],
                                         ![r][last] = select_list[r][k]]

(* Mutant: select_count is compared with 1, which it never is.             *)
EndIterationOffByOne(r, left, vector, better) ==
  /\ rpc' = [rpc EXCEPT ![r] = "select"]
  /\ changed' = [changed EXCEPT ![r] = better]
  /\ to_send' = [to_send EXCEPT ![r] = left]
  /\ dist' = [dist EXCEPT ![r][next(r)] = vector]
  /\ UNCHANGED <<curr, epoch>>

(* The end of an iteration: when everybody has been sent curr_state and    *)
(* next_state is better, next_state is broadcast.                          *)
EndIteration(r, left, vector, better) ==
  LET recycled == After(next(r))
      cycle == left = {} /\ better
  IN  /\ rpc' = [rpc EXCEPT ![r] = "select"]
      /\ changed' = [changed EXCEPT ![r] = better /\ ~cycle]
      /\ to_send' = [to_send EXCEPT ![r] = IF cycle THEN Neighbours(r) ELSE left]
      /\ IF cycle
         THEN /\ curr' = [curr EXCEPT ![r] = next(r)]
              /\ epoch' = [epoch EXCEPT ![r][recycled] = epoch[r][next(r)] + 1]
              /\ dist' = [dist EXCEPT ![r] = [@ EXCEPT ![next(r)] = vector,
                                                       ![recycled] = vector]]
         ELSE /\ dist' = [dist EXCEPT ![r][next(r)] = vector]
              /\ UNCHANGED <<curr, epoch>>

Selected(r, then) == rpc[r] = "select" /\ rpc' = [rpc EXCEPT ![r] = then]

(* channel_select takes the first option of select_list: done_channel,     *)
(* then channels[r], then the channels of neighbours.                      *)
SelectReceive(r) ==
  /\ ~closed
  /\ Receive(r)
  /\ Selected(r, IF Head(queue[r]) = NULL THEN "reply" ELSE "merge")
  /\ data' = [data EXCEPT ![r] = Head(queue[r])]
  /\ UNCHANGED <<given, mainVars, select_list, to_send, changed, curr, epoch, dist>>

(* The first of the neighbours to send to whose channel has room. *)
SelectSend(r) ==
  /\ ~closed /\ queue[r] = <<>>
  /\ \E n \in to_send[r], k \in 1 .. Cardinality(to_send[r]) :
       /\ n = select_list[r][k]
       /\ \A j \in 1 .. k - 1 : ~HasRoom(select_list[r][j])
       /\ Send(n, <<r, curr[r]>>)
       /\ to_send' = [to_send EXCEPT ![r] = @ \ {n}]
       /\ SwapWithLast(r, k)
       /\ Selected(r, IF to_send[r] = {n} /\ changed[r] THEN "cycle" ELSE "select")
  /\ UNCHANGED <<given, mainVars, data, changed, curr, epoch, dist>>

SelectClosed(r) ==
  /\ Selected(r, "exited")
  /\ closed
  /\ IF changed[r] THEN Abort ELSE UNCHANGED mainVars
  /\ UNCHANGED <<given, queue, data, select_list, to_send, changed, curr, epoch, dist>>

(* channel_select as channel.c has it: SUCCESS, whatever selected_index    *)
(* holds.  An index of 2 or more counts down select_count: what is dropped *)
(* is the channel selected or, when that has been dropped before, the last *)
(* one left.  With none left select_count would go below 2 and then around *)
(* zero: the router is given up as overrun.                                *)
SelectStub(r) ==
  LET s == selected_index[r]
      last == Cardinality(to_send[r])
      inBounds == s < 2 + Cardinality(Neighbours(r)) /\ to_send[r] # {}
  IN  /\ Selected(r, IF s = 1 THEN "reply" ELSE IF s = 0 \/ inBounds THEN "select" ELSE "overrun")
      /\ IF s = 0 THEN Abort ELSE UNCHANGED mainVars
      /\ IF s >= 2 /\ inBounds
         THEN /\ \E n \in to_send[r] :
                   /\ n = select_list[r][IF s - 1 < last THEN s - 1 ELSE last]
                   /\ to_send' = [to_send EXCEPT ![r] = @ \ {n}]
              /\ SwapWithLast(r, s - 1)
         ELSE UNCHANGED <<select_list, to_send>>
      /\ UNCHANGED <<given, queue, data, changed, curr, epoch, dist>>

channel_select(r) ==
  \/ SelectWorks /\ (SelectReceive(r) \/ SelectSend(r) \/ SelectClosed(r))
  \/ ~SelectWorks /\ SelectStub(r)

(* The end of an iteration that has sent to the last neighbour.            *)
Cycle(r) ==
  /\ rpc[r] = "cycle"
  /\ EndIteration(r, to_send[r], dist[r][next(r)], changed[r])
  /\ UNCHANGED <<given, queue, mainVars, data, select_list>>

Improved(old, new) == [d \in Router |-> IF new[d] < old[d] THEN new[d] ELSE old[d]]

(* Update next_state with the vector of a neighbour. *)
Merge(r) ==
  LET neighbor_state == dist[data[r][1]][data[r][2]]
      neighbor_dist == topology[r][data[r][1]]
      old == dist[r][next(r)]
      merged == Improved(old, [d \in Router |-> Plus(neighbor_dist, neighbor_state[d])])
  IN  /\ rpc[r] = "merge"
      /\ EndIteration(r, to_send[r], merged, changed[r] \/ merged # old)
      /\ IF neighbor_dist = inf_distance THEN Abort ELSE UNCHANGED mainVars
      /\ data' = [data EXCEPT ![r] = NULL]
      /\ UNCHANGED <<given, queue, select_list>>

(* Mutant: a router with news to send answers that it has converged. *)
ReplyEarly(r) ==
  /\ rpc[r] = "reply"
  /\ Send(Completed, IF changed[r] THEN NULL ELSE <<r, curr[r]>>)
  /\ EndIteration(r, to_send[r], dist[r][next(r)], changed[r])
  /\ UNCHANGED <<given, mainVars, data, select_list>>

(* Answer the special message. *)
Reply(r) ==
  /\ rpc[r] = "reply"
  /\ Send(Completed, IF to_send[r] = {} /\ ~changed[r] THEN <<r, curr[r]>> ELSE NULL)
  /\ EndIteration(r, to_send[r], dist[r][next(r)], changed[r])
  /\ UNCHANGED <<given, mainVars, data, select_list>>

(* A step of router that sends a vector. *)
Sends(r) == SelectWorks /\ main # "abort" /\ SelectSend(r)

router(r) ==
  /\ main # "abort"
  /\ channel_select(r) \/ Cycle(r) \/ Merge(r) \/ Reply(r)

-----------------------------------------------------------------------------
(***************************************************************************)
(* check_done and run_stress, one action per iteration of each loop.       *)
(***************************************************************************)
Iterate(loop, then) ==
  /\ main = loop
  /\ IF i < num_channel - 1 THEN main' = loop /\ i' = i + 1 ELSE main' = then /\ i' = 0

(* Send the special NULL message to every router. *)
Flush ==
  /\ Iterate("flush", "collect")
  /\ Send(i, NULL)
  /\ UNCHANGED <<given, closed, round, valid, completed, routerVars>>

(* Mutant: the epochs are not compared. *)
StillValidAnyEpoch(d) == valid /\ d # NULL

(* What the answer d leaves of valid. *)
StillValid(d) ==
  /\ valid /\ d # NULL
  /\ round = 2 => epoch[d[1]][completed[d[1]][2]] = epoch[d[1]][d[2]]

(* Where the last answer of a round leads. *)
AfterRoundOneOnly(ok) == IF ok THEN "verify" ELSE "usleep"

AfterRound(ok) == IF ~ok THEN "usleep" ELSE IF round = 1 THEN "flush" ELSE "verify"

(* Receive an answer: NULL, or the current state of a router. *)
Collect ==
  LET d == Head(queue[Completed])
  IN  /\ main = "collect" /\ Receive(Completed)
      /\ valid' = StillValid(d)
      /\ Iterate("collect", AfterRound(valid'))
      /\ round' = IF main' = "flush" THEN 2 ELSE round
      /\ completed' = IF d # NULL /\ round = 1
                      THEN [completed EXCEPT ![d[1]] = d] ELSE completed
      /\ UNCHANGED <<given, closed, routerVars>>

(* check_done has returned false and is called again after a usleep. *)
Retry ==
  /\ main = "usleep" /\ main' = "flush"
  /\ round' = 1 /\ valid' = TRUE
  /\ completed' = [r \in Router |-> NULL]
  /\ UNCHANGED <<given, queue, closed, i, routerVars>>

(* The asserts on the results; check_done returns true. *)
Verify ==
  /\ main = "verify"
  /\ main' = IF \A r \in Router : dist[r][completed[r][2]] = solution[r]
             THEN "close" ELSE "abort"
  /\ UNCHANGED <<given, queue, closed, round, i, valid, completed, routerVars>>

CloseDone ==
  /\ main = "close" /\ main' = "join"
  /\ closed' = TRUE
  /\ UNCHANGED <<given, queue, round, i, valid, completed, routerVars>>

(* After the last join nobody is left to use what run_stress destroys. *)
Join ==
  /\ Iterate("join", "end")
  /\ rpc[i] = "exited"
  /\ UNCHANGED <<given, queue, closed, round, valid, completed, routerVars>>

run_stress == Flush \/ Collect \/ Retry \/ Verify \/ CloseDone \/ Join

-----------------------------------------------------------------------------
Init ==
  /\ \E n \in Networks : topology = n.topology /\ solution = n.solution
  /\ queue = [c \in Router \cup {Completed} |-> <<>>]
  /\ closed = FALSE
  /\ main = "flush" /\ round = 1 /\ i = 0 /\ valid = TRUE
  /\ completed = [r \in Router |-> NULL]
  /\ rpc = [r \in Router |-> "select"]
  /\ selected_index \in [Router -> Garbage]
  /\ data = [r \in Router |-> NULL]
  /\ select_list = [r \in Router |-> InitialList(r)]
  /\ to_send = [r \in Router |-> Neighbours(r)]
  /\ changed = [r \in Router |-> FALSE]
  /\ curr = [r \in Router |-> 2]
  /\ epoch = [r \in Router |-> [s \in Slot |-> s]]
  /\ dist = [r \in Router |-> [s \in Slot |-> topology[r]]]

Terminated == main \in {"end", "abort"} /\ UNCHANGED vars

Next == run_stress \/ (\E r \in Router : router(r)) \/ Terminated

(***************************************************************************)
(* The operating system runs every thread that can run.  A router that can *)
(* send again and again does so some time, although channel_select prefers *)
(* to receive: between two calls of check_done there is a usleep, in which *)
(* the routers have nothing else to receive.                               *)
(***************************************************************************)
Spec ==
  /\ Init /\ [][Next]_vars
  /\ WF_vars(run_stress)
  /\ \A r \in Router : WF_vars(router(r)) /\ SF_vars(Sends(r))

-----------------------------------------------------------------------------
(***************************************************************************)
(* Properties.                                                             *)
(***************************************************************************)
(* select_list holds every neighbour once, those still to send to first. *)
ListOK(r) ==
  LET total == Cardinality(Neighbours(r))
  IN  /\ select_list[r] \in Bijection(1 .. total, Neighbours(r))
      /\ \A k \in 1 .. total :
           select_list[r][k] \in to_send[r] <=> k <= Cardinality(to_send[r])

TypeOK ==
  /\ topology \in Matrix /\ solution \in Matrix
  /\ queue \in [Router \cup {Completed} -> Seq(Message)]
  /\ closed \in BOOLEAN
  /\ main \in {"flush", "collect", "usleep", "verify", "close", "join", "end", "abort"}
  /\ round \in 1 .. 2 /\ i \in Router /\ valid \in BOOLEAN
  /\ completed \in [Router -> Message]
  /\ rpc \in [Router -> {"select", "merge", "reply", "cycle", "exited", "overrun"}]
  /\ selected_index \in [Router -> Nat]
  /\ data \in [Router -> Message]
  /\ select_list \in [Router -> Seq(Router)]
  /\ to_send \in [Router -> SUBSET Router]
  /\ \A r \in Router : ListOK(r)
  /\ changed \in [Router -> BOOLEAN]
  /\ curr \in [Router -> Slot]
  /\ epoch \in [Router -> [Slot -> Nat]]
  /\ dist \in [Router -> [Slot -> [Router -> Distances]]]

(* No assert of router or check_done fails. *)
AssertsHold == main # "abort"

(* The state a router writes to is in no channel and in no neighbour's     *)
(* hands: a router sends pointers and its neighbours read what they point  *)
(* to without a lock, when the router may be two broadcasts ahead.         *)
NextStatePrivate ==
  \A r \in Router :
    /\ \A c \in Router : \A k \in DOMAIN queue[c] : queue[c][k] # <<r, next(r)>>
    /\ \A n \in Router : rpc[n] = "merge" => data[n] # <<r, next(r)>>

(* No vector ever promises a distance that the network does not have.      *)
DistancesSound ==
  \A r, d \in Router, s \in Slot : solution[r][d] <= dist[r][s][d]

(* When check_done accepts, the network is at rest: no message is under    *)
(* way, nobody reads another router's state, and everybody has converged.  *)
(* Later nobody changes or reads what the routers are about to free.       *)
RestWhenAccepted ==
  main \in {"verify", "close", "join", "end"} =>
    \A r \in Router :
      /\ queue[r] = <<>> /\ to_send[r] = {} /\ ~changed[r]
      /\ rpc[r] \in {"select", "exited"}
      /\ dist[r][curr[r]] = solution[r]

(* The routers converge, check_done finds out and the test ends.           *)
Terminates == <>(main = "end")

(* With the stub of channel_select check_done never accepts, whatever the  *)
(* uninitialised index holds.                                              *)
NeverAccepted == main \notin {"verify", "close", "join", "end"}
=============================================================================
