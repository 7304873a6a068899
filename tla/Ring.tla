-------------------------------- MODULE Ring --------------------------------
(***************************************************************************)
(* The stress test of stress_send_recv.c: num_channel workers in a ring    *)
(* pass messages on until the main thread sets done, and then hand them    *)
(* back to it.                                                             *)
(*                                                                         *)
(* A channel is the atomic bounded queue that channel.c implements         *)
(* (RefinementProofs); a blocking call is an action that waits for room or *)
(* for a message.  The channels stay open until the workers are joined, so *)
(* that every call of the test returns SUCCESS.                            *)
(***************************************************************************)
EXTENDS Integers, Sequences, FiniteSets

CONSTANTS
  num_channel,      (* num_threads: the workers, and their channels        *)
  buffer_size,      (* capacity of every channel                           *)
  LoadPercent,      (* 100 * load                                          *)
  SleepLongEnough   (* does usleep(duration_usec) outlast the start phase? *)

num_msgs == (num_channel * (buffer_size + 1) * LoadPercent) \div 100

ASSUME RingAssumption ==
  /\ num_channel \in Nat \ {0} /\ buffer_size \in Nat \ {0}
  /\ LoadPercent \in 1 .. 99 /\ num_msgs > 0
  /\ SleepLongEnough \in BOOLEAN

Worker == 0 .. num_channel - 1
MainChannel == num_channel            (* index of main_channel in queue    *)
Channels == Worker \cup {MainChannel}
NULL == 0                             (* messages are the numbers from 1   *)
Message == 1 .. num_msgs

VARIABLES
  queue,       (* the contents of channels[i] and of main_channel          *)
  exists,      (* the channels not yet closed and destroyed                *)
  done,
  main,        (* the loop of run_stress_send_recv the main thread is in   *)
  i,           (* and its loop counter, from 1                             *)
  msg_check,   (* the messages received back                               *)
  wpc,         (* receive, got (before atomic_load), to_main, to_next,     *)
               (* exited                                                   *)
  start,       (* a worker's local variables                               *)
  held         (* ... its data                                             *)

workerVars == <<wpc, start, held>>
mainVars == <<main, i, msg_check, done, exists>>
vars == <<queue, exists, done, main, i, msg_check, wpc, start, held>>

-----------------------------------------------------------------------------
(* Mutant: one message too many. *)
HasRoomOffByOne(c) == Len(queue[c]) <= buffer_size

HasRoom(c) == Len(queue[c]) < buffer_size

Send(c, d) == HasRoom(c) /\ queue' = [queue EXCEPT ![c] = Append(@, d)]

Receive(c) == queue[c] # <<>> /\ queue' = [queue EXCEPT ![c] = Tail(@)]

-----------------------------------------------------------------------------
(***************************************************************************)
(* worker_thread.                                                          *)
(***************************************************************************)
next_index(w) == IF w + 1 >= num_channel THEN 0 ELSE w + 1

Keep(w, d) ==
  /\ wpc' = [wpc EXCEPT ![w] = "got"]
  /\ held' = [held EXCEPT ![w] = d]
  /\ UNCHANGED start

(* Mutant: the first message, whatever it is, ends the start period. *)
ReceiveStartAny(w) ==
  /\ wpc[w] = "receive" /\ start[w]
  /\ Receive(MainChannel)
  /\ start' = [start EXCEPT ![w] = FALSE]
  /\ UNCHANGED <<wpc, held, mainVars>>

ReceiveStart(w) ==
  /\ wpc[w] = "receive" /\ start[w]
  /\ Receive(MainChannel)
  /\ LET d == Head(queue[MainChannel])
     IN  \/ /\ d = NULL
            /\ start' = [start EXCEPT ![w] = FALSE]
            /\ UNCHANGED <<wpc, held>>
         \/ d # NULL /\ Keep(w, d)
  /\ UNCHANGED mainVars

ReceiveMine(w) ==
  /\ wpc[w] = "receive" /\ ~start[w]
  /\ Receive(w)
  /\ LET d == Head(queue[w])
     IN  \/ /\ d = NULL
            /\ wpc' = [wpc EXCEPT ![w] = "exited"]
            /\ UNCHANGED <<start, held>>
         \/ d # NULL /\ Keep(w, d)
  /\ UNCHANGED mainVars

(* Mutant: done is read once, at the start, and cached. *)
LoadDoneCached(w) ==
  /\ wpc[w] = "got"
  /\ wpc' = [wpc EXCEPT ![w] = "to_next"]
  /\ UNCHANGED <<queue, start, held, mainVars>>

LoadDone(w) ==
  /\ wpc[w] = "got"
  /\ wpc' = [wpc EXCEPT ![w] = IF done THEN "to_main" ELSE "to_next"]
  /\ UNCHANGED <<queue, start, held, mainVars>>

PassOn(w) ==
  /\ \/ wpc[w] = "to_main" /\ Send(MainChannel, held[w])
     \/ wpc[w] = "to_next" /\ Send(next_index(w), held[w])
  /\ wpc' = [wpc EXCEPT ![w] = "receive"]
  /\ held' = [held EXCEPT ![w] = NULL]
  /\ UNCHANGED <<start, mainVars>>

worker_thread(w) == ReceiveStart(w) \/ ReceiveMine(w) \/ LoadDone(w) \/ PassOn(w)

-----------------------------------------------------------------------------
(***************************************************************************)
(* run_stress_send_recv, one action per iteration of each of its loops.    *)
(***************************************************************************)
Iterate(loop, last, then) ==
  /\ main = loop
  /\ IF i < last THEN main' = loop /\ i' = i + 1 ELSE main' = then /\ i' = 1

InsertMessage ==
  /\ Iterate("insert", num_msgs, "start")
  /\ Send(MainChannel, i)
  /\ UNCHANGED <<msg_check, done, exists, workerVars>>

SendStart ==
  /\ Iterate("start", num_channel, "sleep")
  /\ Send(MainChannel, NULL)
  /\ UNCHANGED <<msg_check, done, exists, workerVars>>

(* Mutant: no usleep. *)
StopTestAtOnce ==
  /\ Iterate("sleep", 1, "pull")
  /\ done' = TRUE
  /\ UNCHANGED <<queue, msg_check, exists, workerVars>>

(* usleep(duration_usec), then done is set. *)
StopTest ==
  /\ Iterate("sleep", 1, "pull")
  /\ SleepLongEnough => \A w \in Worker : ~start[w]
  /\ done' = TRUE
  /\ UNCHANGED <<queue, msg_check, exists, workerVars>>

(* Mutant: msg < num_msgs in the loop that pulls the messages. *)
PullOneLess ==
  /\ Iterate("pull", num_msgs - 1, "stop")
  /\ Receive(MainChannel)
  /\ msg_check' = msg_check \cup {Head(queue[MainChannel])}
  /\ UNCHANGED <<done, exists, workerVars>>

(* The asserts on the data: a failed one aborts the process. *)
PullMessage ==
  /\ main = "pull"
  /\ Receive(MainChannel)
  /\ LET d == Head(queue[MainChannel])
     IN  IF d \in Message \ msg_check
         THEN Iterate("pull", num_msgs, "stop") /\ msg_check' = msg_check \cup {d}
         ELSE main' = "abort" /\ UNCHANGED <<i, msg_check>>
  /\ UNCHANGED <<done, exists, workerVars>>

SendStop ==
  /\ Iterate("stop", num_channel, "join")
  /\ Send(i - 1, NULL)
  /\ UNCHANGED <<msg_check, done, exists, workerVars>>

(* Mutant: the workers are not waited for. *)
JoinNobody ==
  /\ Iterate("join", num_channel, "cleanup")
  /\ UNCHANGED <<queue, msg_check, done, exists, workerVars>>

Join ==
  /\ Iterate("join", num_channel, "cleanup")
  /\ wpc[i - 1] = "exited"
  /\ UNCHANGED <<queue, msg_check, done, exists, workerVars>>

(* channel_close and channel_destroy of main_channel, then of the others. *)
Cleanup ==
  /\ Iterate("cleanup", num_channel + 1, "end")
  /\ exists' = exists \ {IF i = 1 THEN MainChannel ELSE i - 2}
  /\ UNCHANGED <<queue, msg_check, done, workerVars>>

run_stress_send_recv ==
  InsertMessage \/ SendStart \/ StopTest \/ PullMessage \/ SendStop \/ Join \/ Cleanup

-----------------------------------------------------------------------------
Init ==
  /\ queue = [c \in Channels |-> <<>>]
  /\ exists = Channels
  /\ done = FALSE
  /\ main = "insert" /\ i = 1
  /\ msg_check = {}
  /\ wpc = [w \in Worker |-> "receive"]
  /\ start = [w \in Worker |-> TRUE]
  /\ held = [w \in Worker |-> NULL]

Terminated == main = "end" /\ UNCHANGED vars

Next ==
  \/ main # "abort" /\ \E w \in Worker : worker_thread(w)
  \/ run_stress_send_recv
  \/ Terminated

(* The operating system runs every thread that can run. *)
Spec ==
  /\ Init /\ [][Next]_vars
  /\ WF_vars(run_stress_send_recv)
  /\ \A w \in Worker : WF_vars(worker_thread(w))

-----------------------------------------------------------------------------
(***************************************************************************)
(* Properties.                                                             *)
(***************************************************************************)
TypeOK ==
  /\ queue \in [Channels -> Seq(Message \cup {NULL})]
  /\ \A c \in Channels : Len(queue[c]) <= buffer_size
  /\ exists \subseteq Channels
  /\ done \in BOOLEAN
  /\ main \in {"insert", "start", "sleep", "pull", "stop", "join", "cleanup", "end", "abort"}
  /\ i \in Nat
  /\ msg_check \subseteq Message
  /\ wpc \in [Worker -> {"receive", "got", "to_main", "to_next", "exited"}]
  /\ start \in [Worker -> BOOLEAN]
  /\ held \in [Worker -> Message \cup {NULL}]

(* Where message m is: in a channel, in the hands of a worker, still to be *)
(* inserted, or back with the main thread.                                 *)
Positions(m) ==
  {p \in Channels \X (1 .. buffer_size) :
     p[2] <= Len(queue[p[1]]) /\ queue[p[1]][p[2]] = m}

Holders(m) == {w \in Worker : held[w] = m}

Places(m) ==
  {<<"queue", p>> : p \in Positions(m)} \cup {<<"worker", w>> : w \in Holders(m)}
  \cup {l \in {<<"uninserted">>} : main = "insert" /\ m >= i}
  \cup {l \in {<<"back">>} : m \in msg_check}

(* No message is lost or duplicated on its way through the ring, whatever   *)
(* the workers saw of done.                                                 *)
EachMessageOnce == \A m \in Message : Cardinality(Places(m)) = 1

(* The asserts of run_stress_send_recv on the data it receives back.        *)
AssertsHold == main # "abort"

(* When the stop messages go out, the ring is drained: a worker that leaves *)
(* its loop on a NULL leaves no message behind.                             *)
DrainedBeforeStop ==
  main \in {"stop", "join", "cleanup", "end"} =>
    /\ \A w \in Worker : held[w] = NULL /\ queue[w] \in {<<>>, <<NULL>>}
    /\ queue[MainChannel] = <<>>

(* A channel is destroyed only after every worker has left its loop.        *)
DestroyedAfterUse == exists # Channels => \A w \in Worker : wpc[w] = "exited"

(* The test ends: with less than one message per worker and buffer slot the *)
(* ring cannot fill up, neither while the workers still read main_channel   *)
(* nor later, and every message finds its way back.                         *)
Terminates == <>(main = "end")
=============================================================================
