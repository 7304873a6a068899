----------------------------- MODULE TestScripts -----------------------------
(***************************************************************************)
(* The tests of test.c that share one buffered channel among a main thread *)
(* and helper threads, as programs over Channel.  A program is a sequence  *)
(* of statements: the main thread carries them out one after the other,    *)
(* while the helpers that it has started run beside it.                    *)
(*                                                                         *)
(* The main thread is thread 0, the helpers are the threads from 1.  The   *)
(* tests have ten helpers and capacity 2; here both are parameters.        *)
(* Message1 and Message2 are also what test_receive_correctness calls      *)
(* Message4 and Message5.                                                  *)
(***************************************************************************)
EXTENDS Channel

CONSTANTS
  Programs,      (* the tests: name, helpers, the capacity of the channel, *)
                 (* and does a usleep outlast what the helpers can do?     *)
  MaxSpurious    (* bound on the spurious wakeups of a test                *)

ASSUME ScriptAssumption ==
  /\ 0 \in Thread /\ Thread \subseteq Nat
  /\ {"Message", "Message1", "Message2", "Message3", "NULL"} \subseteq Value
  /\ MaxSpurious \in Nat

(* What test.c takes for its helpers and its channel, as far as its        *)
(* asserts depend on it.                                                   *)
ASSUME ProgramAssumption ==
  \A p \in Programs :
    /\ p \in [name : STRING, senders : Nat, receivers : Nat, capacity : Nat \ {0},
              sleep_long_enough : BOOLEAN]
    /\ 1 .. p.senders + p.receivers \subseteq Thread
    /\ \/ p.name = "test_send_correctness" /\ p.senders = 3 /\ p.receivers = 0 /\ p.capacity = 2
       \/ p.name = "test_receive_correctness" /\ p.senders = 0 /\ p.receivers = 2 /\ p.capacity = 2
       \/ p.name = "test_overall_send_receive" /\ p.senders = p.receivers
       \/ p.name = "test_non_blocking_send" /\ p.senders >= p.capacity /\ p.receivers = 0
       \/ /\ p.name = "test_non_blocking_receive"
          /\ p.senders <= 3 /\ p.receivers >= p.senders + p.capacity /\ p.sleep_long_enough
       \/ p.name = "test_channel_close_with_send" /\ p.receivers = 0
       \/ p.name = "test_channel_close_with_receive" /\ p.senders = 0
       \/ p.name = "test_free"

Helper == Thread \ {0}
NULL == "NULL"

VARIABLES
  test, line,   (* the program and the statement the main thread is at     *)
  failed,       (* a mu_assert has failed: the test has been left          *)
  helper,       (* new, start, call, post (before sem_post) or exited      *)
  args,         (* the operation, data and semaphore a helper was given    *)
  out, got,     (* what it has stored in the out and data of its arguments *)
  done,         (* the value of the semaphore                              *)
  spurious

scriptVars == <<test, line, failed, helper, args, out, got, done, spurious>>
allVars == <<vars, scriptVars>>

-----------------------------------------------------------------------------
(***************************************************************************)
(* Statements.                                                             *)
(***************************************************************************)
pthread_create(h, o, v, sem) == [do |-> "pthread_create", h |-> h, op |-> o, v |-> v, sem |-> sem]
pthread_join(h) == [do |-> "pthread_join", h |-> h]
sem_wait == [do |-> "sem_wait"]
usleep == [do |-> "usleep"]
destroy(s) == [do |-> "destroy", returns |-> s, data |-> {Uninit}]

(* The main thread's own calls, with the results that a mu_assert allows.  *)
call(o, v, s) == [do |-> "call", op |-> o, v |-> v, returns |-> s, data |-> Value \cup {Uninit}]
receive(v) == [do |-> "call", op |-> "receive", v |-> Uninit, returns |-> Statuses, data |-> {v}]

(* mu_assert on how many of the helpers have stored x, or on the size or a slot   *)
(* of the buffer.                                                          *)
mu_assert(what, x, allowed) == [do |-> "mu_assert", what |-> what, x |-> x, allowed |-> allowed]

(* Several statements of one kind. *)
sends(n, v) == [k \in 1 .. n |-> call("send", v, Statuses)]
sem_waits(n) == [k \in 1 .. n |-> sem_wait]
joins(n) == [h \in 1 .. n |-> pthread_join(h)]
cleanup == <<call("close", Uninit, Statuses), destroy(Statuses)>>
closed_for(o, non_blocking, v) ==
  <<call(o, v, {CLOSED_ERROR}), call(non_blocking, v, {CLOSED_ERROR}),
    call("close", Uninit, {CLOSED_ERROR}), destroy(Statuses)>>

-----------------------------------------------------------------------------
(***************************************************************************)
(* The tests.                                                              *)
(***************************************************************************)
test_send_correctness ==
  <<pthread_create(1, "send", "Message1", TRUE), sem_wait,
    mu_assert("size", 0, {1}), mu_assert("slot", 0, {"Message1"}), mu_assert("out", SUCCESS, {1}),
    pthread_create(2, "send", "Message2", TRUE), sem_wait,
    mu_assert("size", 0, {2}), mu_assert("slot", 0, {"Message1"}),
    mu_assert("slot", 1, {"Message2"}), mu_assert("out", SUCCESS, {2}),
    pthread_create(3, "send", "Message3", TRUE), usleep,
    mu_assert("size", 0, {2}), mu_assert("slot", 0, {"Message1"}),
    mu_assert("slot", 1, {"Message2"}), mu_assert("out", GEN_ERROR, {1}),
    call("receive", Uninit, Statuses)>>
  \o joins(3)
  \o [k \in 1 .. 2 |-> call("receive", Uninit, Statuses)]
  \o sends(2, NULL)
  \o <<mu_assert("size", 0, {2}), mu_assert("slot", 0, {NULL}), mu_assert("slot", 1, {NULL})>>
  \o cleanup

test_receive_correctness ==
  <<call("send", "Message1", Statuses), call("send", "Message2", Statuses),
    receive("Message1"), mu_assert("size", 0, {1}),
    receive("Message2"), mu_assert("size", 0, {0}),
    pthread_create(1, "receive", Uninit, TRUE), pthread_create(2, "receive", Uninit, TRUE),
    usleep, mu_assert("size", 0, {0}), mu_assert("out", GEN_ERROR, {2}),
    call("send", "Message1", Statuses), sem_wait,
    mu_assert("out", SUCCESS, {1}), mu_assert("data", "Message1", {1, 2}),
    call("send", "Message2", Statuses), sem_wait,
    mu_assert("out", SUCCESS, {2}), mu_assert("data", "Message2", {1, 2})>>
  \o joins(2)
  \o sends(1, NULL) \o <<receive(NULL)>>
  \o cleanup

test_overall_send_receive(n) ==
  [h \in 1 .. n |-> pthread_create(h, "receive", Uninit, FALSE)]
  \o [h \in 1 .. n |-> pthread_create(n + h, "send", "Message1", FALSE)]
  \o joins(2 * n)
  \o <<mu_assert("out", SUCCESS, {2 * n}), mu_assert("data", "Message1", {n})>>
  \o cleanup

test_non_blocking_send(n, capacity) ==
  [h \in 1 .. n |-> pthread_create(h, "non_blocking_send", "Message1", FALSE)]
  \o joins(n)
  \o <<mu_assert("out", CHANNEL_FULL, {n - capacity})>>
  \o cleanup

(* Every sender has a message of its own; the channel is full of others.   *)
Messages == <<"Message1", "Message2", "Message3">>

test_non_blocking_receive(senders, receivers, capacity) ==
  sends(capacity, "Message")
  \o [h \in 1 .. senders |-> pthread_create(h, "send", Messages[h], FALSE)]
  \o [k \in 1 .. 2 * receivers |->
       IF k % 2 = 0 THEN usleep
       ELSE pthread_create(senders + (k + 1) \div 2, "non_blocking_receive", Uninit, FALSE)]
  \o joins(senders + receivers)
  \o <<mu_assert("data", "Message", {capacity})>>
  \o [h \in 1 .. senders |-> mu_assert("data", Messages[h], {1})]
  \o <<mu_assert("out", CHANNEL_EMPTY, {receivers - senders - capacity})>>
  \o cleanup

test_channel_close_with_send(n, capacity) ==
  [h \in 1 .. n |-> pthread_create(h, "send", "Message1", TRUE)]
  \o sem_waits(capacity)
  \o <<call("close", Uninit, {SUCCESS})>>
  \o joins(n)
  \o <<mu_assert("out", CLOSED_ERROR, {n - capacity})>>
  \o closed_for("send", "non_blocking_send", "Message1")

test_channel_close_with_receive(n, capacity) ==
  sends(capacity, "Message1")
  \o [h \in 1 .. n |-> pthread_create(h, "receive", Uninit, TRUE)]
  \o sem_waits(capacity)
  \o <<call("close", Uninit, {SUCCESS})>>
  \o joins(n)
  \o <<mu_assert("out", CLOSED_ERROR, {n - capacity})>>
  \o closed_for("receive", "non_blocking_receive", Uninit)

test_free == <<destroy({DESTROY_ERROR}), call("close", Uninit, {SUCCESS}), destroy({SUCCESS})>>

Statements(p) ==
  CASE p.name = "test_send_correctness"     -> test_send_correctness
    [] p.name = "test_receive_correctness"  -> test_receive_correctness
    [] p.name = "test_overall_send_receive" -> test_overall_send_receive(p.senders)
    [] p.name = "test_non_blocking_send"    -> test_non_blocking_send(p.senders, p.capacity)
    [] p.name = "test_non_blocking_receive" ->
         test_non_blocking_receive(p.senders, p.receivers, p.capacity)
    [] p.name = "test_channel_close_with_send" ->
         test_channel_close_with_send(p.senders, p.capacity)
    [] p.name = "test_channel_close_with_receive" ->
         test_channel_close_with_receive(p.receivers, p.capacity)
    [] p.name = "test_free" -> test_free

-----------------------------------------------------------------------------
(***************************************************************************)
(* The helper threads: one call, its results, and sem_post if the helper   *)
(* was given a semaphore.                                                  *)
(***************************************************************************)
HelperCall(h) ==
  /\ helper[h] = "start"
  /\ helper' = [helper EXCEPT ![h] = "call"]
  /\ Call(h, args[h].op, args[h].v)
  /\ UNCHANGED <<test, line, failed, args, out, got, done, spurious>>

HelperReturn(h) ==
  /\ helper[h] = "call" /\ pc[h] = "unlock"
  /\ Step(h)
  /\ out' = [out EXCEPT ![h] = status[h]]
  /\ got' = [got EXCEPT ![h] = data[h]]
  /\ helper' = [helper EXCEPT ![h] = IF args[h].sem THEN "post" ELSE "exited"]
  /\ UNCHANGED <<test, line, failed, args, done, spurious>>

HelperPost(h) ==
  /\ helper[h] = "post"
  /\ helper' = [helper EXCEPT ![h] = "exited"]
  /\ done' = done + 1
  /\ UNCHANGED <<vars, test, line, failed, args, out, got, spurious>>

InCall(h) ==
  /\ helper[h] = "call" /\ pc[h] # "unlock"
  /\ Step(h)
  /\ UNCHANGED scriptVars

helper_thread(h) == HelperCall(h) \/ InCall(h) \/ HelperReturn(h) \/ HelperPost(h)

-----------------------------------------------------------------------------
(***************************************************************************)
(* The main thread.                                                        *)
(***************************************************************************)
At(kind) == ~failed /\ line <= Len(Statements(test)) /\ Statements(test)[line].do = kind

statement == Statements(test)[line]

Ended == failed \/ line > Len(Statements(test))

(* On to the next statement, or out of the test. *)
Advance(ok) ==
  /\ line' = IF ok THEN line + 1 ELSE line
  /\ failed' = ~ok
  /\ UNCHANGED <<test, spurious>>

Create ==
  /\ At("pthread_create")
  /\ LET h == statement.h
     IN  /\ helper' = [helper EXCEPT ![h] = "start"]
         /\ args' = [args EXCEPT ![h] = [op |-> statement.op, v |-> statement.v, sem |-> statement.sem]]
  /\ Advance(TRUE)
  /\ UNCHANGED <<vars, out, got, done>>

(* Mutant: the helpers are not waited for. *)
JoinNobody == At("pthread_join") /\ Advance(TRUE) /\ UNCHANGED <<vars, helper, args, out, got, done>>

Join ==
  /\ At("pthread_join") /\ helper[statement.h] = "exited"
  /\ Advance(TRUE)
  /\ UNCHANGED <<vars, helper, args, out, got, done>>

SemWait ==
  /\ At("sem_wait") /\ done > 0
  /\ done' = done - 1
  /\ Advance(TRUE)
  /\ UNCHANGED <<vars, helper, args, out, got>>

(* A helper that can do no more without the others. *)
Waits(h) == helper[h] \in {"new", "exited"} \/ h \in read \cup write

(* Mutant: the main thread does not sleep. *)
NoSleep == At("usleep") /\ Advance(TRUE) /\ UNCHANGED <<vars, helper, args, out, got, done>>

Usleep ==
  /\ At("usleep")
  /\ test.sleep_long_enough => \A h \in Helper : Waits(h)
  /\ Advance(TRUE)
  /\ UNCHANGED <<vars, helper, args, out, got, done>>

Created == {h \in Helper : helper[h] # "new"}

Tally(what, x) ==
  CASE what = "out"  -> Cardinality({h \in Created : out[h] = x})
    [] what = "data" -> Cardinality({h \in Created : got[h] = x})
    [] what = "size" -> buffer_current_size(buffer)
    [] what = "slot" -> buffer.data[x]     (* peek_buffer *)

Assert ==
  /\ At("mu_assert")
  /\ Advance(Tally(statement.what, statement.x) \in statement.allowed)
  /\ UNCHANGED <<vars, helper, args, out, got, done>>

(* The main thread's own calls. *)
MainCall ==
  /\ pc[0] = "idle"
  /\ \/ At("call") /\ Call(0, statement.op, statement.v)
     \/ At("destroy") /\ channel_destroy(0)
  /\ UNCHANGED scriptVars

MainStep ==
  /\ ~failed /\ Step(0)
  /\ IF pc[0] \in {"unlock", "return"}
     THEN Advance(status[0] \in statement.returns /\ data[0] \in statement.data)
     ELSE UNCHANGED <<test, line, failed, spurious>>
  /\ UNCHANGED <<helper, args, out, got, done>>

main_thread ==
  Create \/ Join \/ SemWait \/ Usleep \/ Assert \/ MainCall \/ MainStep

-----------------------------------------------------------------------------
ScriptInit ==
  /\ allocated = TRUE
  /\ test \in Programs /\ line = 1 /\ failed = FALSE
  /\ buffer = buffer_create(test.capacity)
  /\ closed = 1 /\ MutexLock = NoThread /\ read = {} /\ write = {}
  /\ pc = [t \in Thread |-> "idle"]
  /\ op = [t \in Thread |-> "none"]
  /\ arg = [t \in Thread |-> Uninit]
  /\ status = [t \in Thread |-> GEN_ERROR]
  /\ data = [t \in Thread |-> Uninit]
  /\ helper = [h \in Helper |-> "new"]
  /\ args = [h \in Helper |-> [op |-> "none", v |-> Uninit, sem |-> FALSE]]
  /\ out = [h \in Helper |-> GEN_ERROR]
  /\ got = [h \in Helper |-> Uninit]
  /\ done = 0 /\ spurious = 0

Wakeup(t) ==
  /\ spurious < MaxSpurious /\ spurious' = spurious + 1
  /\ SpuriousWakeup(t)
  /\ UNCHANGED <<test, line, failed, helper, args, out, got, done>>

ScriptNext ==
  \/ main_thread
  \/ \E h \in Helper : helper_thread(h)
  \/ \E t \in Thread : Wakeup(t)

(* The operating system runs every thread that can run.                    *)
ScriptSpec ==
  /\ ScriptInit /\ [][ScriptNext]_allVars
  /\ WF_allVars(main_thread)
  /\ \A h \in Helper : WF_allVars(helper_thread(h))

-----------------------------------------------------------------------------
(***************************************************************************)
(* Properties.                                                             *)
(***************************************************************************)

(* Every mu_assert of the tests holds, in whatever order the helpers run   *)
(* and whichever of them a signal wakes.                                   *)
AssertsHold == ~failed

(* The tests keep the rule of channel.h for channel_destroy that Channel   *)
(* takes for granted: when the main thread gets there, every helper that   *)
(* uses the channel has returned.                                          *)
DestroyedWhenFinished ==
  At("destroy") => OthersFinished(0) /\ \A h \in Helper : helper[h] \in {"new", "exited"}

(* Every test ends: "none of the calls should get blocked", "all the       *)
(* threads should return in finite amount of time".                        *)
TestsEnd == <>Ended
=============================================================================
