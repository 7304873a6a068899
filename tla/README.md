# Verification of concurrencylab

TLA+ models, TLC runs and TLAPS proofs for the channel library in
`src/concurrencylab-edit` and for the programs that stress it.

## The system

| Part | State | Operations | Interacts with |
|------|-------|------------|----------------|
| ring buffer (`buffer.c`) | `size`, `next`, `capacity`, `data[]` | `buffer_create`, `buffer_add`, `buffer_remove`, `buffer_capacity`, `buffer_current_size`, `buffer_free` | called by the channel with the mutex held |
| channel (`channel.c`) | `buffer`, `closed` (1 open, 0 closed), `MutexLock`, condition variables `read` (senders wait for room) and `write` (receivers wait for messages) | `channel_create`, `channel_send`, `channel_receive`, the two non-blocking variants, `channel_close`, `channel_destroy` | shared by any number of threads |
| `channel_select` | none | a stub that returns `SUCCESS` | router stress test, tests |
| linked list (`linked_list.c`) | none | stubs, never called | nobody |
| send/receive stress (`stress_send_recv.c`) | `done`, `channels[]`, `main_channel`, `msg_check[]` | `worker_thread` (a ring of them), `run_stress_send_recv` | blocking send and receive, close, destroy |
| router stress (`stress.c`) | topology, solution, four distance vectors per router used in turn | `floyd_warshall`, `router`, `check_done`, `run_stress` | all of the channel, `channel_select` |
| unit tests (`test.c`), grading (`grade.py`) | | helper threads making one call each; scripts | all of the channel |

What is hard about it: threads interleave at every lock, wait and unlock;
`pthread_cond_signal` wakes one thread, and another may take what it was woken
for; `pthread_cond_wait` may return for no reason; a close may come between
any two steps of a blocked call; `channel_destroy` takes no lock and depends on
its callers. In the stress test workers act on a `done` they read earlier, and
a `usleep` stands in for synchronisation. The routers pass pointers to their
own states through the channels and read each other's states without a lock,
and `check_done` has to decide that a network is at rest from two rounds of
answers. The unit tests assert things about threads that may be anywhere.

What makes each part correct:

* buffer: a FIFO queue of at most `capacity` messages that never hands out an
  unwritten slot, wherever the ring wraps;
* channel: linearizable to a bounded FIFO queue that can be closed; mutual
  exclusion with every return path unlocking; no lost wakeup; close releases
  everybody and is final; nobody is inside a destroyed channel;
* send/receive stress: no message lost or duplicated, no deadlock, asserts
  hold, termination, nothing destroyed while in use;
* router stress: `floyd_warshall` computes shortest distances and no sum wraps
  around; a router never writes to a state that another may read; `check_done`
  accepts only the solution, and only when nothing is under way (it does unless
  a router's states are recycled between its answers); it is accepted at last;
* unit tests: every assert holds in every interleaving, every test ends, and
  `channel_destroy` is only called when the helpers are out of the channel.

## Modules

| Module | Contents |
|--------|----------|
| `Buffer` | `buffer.c` as operators on the record `[size, next, capacity, data]`; `Contents(b)` is the sequence of messages it holds, `BufferOK(b)` its representation invariant |
| `ChannelStatus` | the status codes and the names of the operations |
| `Channel` | one channel and its threads: the pthread steps and one action per operation |
| `AtomicChannel` | what the operations promise: an atomic bounded queue with close (invocation, effect, return) |
| `ChannelRefinement` | the mapping from `Channel` to `AtomicChannel` |
| `Clients` | finitely many calls under weak fairness, for the liveness of blocked calls |
| `Ring` | `stress_send_recv.c` on top of atomic channels |
| `Distance` | the distances of `stress.c`, their addition with wraparound, and two definitions of shortest distances |
| `Topology` | `create_topology` and `floyd_warshall`, one step per number read and per innermost iteration |
| `Stress` | `router`, `check_done` and `run_stress` on top of atomic channels; `channel_select` as the stub it is or as `channel.h` describes it |
| `TestScripts` | the tests of `test.c` as programs of a main thread and helpers over `Channel` |
| `ChannelProofs`, `RefinementProofs`, `RingProofs`, `TopologyProofs`, `StressProofs`, `AcceptanceProofs` | theorems about the buffer and the channel, the refinement, and the two stress tests |
| `StatementProofs`, `TestProofs` | theorems about the tests of `test.c`: the first about their statements, the second about their steps |
| `MCChannel`, `MCClients`, `MCRing`, `MCTopology`, `MCStress`, `MCTestScripts` | instances for TLC |
| `MCStressSchedule` | one schedule of `Stress` on eight routers, for a failure at a depth TLC cannot search |

### How `Channel` corresponds to the code

`allocated`, `buffer`, `closed`, `MutexLock`, `read` and `write` are the
channel; the condition variables are the sets of threads asleep on them.
`pc`, `op`, `arg`, `status` and `data` are the threads' frames. A call goes
`idle -> lock -> body -> unlock -> idle`, and from `body` to `wait` and back
to `body` around `pthread_cond_wait`. The code between taking the mutex and
giving it up is one step (`channel_send(t)` and so on), because everything it
touches needs the mutex. The test of `closed` on entry and the one after
`pthread_cond_wait` lead to the same code, so both are the state `body`.
`Sleep` releases the mutex and enters the waiting set at once, as
`pthread_cond_wait` guarantees; `Relock` has to compete for the mutex with
every other thread. `Signal` removes any one waiter, `Broadcast` all of them,
and `SpuriousWakeup` wakes a thread at any time.

`channel_destroy` is only called while no other thread is in a call
(`OthersFinished`): that is the header's requirement, and the code relies on
it. The early returns for a NULL channel are `CallNull`. `channel_send`,
`channel_receive` and `channel_destroy` do not test for NULL, so they are only
called on an existing channel. Allocation does not fail.

`size_t` is `Nat`: the largest number `buffer.c` forms is `2 * capacity - 1`,
and an array of `capacity` pointers keeps `capacity` below 2^61.

### How `Ring` corresponds to the code

A blocking send or receive is an action that waits for room or a message,
which `RefinementProofs` justifies. Each loop of `run_stress_send_recv` is an
action per iteration; a worker's `channel_receive`, `atomic_load(&done)` and
`channel_send` are separate steps. A failing assert on the received data takes
`main` to `abort` and stops the process. The number of messages is
`num_channel * (buffer_size + 1) * load` rounded down, with `load` in percent.
`SleepLongEnough` says whether the `usleep` outlasts the start period.

### How `Topology` corresponds to the code

`ReadLink` is one `fscanf` of `create_topology` with the conversion of the
`int` it stores in an `unsigned int`: whatever is above `inf_distance` becomes
`inf_distance`. `Relax` is one pass through the innermost loop of
`floyd_warshall`. `inf_distance` is a parameter, and addition is modulo
`2 * (inf_distance + 1)`, as in an unsigned integer of that width. The file is
nondeterministic: any integer from `LinkInts`, and from `DiagonalInts` on the
diagonal.

### How `Stress` corresponds to the code

`rpc[r]` says where in an iteration of its loop router `r` is. `curr[r]` is the
slot of `curr_state`; `prev_prev_state`, `prev_state`, `curr_state` and
`next_state` are always consecutive slots of the four, and cycling moves
`curr` on by one. `select_list[r]` holds the channels of the neighbours in
their present order, by number at first (`InitialList`) and changed by the swap
after each send (`SwapWithLast`); `to_send[r]` is the set of those before
`select_count`. `queue[c]` holds pointers
`<<router, slot>>` or NULL. A receive and what is done with the message are
separate steps (`SelectReceive`, then `Merge` or `Reply`), because the vector
behind the pointer may change in between. `EndIteration` is the code under
"check if we've sent to everyone", and it belongs to every iteration; after a
send it is a step of its own (`Cycle`) when it changes something. `Merge` reads
the neighbour's vector in one step although the code loops over it:
`NextStatePrivate`, proved in `StressProofs`, says that nobody writes to it
meanwhile. In `run_stress` and `check_done` each loop is an action per
iteration.

`channel_select` is called by this program and not implemented by this
repository: `channel.c` has a stub that returns `SUCCESS` and leaves
`selected_index` as it was, uninitialised. The model has both:

* `SelectWorks = FALSE` is the code as it is. `Garbage` are the values the
  uninitialised variable may hold. An index out of the bounds of `select_list`,
  or a `select_count` counted down below 2, ends in `rpc = "overrun"`, from
  which nothing is modelled any more: the code then uses memory beyond
  `select_list`, and `NeverAccepted` says nothing about what that does.
* `SelectWorks = TRUE` is an assumption: a `channel_select` as `channel.h:104`
  promises it, which takes the first option of the list that can be served, in
  the order the swaps have left the list in, and reports `CLOSED_ERROR` for
  `done_channel` when it is closed. What is shown under it is about `stress.c`,
  not about `channel.c`.

A network is a topology whose links have two directions, of any lengths, and a
solution that is below the topology and has no short cut (`Below`,
`NoShortcut`): `StressAssumption` states this. The first is a property of the
topology files; the second is what the theorems of `TopologyProofs` say of the
result of `create_topology`.

### How `TestScripts` corresponds to the code

A test is a sequence of statements (`pthread_create`, `pthread_join`,
`sem_wait`, `usleep`, `mu_assert` and the main thread's own calls with the
results the test asserts), carried out by `main_thread` on a `Channel` with all
its internal steps. A helper makes one call; it stores the result with the
step that releases the mutex, and posts its semaphore, if it was given one, in
a step of its own. (Storing later would only delay what nobody is told of
before the post or the join.) A failing `mu_assert` leaves the test. Where the
tests start ten helpers on a channel of size 2, the number of helpers and the
capacity are parameters, and each program says whether its `usleep` lasts until
the helpers can do no more (`sleep_long_enough`). The asserts on `out` and
`data` count helpers, as the loops in `test.c` do. In
`test_non_blocking_receive` each sender has its own message (`Messages`), and
there is an assert for each of them, that it was received exactly once.

## Runs

| Run | Result | What it shows |
|-----|--------|---------------|
| `channel` | pass | `MCChannel.cfg`: 3 threads, 2 messages, capacities 0, 1, 2, any sequence of calls without bound. Type correctness; `MutexInv`, `SleepersInv`, `NoSleepOnClosed`, `NoLostWakeup`, `NoUseAfterFree`, `ReturnInv`, `ClosedIsFinal`; `ImplementsAtomic`: the channel refines `AtomicChannel` |
| `clients` | pass | `MCClients.cfg`: 3 threads, 2 calls each, capacity 1, one spurious wakeup. `HangsOnlyIfBlocked`, `NonBlockingReturns` |
| `ring` | pass | `MCRing.cfg`: 3 workers, capacity 1, 5 messages. `EachMessageOnce`, `AssertsHold`, `DrainedBeforeStop`, `DestroyedAfterUse`, `Terminates`, no deadlock |
| `close_null` | violation | `channel_close(NULL)` returns `CLOSED_ERROR`; its comment says `GEN_ERROR` |
| `unbuffered` | violation | on a channel of size 0 a send and a receive wait for each other forever; `channel.h` and `test_unbuffered` expect them to meet |
| `ring_short_sleep` | violation | without `SleepLongEnough` the main thread can receive a start message meant for a worker, and the assert on the data fails |
| `topology` | pass | `MCTopology.cfg`: all 4096 networks of 4 routers whose links are of one length or missing. `NoWrap`, `SolutionIsShortest` |
| `topology_all_ints` | pass | `MCTopologyAll.cfg`: 2 routers and every integer of a three-bit distance, also on the diagonal. `SolutionCorrect` |
| `stress` | pass | `MCStress.cfg`: 3 routers in a line and in a ring with a detour, channels of capacity 1, `channel_select` as promised. `AssertsHold`, `NextStatePrivate`, `DistancesSound`, `RestWhenAccepted`, `Terminates`, no deadlock |
| `stress_stub` | pass | `MCStressStub.cfg`: the stub, with every combination of the indices 0, 1, 2 and 4 in the routers. `NeverAccepted`: the test cannot succeed |
| `stress_recycled` | violation | eight routers with a `channel_select` that works as `channel.h` says: four of them cycle four times between their two answers, `check_done` accepts, and its assert on the distances fails (see below) |
| `test_scripts` | pass | `MCTestScripts.cfg`: the tests of send, receive, close and free with capacity 2, up to 5 helpers and no assumption on `usleep`; the overall and non-blocking tests and a close test with capacity 1, up to 6 helpers and a `usleep` that is long enough (only `test_non_blocking_receive` depends on it). `AssertsHold`, `DestroyedWhenFinished`, `TestsEnd` |

Bounds. Three threads are two of one kind asleep and a third that signals,
closes or overtakes; two messages tell orders apart; capacity 2 has a ring that
wraps in every position, capacity 1 is full after one message, capacity 0 is
full and empty at once. The state space of `channel` is finite without any
bound on the number of calls; messages and threads are symmetric there. In
`clients` two calls per thread let every thread wait, be served and come back;
no symmetry is used with temporal properties. In `ring` five messages are one
fewer than the six that three workers and three slots can hold, so every
action happens with the ring full but for one place.

In `topology` four routers have walks of three links, the longest that the
order of the loops could get wrong, and inf_distance 7 is one more than such a
walk; `topology_all_ints` trades routers for integers. In `stress` three
routers in a line have a distance that needs two broadcasts, and the ring has
one that a first vector gets wrong and a second corrects; every router cycles
at least once and a neighbour can be a broadcast behind. Epochs are counted
without a bound: they stop when the distances do. A line of four routers has
four million states and takes too long to keep; the proofs cover it. No router
of these networks cycles four times between two answers: that case is
`stress_recycled`. Capacity 0, which the code also admits, cannot work (run
`unbuffered`). `stress_recycled` has one behaviour, of 679 states. In
`stress_stub` the indices stand for done_channel, the router's own channel, a
neighbour, and an index beyond the list for every router. In `test_scripts`
there are always more helpers than slots, so some block before, during and
after the close, and one spurious wakeup.

Deadlock is checked in `channel`, `ring`, `topology` and `stress`. It is not
where the system really may stop: `clients` may end with threads blocked, the
stub run hangs, the schedule ends, and the tests end, which `TestsEnd` states
instead.

Fairness. The operating system eventually runs a thread that stays able to
run: weak fairness of each thread, in `Clients` and `Ring`, of `run_stress` and
each `router` in `Stress`, and of `main_thread` and each `helper_thread` in
`TestScripts`. Nothing is assumed about which thread gets a mutex or is woken.
In `Clients` and `TestScripts` this is enough because calls and spurious wakeups
are finite (`MaxCalls`, the programs, `MaxSpurious`), so contention ends; with
unbounded calls a thread could lose every race for a pthread mutex, and POSIX
promises no better.

`Stress` assumes strong fairness of one thing more, a router's sends
(`Sends(r)`): a router that can send again and again does so at last. A router
prefers to receive, `check_done` is called again and again, and a thread of
`check_done` that is always faster than the routers could keep each router busy
with special messages. The `usleep(1000)` between two calls of `check_done` is
what prevents it in the code: in it the routers have only each other's vectors
left to receive.

## Proofs

The theorems about the channel hold for any finite set `Thread`, any `Value`
with `Uninit \notin Value`, and any set of capacities (`ThreadAssumption`,
`UninitAssumption`). Those about the stress tests hold for any number of
routers or workers; `RingAssumption`, `DistanceAssumption`, `FileAssumption` and
`StressAssumption` state what the code asserts or its input has.

* `ChannelProofs` begins with the buffer: `buffer_create` yields the empty
  sequence; `buffer_add` fails exactly on a full buffer and otherwise appends;
  `buffer_remove` fails exactly on an empty buffer, and otherwise returns the
  head and leaves the tail. All preserve `BufferOK`.

  For the channel, `IInv` is inductive (`Invariance`). It needs, besides the
  properties themselves, that the sleepers on `read` and `write` are blocked
  senders and receivers (`SleepersInv`: otherwise a thread with the mutex could
  be in a waiting set) and that a thread in a call carries a valid operation
  and argument (`CallInv`: otherwise nothing says that what is added is a
  message). `BodyCases` sorts the branches of the five critical sections into
  eight outcomes; every proof about a step is a proof per outcome.
  Consequences: `TypeCorrect`, `MutualExclusion`, `SleepersApart`,
  `CloseWakesAll`, `DestroySafe`, `ReturnsCorrect`, `ClosedForGood`.
  `WakeupsNotLost` (`NoLostWakeup`): while receivers sleep, at least as many
  receivers are awake as there are messages, and likewise for senders and free
  slots. Every step changes the message count by at most one, and the set of
  awake threads with it (`Served`, `ServedLemma`).
* `RefinementProofs`: `Spec => ImplementsAtomic`. `Refused`, `FoundFull`,
  `FoundEmpty`, `Added`, `Removed` and `Closed` map to the abstract effects,
  everything else to calls, returns or stuttering.

* `RingProofs`, for any number of workers, any positive buffer size
  (`RingAssumption`) and any load below one: `TInv` (types and frames) gives
  `NoUseAfterDestroy`. `OnceInv` says that each message is somewhere and not in
  two places, counting positions in channels and hands; it gives `MessagesOnce`
  whether or not the `usleep` is long enough. `AssertsPass` and `StopsLast`
  need it to be: `SleepLongEnough => (Spec => []AssertsHold)`. Their invariant
  `PhaseInv` counts the NULLs in `main_channel` and the workers that have taken
  theirs, which together are the start messages sent (`CountInv`); so when the
  main thread begins to receive none is left (`CheckInv`), and the stop
  messages are sent to empty channels (`StopInv`).
* `TopologyProofs`: the sums of `floyd_warshall` are exact (`SumsExact`), and
  the result is the largest matrix below the topology without short cuts
  (`FloydWarshallCorrect`). The invariant says what each entry has reached
  after the current round (a target that uses the intermediate routers so far),
  and that row and column of the current intermediate router do not change in
  its own round, which is why updating in place is right.
* `StressProofs`: `TInv` (types, at most one message per channel, and
  `DistancesSound`, without which sums could wrap) gives `TypeCorrect` and
  `VectorsSound`. That `select_list` always holds every neighbour once, those
  still to send to first (`ListOK`), is `ListInvariance`: a swap permutes the
  list and moves the channel just used behind the others. `StatesPrivate` needs
  `HandoverInv`: what a neighbour's channel holds of a router is the state last
  sent to it, and what the neighbour is reading is that state too, or the one
  before it while the newer one waits in the channel. Since the channel has
  room for one message (the assert at `stress.c:304`), while a neighbour reads
  a state only the next one can be sent to it, and the broadcast of the one
  after that cannot finish: four states in turn are enough.

* `AcceptanceProofs`: what `check_done` accepts. With `SelectWorks` and
  `Solved` (the solution of each network is the one that
  `FloydWarshallCorrect` proves `floyd_warshall` to compute),
  `Spec /\ []AnswersKept` implies `[]RestWhenAccepted` and `[]AssertsHold`
  (`AcceptedAtRest`, `NoAssertFails`), for any number of routers and any
  network. With the stub, `Spec` implies `[]NeverAccepted`
  (`StubNeverAccepts`): the first NULL stays in the first channel, and nothing
  gets past it. The argument for a working `channel_select` has three layers.
  * `VectorInv` is about the routers alone. `NewsInv`: whatever a router has in
    `curr_state`, a neighbour either has taken into account (`Told`), or it is
    on its way to it: still to be sent, in the channel, or in hand. So at rest
    nobody has a short cut that a neighbour could offer, which makes the
    vectors a potential (`Potential`) that lies above the solution; being
    never below it (`VectorsSound`), they are the solution (`RestSolution`).
  * `TokenInv` counts: the NULLs in channels, the routers about to answer and
    the answers in `completed_channel` are what `check_done` is still to
    receive. `EpochInv`: the four states of a router have four consecutive
    epochs, so that comparing epochs through pointers compares the pointers.
  * `RoundOneInv`: a state that a router has answered with in the first round
    has been sent to everybody for as long as it is `curr_state`.
    `RoundTwoInv`: the second round is `Doomed` (it has failed, or somebody who
    has moved on is still to answer), or everybody is where he was at his first
    answer, and whoever has answered again has nothing in his channel and
    nothing in hand (`Calm`). When the last answer is in, only the network
    at rest is left (`RestInv`).

* `StatementProofs` and `TestProofs`, for any `Programs` that
  `ProgramAssumption` allows: each test of `test.c` with whatever numbers of
  helpers and whatever capacity its asserts make sense for. (The two tests of
  correctness have three and two helpers, as in the code, and capacity 2; in
  `test_overall_send_receive` there are as many senders as receivers; in the
  non-blocking tests the helpers suffice to fill, or to empty, the channel, and
  `test_non_blocking_receive` has at most the three senders that have messages.)
  `DestroyWaits` gives `DestroyedWhenFinished`, and `AssertsAlwaysHold` gives
  `AssertsHold`: no `mu_assert` ever fails. `ProgramAssumption` makes only
  `test_non_blocking_receive` depend on its `usleep`.

  `StatementProofs` says which statement stands where (`ProgramLines`) and what
  follows for all of them (`WellFormed`: helpers are created once and joined
  before the channel is destroyed, and what a call may return fits whether the
  channel has been closed by then). `TestProofs` reduces a step of a test to a
  `Move`, of the main thread or of a helper. The invariant has two layers.
  * `ScriptInv` holds of every test: the channel's `IInv`, where each helper is
    and which call it makes (`HelperInv`, `CreatedInv`, `JoinedInv`), what its
    result can be (`ResultInv`), the semaphore (`SemInv`), and when the channel
    is closed (`ClosedInv`, `MainReturnInv`). `DestroyWaits` needs no more.
  * `TestInv` adds what the asserts of each test depend on. For the five tests
    with any number of helpers, `Loaded` accounts for every message: the buffer
    and the helpers that took one hold what the main thread and the helpers
    sent, the main thread's messages first. `FullInv` (a helper is refused only
    by a full channel, which stays full) and `CloseCountInv` (when the channel
    is closed, exactly as many helpers have succeeded as it has slots) then
    count the failures. `SettledInv` is about the `usleep`s of
    `test_non_blocking_receive`: at most one receiver is undecided, and the
    buffer has a message for it or all senders have sent theirs, so that a
    receiver that finds the channel empty comes after the last message.
    `SendInv` and `ReceiveInv` are about the two tests of correctness: where
    each message is, by what the main thread is past and who has succeeded;
    they need `SendWaits` and `ReceiveWaits`, that a `sem_wait` waits for the
    helper that the test means. `OnceInv` says of each sender's message in
    `test_non_blocking_receive` that it is in one place at most, buffer and
    receivers' results taken together, and in one once it has been sent.

### The hypothesis `AnswersKept`

`check_done` keeps pointers, not epochs. In the second round it reads the
epoch of a router's first answer through the pointer it was given then
(`stress.c:284`), and by then the state behind it may be in use again: a router
has four states, and after four cycles it answers with the same pointer as
before. The epoch is compared with itself, whatever has happened since.
`AnswersKept` says that this does not come near: no state that `check_done` was
given is written to while it needs it.

Nothing in `stress.c` ensures the hypothesis, and no run checks it: the
networks of `stress` are too small for it to fail. It is needed:
`stress_recycled` is a behaviour of `Spec` in which an assert of `check_done`
fails without it. This is a statement about `stress.c` together with a
`channel_select` that does what `channel.h` says, which this repository does
not have. The network has eight routers, with links of different lengths in the
two directions, which `create_topology` reads separately. The schedule holds
back the vectors of routers 5 and 6 until routers 1 to 4 have been asked for
the first time; what these then learn takes each of them four cycles. Router 0
has answered twice by then, and what router 1 has learnt last is a shorter way
to 7 for router 0. All the others answer with the pointers of the first round,
and `check_done` compares the vector of router 0 that it was given with the
solution. The schedule only decides which thread runs next, and holds back a
thread whose next step would be a send it delays. Whom a router sends to
follows from its `select_list`. `MCStressSchedule` restricts `Next` to that
schedule (679 states); it adds nothing to it. Keeping the epochs of the first
round instead of the pointers would make the hypothesis unnecessary.

Only model-checked: the temporal properties (`HangsOnlyIfBlocked`,
`NonBlockingReturns`, `Terminates`, `TestsEnd`), since fairness and ENABLED are
outside what TLAPS can prove; and `SolutionIsShortest`, whose reference
definition is recursive, so that a proof would be an induction over data
(`FloydWarshallCorrect` characterises the result without recursion).

## Not modelled

* `linked_list.c`: empty stubs that nothing calls.
* `grade.py` starts processes and adds up points; the topology files and the
  makefile are data and build rules.
* `print_graph` and `print_solution` only print; `peek_buffer` reads a slot for
  a test and is the `"slot"` case of `Tally`.
* Failing allocations: `channel_create` and `buffer_create` do not test the
  result of `malloc`; the programs assert theirs.
* `test.c`: the tests of `channel_select` and of channels of size 0, which
  the code does not support; `test_initialization` and
  `test_multiple_channels`, which are sequential; CPU use and response times.

## State of the work

The components are modelled as far as there is behaviour to model. Every
safety invariant that a run checks is proved, except for the one named under
"Only model-checked" above: those of the channel and of the tests for any
threads, capacities and numbers of helpers, those of the stress tests for any
number of workers and routers. What `check_done` accepts is proved under the
hypothesis `AnswersKept`.
