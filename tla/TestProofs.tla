----------------------------- MODULE TestProofs -----------------------------
(***************************************************************************)
(* The tests of test.c, for any number of helpers and any capacity that    *)
(* ProgramAssumption allows.                                               *)
(***************************************************************************)
EXTENDS StatementProofs, ChannelProofs

program == Statements(test)

-----------------------------------------------------------------------------
(***************************************************************************)
(* The steps of a test.                                                    *)
(***************************************************************************)

(* A call gets on without having looked at the channel: Lock, Relock, or   *)
(* going to sleep.                                                         *)
Underway(t) ==
  /\ pc[t] \in {"lock", "body", "wait"}
  /\ pc' = [pc EXCEPT ![t] = pc'[t]] /\ pc'[t] \in {"body", "wait"}
  /\ UNCHANGED <<allocated, buffer, closed, op, arg, status, data>>

(* A call returns. *)
Ends(t) ==
  /\ pc[t] \in {"unlock", "return"}
  /\ pc' = [pc EXCEPT ![t] = "idle"]
  /\ ResetFrame(t)
  /\ UNCHANGED <<allocated, buffer, closed>>

(* A call has done its work: all that is left is to unlock and return. *)
Outcome(t) ==
  Refused(t) \/ FoundFull(t) \/ FoundEmpty(t) \/ Added(t) \/ Removed(t) \/ Closed(t)

Decides(t) ==
  /\ pc[t] = "body" /\ data[t] = Uninit
  /\ pc' = [pc EXCEPT ![t] = "unlock"]
  /\ status' = [status EXCEPT ![t] = status'[t]]
  /\ status'[t] \in {SUCCESS, CLOSED_ERROR, CHANNEL_FULL}
  /\ data' = [data EXCEPT ![t] = data'[t]]
  /\ UNCHANGED <<allocated, op, arg>>

(* An outcome decides the call. *)
LEMMA OutcomeDecides ==
  ASSUME IInv, NEW t \in Thread, Outcome(t)
  PROVE  Decides(t)
<1>1. status \in [Thread -> Statuses] /\ data \in [Thread -> Value \cup {Uninit}]
  BY DEF IInv, TypeOK
<1>2. data[t] = Uninit
  BY DEF IInv, CallInv, Outcome, Refused, FoundFull, FoundEmpty, Added, Removed, Closed, InBodyOpen
<1>3. CASE Refused(t) \/ FoundFull(t) \/ FoundEmpty(t)
  BY <1>1, <1>2, <1>3 DEF Refused, FoundFull, FoundEmpty, FinishUnchanged, Finish, Decides,
     InBodyOpen, CHANNEL_FULL, CHANNEL_EMPTY
<1>4. CASE Added(t) \/ Closed(t)
  BY <1>1, <1>2, <1>4 DEF Added, Closed, FinishAdd, Finish, Decides, InBodyOpen
<1>5. CASE Removed(t)
  BY <1>1, <1>2, <1>5 DEF Removed, FinishRemove, Finish, Decides, InBodyOpen
<1> QED
  BY <1>3, <1>4, <1>5 DEF Outcome

(* A step of a call goes on, ends the call, or is one of its outcomes. *)
LEMMA StepCases ==
  ASSUME IInv, NEW t \in Thread, Step(t)
  PROVE  Underway(t) \/ Ends(t) \/ Outcome(t)
<1>1. pc \in [Thread -> {"idle", "lock", "body", "wait", "unlock", "return"}]
  BY DEF IInv, TypeOK
<1>2. CASE Lock(t) \/ Relock(t)
  BY <1>1, <1>2 DEF Lock, Relock, Underway, frame
<1>3. CASE Unlock(t) \/ Return(t)
  BY <1>3 DEF Unlock, Return, Ends, chan
<1>4. CASE Body(t)
  <2>1. CASE SleptOnRead(t) \/ SleptOnWrite(t)
    BY <1>1, <2>1 DEF SleptOnRead, SleptOnWrite, WaitOnRead, WaitOnWrite, Sleep, Underway, frame,
       InBodyOpen
  <2> QED
    BY <1>4, <2>1, BodyCases DEF Outcome
<1> QED
  BY <1>2, <1>3, <1>4 DEF Step, Body

-----------------------------------------------------------------------------
(***************************************************************************)
(* What holds of every test: the inductive invariant that the threads and  *)
(* the statements of the main thread share.                                *)
(***************************************************************************)

(* The result and the message that a helper has or is about to store. *)
Result(h)  == IF pc[h] = "unlock" THEN status[h] ELSE out[h]
Message(h) == IF pc[h] = "unlock" THEN data[h] ELSE got[h]

ScriptTypeOK ==
  /\ test \in Programs
  /\ line \in 1 .. Len(program) + 1
  /\ failed \in BOOLEAN
  /\ helper \in [Helper -> {"new", "start", "call", "post", "exited"}]
  /\ args \in [Helper -> [op : LockedOps \cup {"none"}, v : Value \cup {Uninit}, sem : BOOLEAN]]
  /\ out \in [Helper -> Statuses]
  /\ got \in [Helper -> Value \cup {Uninit}]
  /\ done \in Nat

(* A helper makes one call, the one it was created for, and has results    *)
(* only then.                                                              *)
HelperInv ==
  \A h \in Helper :
    /\ helper[h] = "call" <=> pc[h] # "idle"
    /\ pc[h] # "return"
    /\ helper[h] = "call" => op[h] = args[h].op /\ arg[h] = args[h].v
    /\ helper[h] # "new" => args[h].op \in SendOps \cup ReceiveOps /\ Operation(args[h].op, args[h].v)
    /\ helper[h] \in {"new", "start", "call"} => out[h] = GEN_ERROR /\ got[h] = Uninit
    /\ helper[h] = "post" => args[h].sem

(* The results of the helpers. *)
ResultInv ==
  \A h \in Helper :
    /\ helper[h] \in {"post", "exited"} \/ pc[h] = "unlock"
         => Result(h) \in {SUCCESS, CLOSED_ERROR, CHANNEL_FULL}
    /\ Result(h) = CLOSED_ERROR => closed = 0
    /\ Result(h) = CHANNEL_FULL => args[h].op \in {"non_blocking_send", "non_blocking_receive"}
    /\ Message(h) \in Value <=> (Result(h) = SUCCESS /\ args[h].op \in ReceiveOps)

(* The main thread is in a call only at a statement that makes one. *)
MainInv ==
  /\ pc[0] # "idle" =>
       ~failed /\ line <= Len(program) /\ program[line].do \in {"call", "destroy"}
  /\ pc[0] \in {"lock", "body", "wait", "unlock"} =>
       program[line].do = "call" /\ op[0] = program[line].op /\ arg[0] = program[line].v
  /\ pc[0] = "return" => program[line].do = "destroy"

(* The helpers that run are those of the pthread_create statements that    *)
(* the main thread is past.                                                *)
CreatedInv ==
  /\ \A h \in Helper :
       helper[h] # "new" =>
         \E i \in 1 .. line - 1 :
           /\ Creates(program, i, h)
           /\ args[h] = [op |-> program[i].op, v |-> program[i].v, sem |-> program[i].sem]
  /\ \A i \in 1 .. line - 1 :
       program[i].do = "pthread_create" => helper[program[i].h] # "new"

(* Those that the main thread has joined have ended. *)
JoinedInv ==
  \A i \in 1 .. line - 1 :
    program[i].do = "pthread_join" => helper[program[i].h] = "exited"

(* The semaphore counts the helpers that have posted and not been waited   *)
(* for.                                                                    *)
Posted == {h \in Helper : helper[h] = "exited" /\ args[h].sem}
Waited == {i \in 1 .. line - 1 : program[i].do = "sem_wait"}
SemInv == Cardinality(Posted) = done + Cardinality(Waited)

(* The main thread has carried out statement i, a call up to its unlock. *)
Past(i) == i < line \/ (i = line /\ pc[0] = "unlock")

(* Only the main thread closes the channel. *)
ClosedInv ==
  ~failed =>
    (closed = 0 <=> \E i \in 1 .. Len(program) : Past(i) /\ Closes(program, i))

(* What the main thread's calls return. *)
MainReturnInv ==
  /\ pc[0] = "unlock" =>
       IF ClosedBefore(program, line) THEN status[0] = CLOSED_ERROR
       ELSE program[line].op = "close" => status[0] = SUCCESS
  /\ pc[0] = "return" =>
       status[0] = IF ClosedBefore(program, line) THEN SUCCESS ELSE DESTROY_ERROR

ScriptInv ==
  /\ IInv /\ NoLostWakeup
  /\ ScriptTypeOK
  /\ HelperInv /\ ResultInv /\ MainInv
  /\ CreatedInv /\ JoinedInv /\ SemInv
  /\ ClosedInv /\ MainReturnInv

-----------------------------------------------------------------------------
(* What the main thread and the helpers can do in one step. *)
MainCalls ==
  /\ pc[0] = "idle" /\ At("call") /\ Call(0, program[line].op, program[line].v)
  /\ UNCHANGED scriptVars

MainDestroys == At("destroy") /\ channel_destroy(0) /\ UNCHANGED scriptVars

MainUnderway == ~failed /\ Underway(0) /\ UNCHANGED scriptVars

MainDecides == ~failed /\ Outcome(0) /\ Decides(0) /\ UNCHANGED scriptVars

MainReturns ==
  /\ ~failed /\ Ends(0)
  /\ Advance(status[0] \in program[line].returns /\ data[0] \in program[line].data)
  /\ UNCHANGED <<helper, args, out, got, done>>

HelperUnderway(h) == helper[h] = "call" /\ Underway(h) /\ UNCHANGED scriptVars

HelperDecides(h) == helper[h] = "call" /\ Outcome(h) /\ Decides(h) /\ UNCHANGED scriptVars

HelperReturns(h) ==
  /\ helper[h] = "call" /\ pc[h] = "unlock"
  /\ Ends(h)
  /\ out' = [out EXCEPT ![h] = status[h]]
  /\ got' = [got EXCEPT ![h] = data[h]]
  /\ helper' = [helper EXCEPT ![h] = IF args[h].sem THEN "post" ELSE "exited"]
  /\ UNCHANGED <<test, line, failed, args, done>>

(* A spurious wakeup, or nothing. *)
Woken ==
  UNCHANGED <<allocated, buffer, closed, pc, op, arg, status, data,
              test, line, failed, helper, args, out, got, done>>

Move ==
  \/ Create \/ Join \/ SemWait \/ Usleep \/ Assert
  \/ MainCalls \/ MainDestroys \/ MainUnderway \/ MainDecides \/ MainReturns
  \/ \E h \in Helper :
       HelperCall(h) \/ HelperUnderway(h) \/ HelperDecides(h) \/ HelperReturns(h) \/ HelperPost(h)
  \/ Woken

(* The main thread is a thread, and not a helper. *)
LEMMA MainIsThread == 0 \in Thread /\ 0 \notin Helper /\ Helper \subseteq Thread /\ IsFiniteSet(Helper)
  BY ScriptAssumption, ThreadAssumption, FS_Subset DEF Helper

(* Every step of a test is one of these moves. *)
LEMMA MoveCases ==
  ASSUME IInv, HelperInv, [ScriptNext]_allVars
  PROVE  Move
<1> USE MainIsThread
<1>1. CASE UNCHANGED allVars
  BY <1>1 DEF allVars, vars, scriptVars, Move, Woken
<1>2. ASSUME NEW t \in Thread, Wakeup(t)
      PROVE  Move
  BY <1>2 DEF Wakeup, SpuriousWakeup, frame, Move, Woken
<1>3. ASSUME NEW h \in Helper, helper_thread(h)
      PROVE  Move
  <2>1. CASE HelperCall(h) \/ HelperPost(h)
    BY <2>1 DEF Move
  <2>2. CASE InCall(h)
    <3>1. ~Ends(h)
      BY <2>2 DEF InCall, Ends, HelperInv
    <3>2. Underway(h) \/ Outcome(h)
      BY <2>2, <3>1, StepCases DEF InCall
    <3>3. HelperUnderway(h) \/ HelperDecides(h)
      BY <2>2, <3>2, OutcomeDecides DEF InCall, HelperUnderway, HelperDecides
    <3> QED
      BY <3>3 DEF Move
  <2>3. CASE HelperReturn(h)
    <3>1. Ends(h)
      BY <2>3, StepCases, OutcomeDecides DEF HelperReturn, Underway, Decides
    <3>2. HelperReturns(h)
      BY <2>3, <3>1 DEF HelperReturn, HelperReturns
    <3> QED
      BY <3>2 DEF Move
  <2> QED
    BY <1>3, <2>1, <2>2, <2>3 DEF helper_thread
<1>4. CASE main_thread
  <2>1. CASE Create \/ Join \/ SemWait \/ Usleep \/ Assert
    BY <2>1 DEF Move
  <2>2. CASE MainCall
    <3>1. MainCalls \/ MainDestroys
      BY <2>2 DEF MainCall, MainCalls, MainDestroys, statement, program
    <3> QED
      BY <3>1 DEF Move
  <2>3. CASE MainStep
    <3>1. Underway(0) \/ Ends(0) \/ Outcome(0)
      BY <2>3, StepCases DEF MainStep
    <3>2. CASE Underway(0)
      <4>1. MainUnderway
        BY <2>3, <3>2 DEF MainStep, MainUnderway, Underway, scriptVars
      <4> QED
        BY <4>1 DEF Move
    <3>3. CASE Ends(0)
      <4>1. MainReturns
        BY <2>3, <3>3 DEF MainStep, MainReturns, Ends, statement, program
      <4> QED
        BY <4>1 DEF Move
    <3>4. CASE Outcome(0)
      <4>1. Decides(0)
        BY <3>4, OutcomeDecides
      <4>2. MainDecides
        BY <2>3, <3>4, <4>1 DEF MainStep, MainDecides, Decides, scriptVars
      <4> QED
        BY <4>2 DEF Move
    <3> QED
      BY <3>1, <3>2, <3>3, <3>4
  <2> QED
    BY <1>4, <2>1, <2>2, <2>3 DEF main_thread
<1> QED
  BY <1>1, <1>2, <1>3, <1>4 DEF ScriptNext

(* Every step of a test is a step of the channel and its callers. *)
LEMMA ScriptImplementsChannel ==
  ASSUME ScriptTypeOK, HelperInv, [ScriptNext]_allVars
  PROVE  [Next]_vars
<1> USE MainIsThread
<1>1. ASSUME NEW t \in Thread, NEW o, NEW v, Operation(o, v), Call(t, o, v)
      PROVE  Next
  BY <1>1 DEF Operation, Start, Next
<1>2. CASE UNCHANGED vars
  BY <1>2
<1>3. CASE UNCHANGED allVars
  BY <1>3 DEF allVars
<1>4. ASSUME NEW t \in Thread, Wakeup(t)
      PROVE  Next
  BY <1>4 DEF Wakeup, Next
<1>5. ASSUME NEW h \in Helper, HelperCall(h)
      PROVE  Next
  BY <1>1, <1>5 DEF HelperCall, HelperInv
<1>6. ASSUME NEW h \in Helper, InCall(h) \/ HelperReturn(h)
      PROVE  Next
  BY <1>6 DEF InCall, HelperReturn, Next
<1>7. CASE MainCall
  <2>1. CASE At("call") /\ Call(0, statement.op, statement.v)
    <3>1. Operation(statement.op, statement.v)
      BY <2>1, ProgramLines DEF At, ScriptTypeOK, statement, WellFormed, ValidStatements, program
    <3> QED
      BY <1>1, <2>1, <3>1
  <2>2. CASE channel_destroy(0)
    BY <2>2 DEF Start, Next
  <2> QED
    BY <1>7, <2>1, <2>2 DEF MainCall
<1>8. CASE MainStep
  BY <1>8 DEF MainStep, Next
<1>9. CASE Create \/ Join \/ SemWait \/ Usleep \/ Assert \/ \E h \in Helper : HelperPost(h)
  BY <1>9 DEF Create, Join, SemWait, Usleep, Assert, HelperPost, vars
<1> QED
  BY <1>2, <1>3, <1>4, <1>5, <1>6, <1>7, <1>8, <1>9 DEF ScriptNext, main_thread, helper_thread

(* The statements of the test that runs are well formed. *)
LEMMA ProgramWellFormed ==
  ASSUME ScriptTypeOK
  PROVE  /\ WellFormed(program) /\ Lines(test) /\ Len(program) \in Nat
         /\ line \in Nat /\ line >= 1 /\ line <= Len(program) + 1
<1>1. test \in Programs
  BY DEF ScriptTypeOK
<1>2. WellFormed(program) /\ Lines(test)
  BY <1>1, ProgramLines DEF program
<1>3. Len(program) \in Nat
  BY <1>2 DEF WellFormed
<1>4. line \in 1 .. Len(program) + 1
  BY DEF ScriptTypeOK
<1> QED
  BY <1>2, <1>3, <1>4

(* The main thread goes through its statements one after the other. *)
LEMMA LineStep ==
  ASSUME ScriptTypeOK, MainInv, Move
  PROVE  /\ test' = test /\ program' = program
         /\ line' = line \/ (line' = line + 1 /\ line <= Len(program))
         /\ failed => failed'
<1> DEFINE Next1 == line' = line \/ (line' = line + 1 /\ line <= Len(program))
<1>1. ASSUME Create \/ Join \/ SemWait \/ Usleep \/ Assert
      PROVE  test' = test /\ Next1 /\ ~failed
  BY <1>1 DEF Create, Join, SemWait, Usleep, Assert, Advance, At, program
<1>2. ASSUME MainReturns
      PROVE  test' = test /\ Next1 /\ ~failed
  BY <1>2 DEF MainReturns, Advance, MainInv, Ends
<1>3. ASSUME \/ MainCalls \/ MainDestroys \/ MainUnderway \/ MainDecides
             \/ Woken
      PROVE  test' = test /\ line' = line /\ failed' = failed
  BY <1>3 DEF MainCalls, MainDestroys, MainUnderway, MainDecides, Woken, scriptVars
<1>4. ASSUME NEW h \in Helper,
             HelperCall(h) \/ HelperUnderway(h) \/ HelperDecides(h) \/ HelperReturns(h) \/ HelperPost(h)
      PROVE  test' = test /\ line' = line /\ failed' = failed
  BY <1>4 DEF HelperCall, HelperUnderway, HelperDecides, HelperReturns, HelperPost, scriptVars
<1>5. line' = line => Next1
  OBVIOUS
<1> HIDE DEF Next1
<1>6. CASE Create \/ Join \/ SemWait \/ Usleep \/ Assert \/ MainReturns
  <2>1. test' = test /\ Next1 /\ ~failed
    BY <1>1, <1>2, <1>6
  <2>2. program' = program
    BY <2>1 DEF program
  <2> QED
    BY <2>1, <2>2, Zenon DEF Next1
<1>7. CASE ~(Create \/ Join \/ SemWait \/ Usleep \/ Assert \/ MainReturns)
  <2>1. test' = test /\ line' = line /\ failed' = failed
    BY <1>3, <1>4, <1>7, Zenon DEF Move
  <2>2. program' = program
    BY <2>1 DEF program
  <2> QED
    BY <1>5, <2>1, <2>2, Zenon DEF Next1
<1> QED
  BY <1>6, <1>7

(* Moves keep the types. *)
LEMMA TypeStep ==
  ASSUME IInv, ScriptTypeOK, MainInv, HelperInv, Move
  PROVE  ScriptTypeOK'
<1> USE MainIsThread
<1>1. /\ test' = test /\ program' = program
      /\ line' = line \/ (line' = line + 1 /\ line <= Len(program))
  BY LineStep
<1>2. /\ line \in Nat /\ line >= 1 /\ line <= Len(program) + 1 /\ Len(program) \in Nat
      /\ WellFormed(program)
  BY ProgramWellFormed
<1>3. line' \in 1 .. Len(program') + 1 /\ test' \in Programs
  BY <1>1, <1>2 DEF ScriptTypeOK
<1>4. status \in [Thread -> Statuses] /\ data \in [Thread -> Value \cup {Uninit}]
  BY DEF IInv, TypeOK
<1> DEFINE Rest == /\ failed' \in BOOLEAN
                   /\ helper' \in [Helper -> {"new", "start", "call", "post", "exited"}]
                   /\ args' \in [Helper -> [op : LockedOps \cup {"none"}, v : Value \cup {Uninit},
                                            sem : BOOLEAN]]
                   /\ out' \in [Helper -> Statuses]
                   /\ got' \in [Helper -> Value \cup {Uninit}]
                   /\ done' \in Nat
<1>5. CASE Create
  <2>1. line <= Len(program) /\ program[line].do = "pthread_create" /\ statement = program[line]
    BY <1>5 DEF Create, At, program, statement
  <2>2. /\ statement.h \in Helper /\ statement.sem \in BOOLEAN
        /\ statement.op \in SendOps \cup ReceiveOps /\ Operation(statement.op, statement.v)
    BY <1>2, <2>1 DEF WellFormed, ValidStatements
  <2>3. statement.op \in LockedOps /\ statement.v \in Value \cup {Uninit}
    BY <2>2 DEF Operation, LockedOps
  <2>4. helper' \in [Helper -> {"new", "start", "call", "post", "exited"}]
    BY <1>5, <2>2 DEF Create, ScriptTypeOK
  <2>5. args' \in [Helper -> [op : LockedOps \cup {"none"}, v : Value \cup {Uninit},
                                            sem : BOOLEAN]]
    BY <1>5, <2>2, <2>3 DEF Create, ScriptTypeOK
  <2> QED
    BY <1>3, <1>5, <2>4, <2>5 DEF Create, ScriptTypeOK, Advance
<1>6. CASE Join \/ SemWait \/ Usleep \/ Assert
  <2>1. Rest
    <3>1. failed' \in BOOLEAN
      <4>1. \E ok \in BOOLEAN : failed' = ~ok
        BY <1>6 DEF Join, SemWait, Usleep, Assert, Advance
      <4> QED
        BY <4>1
    <3>2. UNCHANGED <<helper, args, out, got>>
      BY <1>6 DEF Join, SemWait, Usleep, Assert
    <3>3. done' = done \/ (done > 0 /\ done' = done - 1)
      BY <1>6 DEF Join, SemWait, Usleep, Assert
    <3>4. done' \in Nat
      BY <3>3 DEF ScriptTypeOK
    <3> QED
      BY <3>1, <3>2, <3>4 DEF ScriptTypeOK
  <2> QED
    BY <1>3, <2>1 DEF ScriptTypeOK
<1>7. CASE MainCalls \/ MainDestroys \/ MainUnderway \/ MainDecides \/ Woken
  <2>1. Rest
    BY <1>7 DEF MainCalls, MainDestroys, MainUnderway, MainDecides, Woken, scriptVars, ScriptTypeOK
  <2> QED
    BY <1>3, <2>1 DEF ScriptTypeOK
<1>8. CASE MainReturns
  <2>1. Rest
    BY <1>8 DEF MainReturns, Advance, ScriptTypeOK
  <2> QED
    BY <1>3, <2>1 DEF ScriptTypeOK
<1>9. ASSUME NEW h \in Helper,
             HelperCall(h) \/ HelperUnderway(h) \/ HelperDecides(h) \/ HelperReturns(h) \/ HelperPost(h)
      PROVE  ScriptTypeOK'
  <2>1. Rest
    <3>1. CASE HelperCall(h) \/ HelperUnderway(h) \/ HelperDecides(h)
      BY <3>1 DEF HelperCall, HelperUnderway, HelperDecides, scriptVars, ScriptTypeOK
    <3>2. CASE HelperReturns(h)
      BY <1>4, <3>2 DEF HelperReturns, ScriptTypeOK
    <3>3. CASE HelperPost(h)
      BY <3>3 DEF HelperPost, ScriptTypeOK
    <3> QED
      BY <1>9, <3>1, <3>2, <3>3
  <2> QED
    BY <1>3, <2>1 DEF ScriptTypeOK
<1> QED
  BY <1>5, <1>6, <1>7, <1>8, <1>9 DEF Move

(* What a move leaves alone of the helpers' calls. *)
LEMMA MainLeavesHelpers ==
  ASSUME IInv, Join \/ SemWait \/ Usleep \/ Assert \/ MainCalls \/ MainDestroys \/ MainUnderway
               \/ MainDecides \/ MainReturns \/ Woken
  PROVE  /\ UNCHANGED <<helper, args, out, got>>
         /\ \A h \in Helper : /\ pc'[h] = pc[h] /\ op'[h] = op[h] /\ arg'[h] = arg[h]
                              /\ status'[h] = status[h] /\ data'[h] = data[h]
<1> USE MainIsThread
<1>0. /\ pc \in [Thread -> {"idle", "lock", "body", "wait", "unlock", "return"}]
      /\ op \in [Thread -> LockedOps \cup {"none", "destroy"}]
      /\ arg \in [Thread -> Value \cup {Uninit}]
      /\ status \in [Thread -> Statuses]
      /\ data \in [Thread -> Value \cup {Uninit}]
  BY DEF IInv, TypeOK
<1>1. CASE Join \/ SemWait \/ Usleep \/ Assert \/ Woken
  BY <1>1 DEF Join, SemWait, Usleep, Assert, Woken, vars
<1>2. CASE MainCalls \/ MainDestroys
  BY <1>0, <1>2 DEF MainCalls, MainDestroys, Call, channel_destroy, scriptVars
<1>3. CASE MainUnderway \/ MainDecides
  BY <1>0, <1>3 DEF MainUnderway, MainDecides, Underway, Decides, scriptVars
<1>4. CASE MainReturns
  BY <1>0, <1>4 DEF MainReturns, Ends, ResetFrame
<1> QED
  BY <1>1, <1>2, <1>3, <1>4

(* Moves keep HelperInv. *)
LEMMA HelperStep ==
  ASSUME IInv, ScriptTypeOK, MainInv, HelperInv, CreatedInv, Move
  PROVE  HelperInv'
<1> USE MainIsThread
<1>0. /\ pc \in [Thread -> {"idle", "lock", "body", "wait", "unlock", "return"}]
      /\ op \in [Thread -> LockedOps \cup {"none", "destroy"}]
      /\ arg \in [Thread -> Value \cup {Uninit}]
  BY DEF IInv, TypeOK
<1>1. CASE \/ Join \/ SemWait \/ Usleep \/ Assert \/ MainCalls \/ MainDestroys \/ MainUnderway
           \/ MainDecides \/ MainReturns \/ Woken
  <2>1. /\ UNCHANGED <<helper, args, out, got>>
        /\ \A h \in Helper : pc'[h] = pc[h] /\ op'[h] = op[h] /\ arg'[h] = arg[h]
    BY <1>1, MainLeavesHelpers
  <2> QED
    BY <2>1 DEF HelperInv
<1>2. CASE Create
  <2>1. line <= Len(program) /\ program[line].do = "pthread_create" /\ statement = program[line]
    BY <1>2 DEF Create, At, program, statement
  <2>2. /\ statement.h \in Helper
        /\ statement.op \in SendOps \cup ReceiveOps /\ Operation(statement.op, statement.v)
    BY <2>1, ProgramWellFormed DEF WellFormed, ValidStatements
  <2>3. helper[statement.h] = "new"
    <3> SUFFICES ASSUME helper[statement.h] # "new" PROVE FALSE
      OBVIOUS
    <3>1. PICK i \in 1 .. line - 1 : Creates(program, i, statement.h)
      BY <2>2 DEF CreatedInv
    <3> QED
      BY <2>1, <3>1, ProgramWellFormed DEF Creates, WellFormed, CreatedOnce
  <2>4. /\ helper' = [helper EXCEPT ![statement.h] = "start"]
        /\ args' = [args EXCEPT ![statement.h] =
                      [op |-> statement.op, v |-> statement.v, sem |-> statement.sem]]
        /\ UNCHANGED <<pc, op, arg, out, got>>
    BY <1>2 DEF Create, vars
  <2> HIDE DEF statement
  <2> QED
    BY <2>2, <2>3, <2>4 DEF HelperInv, ScriptTypeOK
<1>3. ASSUME NEW h \in Helper, HelperCall(h)
      PROVE  HelperInv'
  BY <1>0, <1>3 DEF HelperCall, Call, HelperInv, ScriptTypeOK
<1>4. ASSUME NEW h \in Helper, HelperUnderway(h)
      PROVE  HelperInv'
  BY <1>0, <1>4 DEF HelperUnderway, Underway, HelperInv, ScriptTypeOK, scriptVars
<1>5. ASSUME NEW h \in Helper, HelperDecides(h)
      PROVE  HelperInv'
  BY <1>0, <1>5 DEF HelperDecides, Decides, HelperInv, ScriptTypeOK, scriptVars
<1>6. ASSUME NEW h \in Helper, HelperReturns(h)
      PROVE  HelperInv'
  BY <1>0, <1>6 DEF HelperReturns, Ends, ResetFrame, HelperInv, ScriptTypeOK
<1>7. ASSUME NEW h \in Helper, HelperPost(h)
      PROVE  HelperInv'
  BY <1>0, <1>7 DEF HelperPost, HelperInv, ScriptTypeOK, vars
<1> QED
  BY <1>1, <1>2, <1>3, <1>4, <1>5, <1>6, <1>7 DEF Move

HelperMove(h) ==
  HelperCall(h) \/ HelperUnderway(h) \/ HelperDecides(h) \/ HelperReturns(h) \/ HelperPost(h)

MainMove ==
  \/ Create \/ Join \/ SemWait \/ Usleep \/ Assert
  \/ MainCalls \/ MainDestroys \/ MainUnderway \/ MainDecides \/ MainReturns \/ Woken

(* A move is the main thread's or a helper's. *)
LEMMA MoveSplit == Move <=> MainMove \/ \E h \in Helper : HelperMove(h)
  BY DEF Move, MainMove, HelperMove

(* What a helper's move leaves alone. *)
LEMMA HelperLeavesMain ==
  ASSUME IInv, ScriptTypeOK, HelperInv, NEW h \in Helper, HelperMove(h)
  PROVE  /\ pc'[0] = pc[0] /\ op'[0] = op[0] /\ arg'[0] = arg[0]
         /\ status'[0] = status[0] /\ data'[0] = data[0]
         /\ UNCHANGED <<test, line, failed, args, allocated>>
         /\ \A g \in Helper \ {h} :
              /\ pc'[g] = pc[g] /\ op'[g] = op[g] /\ arg'[g] = arg[g]
              /\ status'[g] = status[g] /\ data'[g] = data[g]
              /\ helper'[g] = helper[g] /\ out'[g] = out[g] /\ got'[g] = got[g]
<1> USE MainIsThread
<1>0. /\ pc \in [Thread -> {"idle", "lock", "body", "wait", "unlock", "return"}]
      /\ op \in [Thread -> LockedOps \cup {"none", "destroy"}]
      /\ arg \in [Thread -> Value \cup {Uninit}]
      /\ status \in [Thread -> Statuses]
      /\ data \in [Thread -> Value \cup {Uninit}]
  BY DEF IInv, TypeOK
<1>1. CASE HelperCall(h)
  BY <1>0, <1>1 DEF HelperCall, Call, ScriptTypeOK, chan
<1>2. CASE HelperUnderway(h)
  BY <1>0, <1>2 DEF HelperUnderway, Underway, scriptVars
<1>3. CASE HelperDecides(h)
  BY <1>0, <1>3 DEF HelperDecides, Decides, scriptVars
<1>4. CASE HelperReturns(h)
  BY <1>0, <1>4 DEF HelperReturns, Ends, ResetFrame, ScriptTypeOK
<1>5. CASE HelperPost(h)
  BY <1>5 DEF HelperPost, ScriptTypeOK, vars
<1> QED
  BY <1>1, <1>2, <1>3, <1>4, <1>5 DEF HelperMove

SameResult(g) == Result(g)' = Result(g) /\ Message(g)' = Message(g)

(* Only the critical section of its call gives a helper a result. *)
LEMMA ResultsKept ==
  ASSUME IInv, ScriptTypeOK, HelperInv, Move, NEW g \in Helper, ~HelperDecides(g)
  PROVE  SameResult(g)
<1> USE MainIsThread
<1>0. /\ pc \in [Thread -> {"idle", "lock", "body", "wait", "unlock", "return"}]
  BY DEF IInv, TypeOK
<1>1. CASE Create
  BY <1>1 DEF Create, vars, SameResult, Result, Message
<1>2. CASE Join \/ SemWait \/ Usleep \/ Assert \/ MainCalls \/ MainDestroys \/ MainUnderway
               \/ MainDecides \/ MainReturns \/ Woken
  BY <1>2, MainLeavesHelpers DEF SameResult, Result, Message
<1>3. ASSUME NEW h \in Helper, h # g, HelperMove(h)
      PROVE  SameResult(g)
  BY <1>3, HelperLeavesMain DEF SameResult, Result, Message
<1>4. CASE HelperCall(g)
  BY <1>0, <1>4 DEF HelperCall, Call, SameResult, Result, Message
<1>5. CASE HelperUnderway(g)
  BY <1>0, <1>5 DEF HelperUnderway, Underway, scriptVars, SameResult, Result, Message
<1>6. CASE HelperReturns(g)
  BY <1>0, <1>6 DEF HelperReturns, Ends, ScriptTypeOK, SameResult, Result, Message
<1>7. CASE HelperPost(g)
  BY <1>7 DEF HelperPost, vars, SameResult, Result, Message
<1> QED
  BY <1>1, <1>2, <1>3, <1>4, <1>5, <1>6, <1>7, MoveSplit DEF MainMove, HelperMove

(* A helper whose call is decided has its result; the others keep theirs. *)
LEMMA ResultsDecided ==
  ASSUME IInv, ScriptTypeOK, HelperInv, NEW h \in Helper, HelperDecides(h)
  PROVE  /\ Result(h) = GEN_ERROR /\ Message(h) = Uninit
         /\ Result(h)' = status'[h] /\ Message(h)' = data'[h]
         /\ helper[h] = "call" /\ args' = args
         /\ \A g \in Helper \ {h} : SameResult(g)
<1> USE MainIsThread
<1>0. /\ pc \in [Thread -> {"idle", "lock", "body", "wait", "unlock", "return"}]
  BY DEF IInv, TypeOK
<1>1. /\ Result(h) = GEN_ERROR /\ Message(h) = Uninit
      /\ Result(h)' = status'[h] /\ Message(h)' = data'[h]
      /\ helper[h] = "call" /\ args' = args
  BY <1>0 DEF HelperDecides, Decides, Result, Message, HelperInv, scriptVars
<1>2. ASSUME NEW g \in Helper \ {h}
      PROVE  SameResult(g)
  BY HelperLeavesMain DEF HelperMove, SameResult, Result, Message
<1> QED
  BY <1>1, <1>2

(* A closed channel stays closed. *)
LEMMA ClosedStays ==
  ASSUME IInv, Move
  PROVE  /\ closed = 0 => closed' = 0
         /\ closed' \in {0, 1}
         /\ closed' # closed => \E t \in Thread : Closed(t)
<1> USE MainIsThread
<1>0. closed \in {0, 1}
  BY DEF IInv, TypeOK
<1>1. CASE Create \/ Join \/ SemWait \/ Usleep \/ Assert \/ Woken
  BY <1>0, <1>1 DEF Create, Join, SemWait, Usleep, Assert, Woken, vars
<1>2. CASE MainCalls \/ MainDestroys
  BY <1>0, <1>2 DEF MainCalls, MainDestroys, Call, channel_destroy, chan
<1>3. ASSUME NEW t \in Thread, Underway(t) \/ Ends(t)
      PROVE  closed' = closed
  BY <1>3 DEF Underway, Ends
<1>4. ASSUME NEW t \in Thread, Outcome(t)
      PROVE  /\ closed = 0 => closed' = 0
             /\ closed' \in {0, 1}
             /\ closed' # closed => Closed(t)
  BY <1>0, <1>4 DEF Outcome, Refused, FoundFull, FoundEmpty, Added, Removed, Closed, FinishUnchanged,
     FinishAdd, FinishRemove, InBodyOpen
<1>5. ASSUME NEW h \in Helper, HelperCall(h) \/ HelperPost(h)
      PROVE  closed' = closed
  BY <1>5 DEF HelperCall, Call, HelperPost, chan, vars
<1>6. \/ closed' = closed
      \/ \E t \in Thread : Outcome(t)
  BY <1>1, <1>2, <1>3, <1>5, MoveSplit DEF MainMove, HelperMove, MainUnderway, MainDecides, MainReturns,
     HelperUnderway, HelperDecides, HelperReturns, Create, Join, SemWait, Usleep, Assert, Woken, vars,
     MainCalls, MainDestroys, Call, channel_destroy, chan
<1> QED
  BY <1>0, <1>4, <1>6

(* Moves keep ResultInv. *)
LEMMA ResultInvStep ==
  ASSUME IInv, ScriptTypeOK, MainInv, HelperInv, CreatedInv, ResultInv, Move, IInv', HelperInv'
  PROVE  ResultInv'
<1> USE MainIsThread
<1>0. closed = 0 => closed' = 0
  BY ClosedStays
<1> DEFINE Good(h) ==
      /\ helper[h] \in {"post", "exited"} \/ pc[h] = "unlock"
           => Result(h) \in {SUCCESS, CLOSED_ERROR, CHANNEL_FULL}
      /\ Result(h) = CLOSED_ERROR => closed = 0
      /\ Result(h) = CHANNEL_FULL => args[h].op \in {"non_blocking_send", "non_blocking_receive"}
      /\ Message(h) \in Value <=> (Result(h) = SUCCESS /\ args[h].op \in ReceiveOps)
<1> SUFFICES ASSUME NEW g \in Helper PROVE Good(g)'
  BY DEF ResultInv
<1>1. Good(g)
  BY DEF ResultInv
<1>2. CASE HelperDecides(g)
  <2>1. /\ Result(g)' = status'[g] /\ Message(g)' = data'[g] /\ args' = args
        /\ status'[g] \in {SUCCESS, CLOSED_ERROR, CHANNEL_FULL}
        /\ pc'[g] = "unlock" /\ op'[g] = args[g].op
    <3>1. pc \in [Thread -> {"idle", "lock", "body", "wait", "unlock", "return"}]
      BY DEF IInv, TypeOK
    <3>2. Result(g)' = status'[g] /\ Message(g)' = data'[g] /\ args' = args
      BY <1>2, ResultsDecided
    <3> QED
      BY <1>2, <3>1, <3>2 DEF HelperDecides, Decides, HelperInv
  <2>2. /\ data'[g] \in Value <=> (status'[g] = SUCCESS /\ op'[g] \in ReceiveOps)
        /\ status'[g] = CHANNEL_FULL => op'[g] \in {"non_blocking_send", "non_blocking_receive"}
        /\ status'[g] = CLOSED_ERROR => closed' = 0
    BY <2>1 DEF IInv, ReturnInv
  <2> QED
    BY <2>1, <2>2
<1>3. CASE ~HelperDecides(g)
  <2>1. Result(g)' = Result(g) /\ Message(g)' = Message(g)
    BY <1>3, ResultsKept DEF SameResult
  <2>2. (args[g].op)' = args[g].op
        \/ (Result(g) = GEN_ERROR /\ Message(g) = Uninit /\ helper'[g] = "start" /\ pc'[g] = "idle")
    <3>1. CASE Create
      <4>1. statement.h \in Helper /\ statement = program[line] /\ line <= Len(program)
            /\ statement.do = "pthread_create"
        BY <1>1, <3>1, ProgramWellFormed DEF Create, At, statement, program, WellFormed, ValidStatements
      <4>2. CASE statement.h = g
        <5>1. helper[g] = "new"
          <6> SUFFICES ASSUME helper[g] # "new" PROVE FALSE
            OBVIOUS
          <6>1. PICK i \in 1 .. line - 1 : Creates(program, i, g)
            BY DEF CreatedInv
          <6> QED
            BY <4>1, <4>2, <6>1, ProgramWellFormed DEF Creates, WellFormed, CreatedOnce
        <5> QED
          BY <3>1, <4>1, <4>2, <5>1 DEF Create, HelperInv, Result, Message, ScriptTypeOK, vars
      <4>3. CASE statement.h # g
        BY <3>1, <4>1, <4>3 DEF Create, ScriptTypeOK
      <4> QED
        BY <4>2, <4>3
    <3>2. CASE ~Create
      <4>1. args' = args
        BY <3>2, MoveSplit, MainLeavesHelpers, HelperLeavesMain DEF MainMove
      <4> QED
        BY <4>1
    <3> QED
      BY <3>1, <3>2
  <2>3. helper'[g] \in {"post", "exited"} \/ pc'[g] = "unlock"
        => helper[g] \in {"post", "exited"} \/ pc[g] = "unlock"
    <3>0. /\ pc \in [Thread -> {"idle", "lock", "body", "wait", "unlock", "return"}]
      BY DEF IInv, TypeOK
    <3>1. CASE Create
      <4>1. statement.h \in Helper
        BY <1>1, <3>1, ProgramWellFormed DEF Create, At, statement, program, WellFormed, ValidStatements
      <4> QED
        BY <3>1, <4>1 DEF Create, ScriptTypeOK, vars
    <3>2. CASE MainMove /\ ~Create
      BY <3>2, MainLeavesHelpers DEF MainMove
    <3>3. ASSUME NEW h \in Helper, HelperMove(h), h # g
          PROVE  helper'[g] = helper[g] /\ pc'[g] = pc[g]
      BY <3>3, HelperLeavesMain
    <3>4. CASE HelperMove(g)
      BY <1>3, <3>0, <3>4 DEF HelperMove, HelperCall, Call, HelperUnderway, Underway, HelperReturns, Ends,
         HelperPost, ScriptTypeOK, scriptVars, vars
    <3> QED
      BY <3>1, <3>2, <3>3, <3>4, MoveSplit
  <2>4. GEN_ERROR \notin {CLOSED_ERROR, CHANNEL_FULL, SUCCESS}
    BY DEF GEN_ERROR, CLOSED_ERROR, CHANNEL_FULL, SUCCESS
  <2> HIDE DEF Move
  <2> QED
    BY <1>0, <1>1, <2>1, <2>2, <2>3, <2>4, UninitAssumption
<1> QED
  BY <1>2, <1>3

(* Moves keep MainInv. *)
LEMMA MainInvStep ==
  ASSUME IInv, ScriptTypeOK, MainInv, HelperInv, Move
  PROVE  MainInv'
<1> USE MainIsThread
<1>0. /\ pc \in [Thread -> {"idle", "lock", "body", "wait", "unlock", "return"}]
      /\ op \in [Thread -> LockedOps \cup {"none", "destroy"}]
      /\ arg \in [Thread -> Value \cup {Uninit}]
  BY DEF IInv, TypeOK
<1>1. program' = program
  BY LineStep
<1>2. CASE Create \/ Join \/ SemWait \/ Usleep \/ Assert
  <2>1. pc[0] = "idle"
    BY <1>0, <1>2 DEF Create, Join, SemWait, Usleep, Assert, At, program, MainInv
  <2>2. pc' = pc
    BY <1>2 DEF Create, Join, SemWait, Usleep, Assert, vars
  <2> QED
    BY <2>1, <2>2 DEF MainInv
<1>3. CASE MainCalls
  BY <1>0, <1>1, <1>3 DEF MainCalls, At, Call, program, scriptVars, MainInv
<1>4. CASE MainDestroys
  BY <1>0, <1>1, <1>4 DEF MainDestroys, At, channel_destroy, program, scriptVars, MainInv
<1>5. CASE MainUnderway
  BY <1>0, <1>1, <1>5 DEF MainUnderway, Underway, scriptVars, MainInv
<1>6. CASE MainDecides
  BY <1>0, <1>1, <1>6 DEF MainDecides, Decides, scriptVars, MainInv
<1>7. CASE MainReturns
  BY <1>0, <1>7 DEF MainReturns, Ends, MainInv
<1>8. CASE Woken
  BY <1>1, <1>8 DEF Woken, MainInv
<1>9. ASSUME NEW h \in Helper, HelperMove(h)
      PROVE  MainInv'
  BY <1>1, <1>9, HelperLeavesMain DEF MainInv
<1> QED
  BY <1>2, <1>3, <1>4, <1>5, <1>6, <1>7, <1>8, <1>9, MoveSplit DEF MainMove

(* The main thread gets past a statement by carrying it out. *)
LEMMA LinePassed ==
  ASSUME IInv, ScriptTypeOK, MainInv, HelperInv, Move
  PROVE  \/ line' = line
         \/ /\ line' = line + 1 /\ line <= Len(program) /\ ~failed
            /\ program[line].do = "pthread_create" => Create
            /\ program[line].do = "pthread_join" => helper[program[line].h] = "exited"
            /\ program[line].do = "sem_wait" => SemWait
            /\ program[line].do = "usleep" => Usleep
            /\ program[line].do = "call" => MainReturns /\ pc[0] = "unlock"
<1>1. CASE Create
  BY <1>1 DEF Create, Advance, At, program
<1>2. CASE Join
  BY <1>2 DEF Join, Advance, At, program, statement
<1>3. CASE SemWait
  BY <1>3 DEF SemWait, Advance, At, program
<1>4. CASE Usleep
  BY <1>4 DEF Usleep, Advance, At, program
<1>5. CASE Assert
  BY <1>5 DEF Assert, Advance, At, program
<1>6. CASE MainReturns
  <2>1. /\ line' = line \/ line' = line + 1
        /\ pc[0] \in {"unlock", "return"} /\ ~failed
    BY <1>6 DEF MainReturns, Advance, Ends
  <2>2. /\ line <= Len(program) /\ program[line].do \in {"call", "destroy"}
        /\ program[line].do = "call" => pc[0] = "unlock"
    BY <2>1 DEF MainInv
  <2> QED
    BY <1>6, <2>1, <2>2
<1>7. CASE MainCalls \/ MainDestroys \/ MainUnderway \/ MainDecides \/ Woken
  BY <1>7 DEF MainCalls, MainDestroys, MainUnderway, MainDecides, Woken, scriptVars
<1>8. ASSUME NEW h \in Helper, HelperMove(h)
      PROVE  line' = line
  BY <1>8, HelperLeavesMain
<1> QED
  BY <1>1, <1>2, <1>3, <1>4, <1>5, <1>6, <1>7, <1>8, MoveSplit DEF MainMove

(* A statement that creates a helper is the first that does. *)
LEMMA CreateIsFirst ==
  ASSUME ScriptTypeOK, CreatedInv, line <= Len(program), program[line].do = "pthread_create"
  PROVE  helper[program[line].h] = "new" /\ program[line].h \in Helper
<1>1. program[line].h \in Helper
  BY ProgramWellFormed DEF WellFormed, ValidStatements
<1>2. ASSUME helper[program[line].h] # "new"
      PROVE  FALSE
  <2>1. PICK i \in 1 .. line - 1 : Creates(program, i, program[line].h)
    BY <1>1, <1>2 DEF CreatedInv
  <2> QED
    BY <2>1, ProgramWellFormed DEF Creates, WellFormed, CreatedOnce
<1> QED
  BY <1>1, <1>2

(* A helper goes on, from new to exited. *)
LEMMA HelperGoesOn ==
  ASSUME IInv, ScriptTypeOK, MainInv, HelperInv, CreatedInv, Move, NEW g \in Helper
  PROVE  /\ helper[g] # "new" => helper'[g] # "new" /\ args'[g] = args[g]
         /\ helper[g] = "exited" => helper'[g] = "exited"
         /\ ~Create => args' = args /\ (helper[g] = "new" => helper'[g] = "new")
<1> USE MainIsThread
<1>1. CASE Create
  <2>1. /\ statement = program[line] /\ line <= Len(program)
        /\ program[line].do = "pthread_create"
    BY <1>1 DEF Create, At, statement, program
  <2>2. helper[statement.h] = "new" /\ statement.h \in Helper
    BY <2>1, CreateIsFirst
  <2> QED
    BY <1>1, <2>2 DEF Create, ScriptTypeOK
<1>2. CASE MainMove /\ ~Create
  BY <1>2, MainLeavesHelpers DEF MainMove
<1>3. ASSUME NEW h \in Helper, HelperMove(h), h # g
      PROVE  helper'[g] = helper[g] /\ args' = args /\ ~Create
  <2>1. line' = line
    BY <1>3, HelperLeavesMain
  <2>2. ~Create
    BY <2>1, ProgramWellFormed DEF Create, Advance
  <2> QED
    BY <1>3, <2>2, HelperLeavesMain
<1>4. CASE HelperMove(g)
  <2>1. args' = args
    BY <1>4, HelperLeavesMain
  <2>2. /\ helper[g] # "new" => helper'[g] # "new"
        /\ helper[g] = "exited" => helper'[g] = "exited"
        /\ helper[g] = "new" => helper'[g] = "new"
    BY <1>4 DEF HelperMove, HelperCall, HelperUnderway, HelperDecides, HelperReturns, HelperPost,
       ScriptTypeOK, scriptVars
  <2> QED
    BY <2>1, <2>2
<1> QED
  BY <1>1, <1>2, <1>3, <1>4, MoveSplit

(* Moves keep CreatedInv. *)
LEMMA CreatedInvStep ==
  ASSUME IInv, ScriptTypeOK, MainInv, HelperInv, CreatedInv, Move
  PROVE  CreatedInv'
<1> USE MainIsThread
<1>0. program' = program /\ line \in Nat /\ line >= 1
  BY LineStep, ProgramWellFormed
<1>1. ASSUME ~Create
      PROVE  CreatedInv'
  <2>1. line' = line \/ (line' = line + 1 /\ program[line].do # "pthread_create")
    BY <1>1, LinePassed
  <2>2. ASSUME NEW h \in Helper, helper'[h] # "new"
        PROVE  \E i \in 1 .. line' - 1 :
                 /\ Creates(program, i, h)
                 /\ args'[h] = [op |-> program[i].op, v |-> program[i].v, sem |-> program[i].sem]
    <3>1. helper[h] # "new" /\ args' = args
      BY <1>1, <2>2, HelperGoesOn
    <3>2. PICK i \in 1 .. line - 1 :
                 /\ Creates(program, i, h)
                 /\ args[h] = [op |-> program[i].op, v |-> program[i].v, sem |-> program[i].sem]
      BY <3>1 DEF CreatedInv
    <3>3. i \in 1 .. line' - 1
      BY <1>0, <2>1
    <3> QED
      BY <3>1, <3>2, <3>3
  <2>3. ASSUME NEW i \in 1 .. line' - 1, program[i].do = "pthread_create"
        PROVE  helper'[program[i].h] # "new"
    <3>1. i \in 1 .. line - 1
      BY <1>0, <2>1, <2>3
    <3>2. program[i].h \in Helper
      BY <2>3, <3>1, ProgramWellFormed DEF WellFormed, ValidStatements
    <3>3. helper[program[i].h] # "new"
      BY <2>3, <3>1 DEF CreatedInv
    <3> QED
      BY <3>2, <3>3, HelperGoesOn
  <2> QED
    BY <1>0, <2>2, <2>3 DEF CreatedInv, Creates
<1>2. ASSUME Create
      PROVE  CreatedInv'
  <2>1. /\ statement = program[line] /\ line <= Len(program)
        /\ program[line].do = "pthread_create" /\ line' = line + 1
    BY <1>2 DEF Create, At, statement, program, Advance
  <2> DEFINE g == program[line].h
  <2>2. helper[g] = "new" /\ g \in Helper
    BY <2>1, CreateIsFirst
  <2>3. /\ helper' = [helper EXCEPT ![g] = "start"]
        /\ args' = [args EXCEPT ![g] = [op |-> program[line].op, v |-> program[line].v,
                                        sem |-> program[line].sem]]
    BY <1>2, <2>1 DEF Create
  <2>4. ASSUME NEW h \in Helper, helper'[h] # "new"
        PROVE  \E i \in 1 .. line' - 1 :
                 /\ Creates(program, i, h)
                 /\ args'[h] = [op |-> program[i].op, v |-> program[i].v, sem |-> program[i].sem]
    <3>1. CASE h = g
      <4>1. line \in 1 .. line' - 1
        BY <1>0, <2>1
      <4>2. Creates(program, line, h)
        BY <2>1, <3>1 DEF Creates
      <4>3. args'[h] = [op |-> program[line].op, v |-> program[line].v, sem |-> program[line].sem]
        BY <2>2, <2>3, <3>1 DEF ScriptTypeOK
      <4> QED
        BY <4>1, <4>2, <4>3
    <3>2. CASE h # g
      <4>1. helper[h] # "new" /\ args'[h] = args[h]
        BY <2>2, <2>3, <2>4, <3>2 DEF ScriptTypeOK
      <4>2. PICK i \in 1 .. line - 1 :
                 /\ Creates(program, i, h)
                 /\ args[h] = [op |-> program[i].op, v |-> program[i].v, sem |-> program[i].sem]
        BY <4>1 DEF CreatedInv
      <4>3. i \in 1 .. line' - 1
        BY <1>0, <2>1
      <4> QED
        BY <4>1, <4>2, <4>3
    <3> QED
      BY <3>1, <3>2
  <2>5. ASSUME NEW i \in 1 .. line' - 1, program[i].do = "pthread_create"
        PROVE  helper'[program[i].h] # "new"
    <3>1. CASE i = line
      BY <2>2, <2>3, <3>1 DEF ScriptTypeOK
    <3>2. CASE i # line
      <4>1. i \in 1 .. line - 1
        BY <1>0, <2>1, <2>5, <3>2
      <4>2. program[i].h \in Helper
        BY <2>5, <4>1, ProgramWellFormed DEF WellFormed, ValidStatements
      <4>3. helper[program[i].h] # "new"
        BY <2>5, <4>1 DEF CreatedInv
      <4> QED
        BY <2>2, <2>3, <4>2, <4>3 DEF ScriptTypeOK
    <3> QED
      BY <3>1, <3>2
  <2> QED
    BY <1>0, <2>4, <2>5 DEF CreatedInv, Creates
<1> QED
  BY <1>1, <1>2

(* Moves keep JoinedInv. *)
LEMMA JoinedInvStep ==
  ASSUME IInv, ScriptTypeOK, MainInv, HelperInv, CreatedInv, JoinedInv, Move
  PROVE  JoinedInv'
<1>0. program' = program /\ line \in Nat /\ line >= 1
  BY LineStep, ProgramWellFormed
<1> SUFFICES ASSUME NEW i \in 1 .. line' - 1, program[i].do = "pthread_join"
             PROVE  helper'[program[i].h] = "exited"
  BY <1>0 DEF JoinedInv
<1>1. i \in 1 .. line - 1
      \/ (line' = line + 1 /\ i = line)
  BY <1>0, LinePassed
<1>2. i \in 1 .. Len(program) /\ helper[program[i].h] = "exited"
  BY <1>0, <1>1, LinePassed, ProgramWellFormed DEF JoinedInv
<1>3. program[i].h \in Helper
  BY <1>2, ProgramWellFormed DEF WellFormed, ValidStatements
<1> QED
  BY <1>2, <1>3, HelperGoesOn

-----------------------------------------------------------------------------
(* The part of the invariant that says where every thread is. *)
ThreadsInv ==
  IInv /\ ScriptTypeOK /\ HelperInv /\ MainInv /\ CreatedInv /\ JoinedInv

(* At the beginning every thread is where it should be, *)
LEMMA ScriptInitThreads == ScriptInit => ThreadsInv /\ NoLostWakeup
<1> SUFFICES ASSUME ScriptInit PROVE ThreadsInv /\ NoLostWakeup
  OBVIOUS
<1> USE MainIsThread
<1>1. test \in Programs /\ test.capacity \in Nat
  BY ProgramType DEF ScriptInit
<1>2. BufferOK(buffer)
  BY <1>1, CreateLemma DEF ScriptInit
<1>3. IInv
  BY <1>2, ThreadAssumption, UninitAssumption
     DEF ScriptInit, IInv, TypeOK, MutexInv, SleepersInv, CallInv, NoSleepOnClosed,
         NoUseAfterFree, ReturnInv, Statuses, GEN_ERROR, CHANNEL_EMPTY, CHANNEL_FULL, SUCCESS, CLOSED_ERROR,
         DESTROY_ERROR
<1>4. Len(program) \in Nat
  BY <1>1, ProgramLines DEF program, WellFormed
<1>5. ScriptTypeOK
  <2>1. line \in 1 .. Len(program) + 1
    BY <1>4 DEF ScriptInit
  <2>2. args \in [Helper -> [op : LockedOps \cup {"none"}, v : Value \cup {Uninit}, sem : BOOLEAN]]
    BY DEF ScriptInit
  <2>3. failed \in BOOLEAN
    BY DEF ScriptInit
  <2>4. /\ helper \in [Helper -> {"new", "start", "call", "post", "exited"}]
        /\ out \in [Helper -> Statuses] /\ got \in [Helper -> Value \cup {Uninit}]
        /\ done \in Nat
    BY DEF ScriptInit, Statuses
  <2> QED
    BY <1>1, <2>1, <2>2, <2>3, <2>4 DEF ScriptTypeOK
<1>6. HelperInv /\ MainInv /\ CreatedInv /\ JoinedInv
  BY DEF ScriptInit, HelperInv, MainInv, CreatedInv, JoinedInv
<1>7. NoLostWakeup
  BY DEF ScriptInit, NoLostWakeup, ReceiversServed, SendersServed
<1> QED
  BY <1>3, <1>5, <1>6, <1>7 DEF ThreadsInv

(* and every step keeps it there. *)
LEMMA NextThreads ==
  ASSUME ThreadsInv, [ScriptNext]_allVars
  PROVE  ThreadsInv' /\ Move /\ [Next]_vars
<1> USE DEF ThreadsInv
<1>1. Move
  BY MoveCases
<1>2. [Next]_vars
  BY ScriptImplementsChannel
<1>3. IInv'
  BY <1>2, NextIInv
<1>4. ScriptTypeOK' /\ HelperInv'
  BY <1>1, TypeStep, HelperStep
<1>5. MainInv' /\ CreatedInv' /\ JoinedInv'
  BY <1>1, MainInvStep, CreatedInvStep, JoinedInvStep
<1> HIDE DEF ThreadsInv
<1> QED
  BY <1>1, <1>2, <1>3, <1>4, <1>5 DEF ThreadsInv

(* So it is an invariant of every test. *)
LEMMA ThreadsInvariant == ScriptSpec => []ThreadsInv
<1>1. ThreadsInv /\ [ScriptNext]_allVars => ThreadsInv'
  BY NextThreads
<1> QED
  BY <1>1, ScriptInitThreads, PTL DEF ScriptSpec

(* channel_destroy is called by the tests when no other thread is in a     *)
(* call.                                                                   *)
THEOREM DestroyWaits == ScriptSpec => []DestroyedWhenFinished
<1>1. ThreadsInv => DestroyedWhenFinished
  <2> USE MainIsThread
  <2> SUFFICES ASSUME ThreadsInv, At("destroy")
               PROVE  OthersFinished(0) /\ \A h \in Helper : helper[h] \in {"new", "exited"}
    BY DEF DestroyedWhenFinished
  <2>1. line <= Len(program) /\ program[line].do = "destroy"
    BY DEF At, program
  <2>2. ASSUME NEW h \in Helper, helper[h] # "new"
        PROVE  helper[h] = "exited"
    <3>1. PICK i \in 1 .. line - 1 : Creates(program, i, h)
      BY <2>2 DEF ThreadsInv, CreatedInv
    <3>2. WellFormed(program) /\ line \in 1 .. Len(program) /\ i \in 1 .. Len(program)
      BY <2>1, <3>1, ProgramWellFormed DEF ThreadsInv
    <3>3. PICK k \in 1 .. Len(program) :
                  k < line /\ program[k].do = "pthread_join" /\ program[k].h = program[i].h
      BY <2>1, <3>1, <3>2 DEF WellFormed, JoinedBeforeDestroy, Creates
    <3>4. k \in 1 .. line - 1
      BY <3>2, <3>3
    <3> QED
      BY <3>1, <3>3, <3>4 DEF ThreadsInv, JoinedInv, Creates
  <2>3. ASSUME NEW h \in Helper
        PROVE  pc[h] = "idle"
    BY <2>2 DEF ThreadsInv, HelperInv
  <2> QED
    BY <2>2, <2>3 DEF OthersFinished, Helper
<1> QED
  BY <1>1, ThreadsInvariant, PTL

(* The helpers that have posted and the waits can be counted. *)
LEMMA PostedFinite ==
  ASSUME ScriptTypeOK
  PROVE  /\ IsFiniteSet(Posted) /\ Cardinality(Posted) \in Nat
         /\ IsFiniteSet(Waited) /\ Cardinality(Waited) \in Nat
<1>1. IsFiniteSet(Posted)
  BY MainIsThread, FS_Subset DEF Posted
<1>2. line \in Nat
  BY ProgramWellFormed
<1>3. IsFiniteSet(1 .. line - 1)
  BY <1>2, FS_Interval
<1>4. IsFiniteSet(Waited)
  BY <1>3, FS_Subset DEF Waited
<1> QED
  BY <1>1, <1>4, FS_CardinalityType

(* Moves keep SemInv. *)
LEMMA SemInvStep ==
  ASSUME IInv, ScriptTypeOK, MainInv, HelperInv, CreatedInv, SemInv, Move
  PROVE  SemInv'
<1> USE MainIsThread
<1>0. program' = program /\ line \in Nat /\ line >= 1 /\ done \in Nat
  BY LineStep, ProgramWellFormed DEF ScriptTypeOK
<1>a. /\ IsFiniteSet(Posted) /\ Cardinality(Posted) \in Nat
      /\ IsFiniteSet(Waited) /\ Cardinality(Waited) \in Nat
  BY PostedFinite
<1>b. Cardinality(Posted) = done + Cardinality(Waited)
  BY DEF SemInv
<1>1. CASE SemWait
  <2>1. /\ line' = line + 1 /\ program[line].do = "sem_wait" /\ done' = done - 1
        /\ UNCHANGED <<helper, args>>
    BY <1>1 DEF SemWait, Advance, At, program
  <2>2. Posted' = Posted
    BY <2>1 DEF Posted
  <2>3. Waited' = Waited \cup {line} /\ line \notin Waited
    BY <1>0, <2>1 DEF Waited
  <2>4. Cardinality(Waited') = Cardinality(Waited) + 1
    BY <1>a, <2>3, FS_AddElement
  <2> QED
    BY <1>0, <1>a, <1>b, <2>1, <2>2, <2>4 DEF SemInv
<1>2. CASE ~SemWait
  <2>1. Waited' = Waited
    <3>1. line' = line \/ (line' = line + 1 /\ program[line].do # "sem_wait")
      BY <1>2, LinePassed
    <3> QED
      BY <1>0, <3>1 DEF Waited
  <2>2. CASE \E h \in Helper : HelperPost(h)
    <3>1. PICK h \in Helper : HelperPost(h)
      BY <2>2
    <3>2. /\ helper[h] = "post" /\ helper' = [helper EXCEPT ![h] = "exited"]
          /\ done' = done + 1 /\ args' = args
      BY <3>1 DEF HelperPost
    <3>3. args[h].sem
      BY <3>2 DEF HelperInv
    <3>4. Posted' = Posted \cup {h} /\ h \notin Posted
      BY <3>2, <3>3 DEF Posted, ScriptTypeOK
    <3>5. Cardinality(Posted') = Cardinality(Posted) + 1
      BY <1>a, <3>4, FS_AddElement
    <3> QED
      BY <1>0, <1>a, <1>b, <2>1, <3>2, <3>5 DEF SemInv
  <2>3. CASE ~\E h \in Helper : HelperPost(h)
    <3>1. done' = done
      BY <1>2, <2>3, MoveSplit DEF MainMove, HelperMove, Create, Join, Usleep, Assert, MainCalls, MainDestroys,
         MainUnderway, MainDecides, MainReturns, Woken, HelperCall, HelperUnderway, HelperDecides,
         HelperReturns, scriptVars
    <3>2. ASSUME NEW g \in Helper
          PROVE  g \in Posted' <=> g \in Posted
      <4>1. CASE Create
        <5>1. /\ statement = program[line] /\ line <= Len(program)
              /\ program[line].do = "pthread_create"
          BY <4>1 DEF Create, At, statement, program
        <5>2. helper[statement.h] = "new" /\ statement.h \in Helper
          BY <5>1, CreateIsFirst
        <5> QED
          BY <4>1, <5>2 DEF Create, ScriptTypeOK, Posted
      <4>2. CASE MainMove /\ ~Create
        BY <1>2, <4>2, MainLeavesHelpers DEF MainMove, Posted, SemWait
      <4>3. ASSUME NEW h \in Helper, h # g, HelperMove(h)
            PROVE  g \in Posted' <=> g \in Posted
        BY <4>3, HelperLeavesMain DEF Posted
      <4>4. CASE HelperCall(g) \/ HelperUnderway(g) \/ HelperDecides(g)
        BY <4>4 DEF HelperCall, HelperUnderway, HelperDecides, scriptVars, Posted, ScriptTypeOK
      <4>5. CASE HelperReturns(g)
        BY <4>5 DEF HelperReturns, Posted, ScriptTypeOK
      <4> QED
        BY <2>3, <4>1, <4>2, <4>3, <4>4, <4>5, MoveSplit DEF HelperMove
    <3>3. Posted' = Posted
      BY <3>2 DEF Posted
    <3> QED
      BY <1>b, <2>1, <3>1, <3>3 DEF SemInv
  <2> QED
    BY <2>2, <2>3
<1> QED
  BY <1>1, <1>2

-----------------------------------------------------------------------------
(* What the main thread is past changes when one of its calls is decided,  *)
(* and when it goes on from another statement.                             *)
LEMMA PastStep ==
  ASSUME IInv, ScriptTypeOK, MainInv, HelperInv, Move, ~failed', NEW i \in Nat
  PROVE  /\ program' = program
         /\ ~MainDecides /\ line' = line => (Past(i)' <=> Past(i))
         /\ MainDecides => (Past(i)' <=> (Past(i) \/ i = line)) /\ ~Past(line)
         /\ line' = line + 1 => (Past(i)' <=> (Past(i) \/ i = line)) /\ pc'[0] = "idle"
<1> USE MainIsThread
<1>0. /\ pc \in [Thread -> {"idle", "lock", "body", "wait", "unlock", "return"}]
  BY DEF IInv, TypeOK
<1>1. program' = program /\ line \in Nat
  BY LineStep, ProgramWellFormed
<1>2. ASSUME Create \/ Join \/ SemWait \/ Usleep \/ Assert
      PROVE  line' = line + 1 /\ pc'[0] = "idle"
  <2>1. pc[0] = "idle"
    BY <1>0, <1>2 DEF Create, Join, SemWait, Usleep, Assert, At, program, MainInv
  <2> QED
    BY <1>2, <2>1 DEF Create, Join, SemWait, Usleep, Assert, Advance, vars
<1>3. ASSUME MainReturns
      PROVE  line' = line + 1 /\ pc'[0] = "idle"
  BY <1>0, <1>3 DEF MainReturns, Ends, Advance
<1>4. ASSUME MainCalls \/ MainDestroys \/ MainUnderway \/ Woken
      PROVE  line' = line /\ (pc'[0] = "unlock" <=> pc[0] = "unlock")
  BY <1>0, <1>4 DEF MainCalls, Call, MainDestroys, channel_destroy, MainUnderway, Underway, Woken, scriptVars
<1>5. ASSUME NEW h \in Helper, HelperMove(h)
      PROVE  line' = line /\ pc'[0] = pc[0]
  BY <1>5, HelperLeavesMain
<1>6. ASSUME MainDecides
      PROVE  line' = line /\ pc'[0] = "unlock" /\ pc[0] = "body"
  BY <1>0, <1>6 DEF MainDecides, Decides, scriptVars
<1>7. ~MainDecides /\ line' = line => (pc'[0] = "unlock" <=> pc[0] = "unlock")
  BY <1>1, <1>2, <1>3, <1>4, <1>5, MoveSplit DEF MainMove
<1>8. line' = line + 1 => pc'[0] = "idle"
  BY <1>1, <1>2, <1>3, <1>4, <1>5, <1>6, MoveSplit DEF MainMove
<1>9. ~MainDecides /\ line' = line => (Past(i)' <=> Past(i))
  BY <1>7 DEF Past
<1>10. MainDecides => (Past(i)' <=> (Past(i) \/ i = line)) /\ ~Past(line)
  BY <1>1, <1>6 DEF Past
<1>11. line' = line + 1 => (Past(i)' <=> (Past(i) \/ i = line))
  BY <1>1, <1>8 DEF Past
<1> QED
  BY <1>1, <1>8, <1>9, <1>10, <1>11

(* Only the main thread closes the channel. *)
LEMMA MainCloses ==
  ASSUME IInv, ScriptTypeOK, MainInv, HelperInv, Move, ~failed'
  PROVE  closed' # closed => MainDecides /\ op[0] = "close" /\ closed' = 0
<1> USE MainIsThread
<1> SUFFICES ASSUME closed' # closed PROVE MainDecides /\ op[0] = "close" /\ closed' = 0
  OBVIOUS
<1>0. /\ pc \in [Thread -> {"idle", "lock", "body", "wait", "unlock", "return"}]
      /\ line \in Nat
  BY ProgramWellFormed DEF IInv, TypeOK
<1>1. PICK t \in Thread : Closed(t)
  BY ClosedStays
<1>2. /\ pc[t] = "body" /\ op[t] = "close" /\ pc'[t] = "unlock" /\ closed' = 0
  BY <1>0, <1>1 DEF Closed, InBodyOpen, Finish
<1>3. t = 0
  <2> SUFFICES ASSUME t \in Helper PROVE FALSE
    BY DEF Helper
  <2>1. args[t].op = "close" /\ helper[t] = "call"
    BY <1>2 DEF HelperInv
  <2> QED
    BY <2>1 DEF HelperInv, SendOps, ReceiveOps
<1>4. line' = line
  BY <1>2, <1>3, <1>0, PastStep, LineStep
<1>5. ~Past(line) /\ Past(line)'
  BY <1>0, <1>2, <1>3, <1>4 DEF Past
<1>6. MainDecides
  BY <1>0, <1>4, <1>5, PastStep
<1> QED
  BY <1>2, <1>3, <1>6

(* Moves keep ClosedInv. *)
LEMMA ClosedInvStep ==
  ASSUME IInv, ScriptTypeOK, MainInv, HelperInv, ClosedInv, Move
  PROVE  ClosedInv'
<1> USE MainIsThread
<1> SUFFICES ASSUME ~failed'
             PROVE  (closed = 0 <=> \E i \in 1 .. Len(program) : Past(i) /\ Closes(program, i))'
  BY DEF ClosedInv
<1>0. /\ ~failed /\ program' = program /\ line \in Nat /\ line >= 1 /\ Len(program) \in Nat
      /\ closed \in {0, 1}
  BY LineStep, ProgramWellFormed DEF IInv, TypeOK
<1>1. closed = 0 <=> \E i \in 1 .. Len(program) : Past(i) /\ Closes(program, i)
  BY <1>0 DEF ClosedInv
<1>2. ASSUME NEW i \in 1 .. Len(program), Closes(program, i)'
      PROVE  Closes(program, i)
  BY <1>0, <1>2 DEF Closes
<1>3. ASSUME NEW i \in 1 .. Len(program), Closes(program, i)
      PROVE  Closes(program, i)'
  BY <1>0, <1>3 DEF Closes
<1>4. CASE MainDecides
  <2>1. /\ pc[0] = "body" /\ Outcome(0) /\ line' = line
    BY <1>4 DEF MainDecides, Decides, scriptVars
  <2>2. program[line].do = "call" /\ op[0] = program[line].op /\ line \in 1 .. Len(program)
    BY <1>0, <2>1 DEF MainInv
  <2>3. \A i \in 1 .. Len(program) : Past(i)' <=> (Past(i) \/ i = line)
    BY <1>4, PastStep
  <2>4. CASE op[0] = "close"
    <3>1. closed' = 0
      <4>1. Refused(0) \/ Closed(0)
        BY <2>1, <2>4 DEF Outcome, FoundFull, FoundEmpty, Added, Removed, SendOps, ReceiveOps
      <4> QED
        BY <4>1 DEF Refused, FinishUnchanged, Closed
    <3>2. PICK i \in 1 .. Len(program) : i = line
      BY <2>2
    <3>3. Closes(program, i)
      BY <2>2, <2>4, <3>2 DEF Closes
    <3>4. Past(i)' /\ Closes(program, i)'
      BY <1>3, <2>3, <3>2, <3>3
    <3> QED
      BY <1>0, <3>1, <3>4
  <2>5. CASE op[0] # "close"
    <3>1. closed' = closed
      BY <2>5, MainCloses
    <3>2. ~Closes(program, line)
      BY <2>2, <2>5 DEF Closes
    <3> QED
      BY <1>0, <1>1, <1>2, <1>3, <2>3, <3>1, <3>2
  <2> QED
    BY <2>4, <2>5
<1>5. CASE ~MainDecides
  <2>1. closed' = closed
    BY <1>5, MainCloses
  <2>2. CASE line' = line
    <3>1. \A i \in 1 .. Len(program) : Past(i)' <=> Past(i)
      BY <1>5, <2>2, PastStep
    <3> QED
      BY <1>0, <1>1, <1>2, <1>3, <2>1, <3>1
  <2>3. CASE line' = line + 1
    <3>1. \A i \in 1 .. Len(program) : Past(i)' <=> (Past(i) \/ i = line)
      BY <2>3, PastStep
    <3>2. Closes(program, line) => Past(line)
      BY <1>0, <2>3, LinePassed DEF Closes, Past
    <3> QED
      BY <1>0, <1>1, <1>2, <1>3, <2>1, <3>1, <3>2
  <2> QED
    BY <2>2, <2>3, LineStep
<1> QED
  BY <1>4, <1>5

(* How the main thread gets to the return of a call. *)
LEMMA MainStays ==
  ASSUME IInv, ScriptTypeOK, MainInv, HelperInv, Move, pc'[0] \in {"unlock", "return"}
  PROVE  \/ MainDecides
         \/ MainDestroys
         \/ /\ pc'[0] = pc[0] /\ status'[0] = status[0] /\ data'[0] = data[0]
            /\ line' = line /\ failed' = failed
<1> USE MainIsThread
<1>0. /\ pc \in [Thread -> {"idle", "lock", "body", "wait", "unlock", "return"}]
  BY DEF IInv, TypeOK
<1>1. ASSUME Create \/ Join \/ SemWait \/ Usleep \/ Assert
      PROVE  FALSE
  <2>1. pc[0] = "idle"
    BY <1>0, <1>1 DEF Create, Join, SemWait, Usleep, Assert, At, program, MainInv
  <2> QED
    BY <1>1, <2>1 DEF Create, Join, SemWait, Usleep, Assert, vars
<1>2. ~MainCalls /\ ~MainUnderway /\ ~MainReturns
  BY <1>0 DEF MainCalls, Call, MainUnderway, Underway, MainReturns, Ends
<1>3. CASE Woken
  BY <1>3 DEF Woken
<1>4. ASSUME NEW h \in Helper, HelperMove(h)
      PROVE  /\ pc'[0] = pc[0] /\ status'[0] = status[0] /\ data'[0] = data[0]
             /\ line' = line /\ failed' = failed
  BY <1>4, HelperLeavesMain
<1> QED
  BY <1>1, <1>2, <1>3, <1>4, MoveSplit DEF MainMove

(* Before the main thread's call is decided, ClosedInv says whether the    *)
(* call finds the channel closed.                                          *)
LEMMA ClosedBeforeCall ==
  ASSUME IInv, ScriptTypeOK, ClosedInv, ~failed, pc[0] # "unlock"
  PROVE  closed = 0 <=> ClosedBefore(program, line)
<1>0. line \in Nat /\ Len(program) \in Nat
  BY ProgramWellFormed
<1>1. \A i \in 1 .. Len(program) : Past(i) <=> i < line
  BY <1>0 DEF Past
<1> QED
  BY <1>1 DEF ClosedInv, ClosedBefore

(* Moves keep MainReturnInv. *)
LEMMA MainReturnStep ==
  ASSUME IInv, ScriptTypeOK, MainInv, HelperInv, ClosedInv, MainReturnInv, Move
  PROVE  MainReturnInv'
<1> USE MainIsThread
<1>0. /\ pc \in [Thread -> {"idle", "lock", "body", "wait", "unlock", "return"}]
      /\ status \in [Thread -> Statuses]
      /\ closed \in {0, 1} /\ program' = program
  BY LineStep DEF IInv, TypeOK
<1>1. CASE MainDecides
  <2>1. pc[0] = "body" /\ pc'[0] = "unlock" /\ line' = line /\ ~failed /\ Outcome(0)
    BY <1>0, <1>1 DEF MainDecides, Decides, scriptVars
  <2>2. closed = 0 <=> ClosedBefore(program, line)
    BY <2>1, ClosedBeforeCall
  <2>3. op[0] = program[line].op
    BY <2>1 DEF MainInv
  <2>4. closed = 0 => status'[0] = CLOSED_ERROR
    BY <1>0, <2>1 DEF Outcome, Refused, FoundFull, FoundEmpty, Added, Removed, Closed, InBodyOpen,
       FinishUnchanged, Finish
  <2>5. closed = 1 /\ op[0] = "close" => status'[0] = SUCCESS
    BY <1>0, <2>1 DEF Outcome, Refused, FoundFull, FoundEmpty, Added, Removed, Closed, InBodyOpen,
       FinishUnchanged, Finish, SendOps, ReceiveOps
  <2>6. ClosedBefore(program, line)' <=> ClosedBefore(program, line)
    BY <1>0, <2>1 DEF ClosedBefore, Closes
  <2>7. MainReturnInv' <=> (IF ClosedBefore(program, line)' THEN status'[0] = CLOSED_ERROR
                            ELSE program[line].op = "close" => status'[0] = SUCCESS)
    BY <1>0, <2>1 DEF MainReturnInv
  <2> QED
    BY <1>0, <2>2, <2>3, <2>4, <2>5, <2>6, <2>7
<1>2. CASE MainDestroys
  <2>1. /\ pc[0] = "idle" /\ pc'[0] = "return" /\ line' = line /\ ~failed
        /\ status'[0] = IF closed = 1 THEN DESTROY_ERROR ELSE SUCCESS
    BY <1>0, <1>2 DEF MainDestroys, channel_destroy, scriptVars, At
  <2>2. closed = 0 <=> ClosedBefore(program, line)
    BY <2>1, ClosedBeforeCall
  <2>3. ClosedBefore(program, line)' <=> ClosedBefore(program, line)
    BY <1>0, <2>1 DEF ClosedBefore, Closes
  <2>4. MainReturnInv' <=> status'[0] = IF ClosedBefore(program, line)' THEN SUCCESS ELSE DESTROY_ERROR
    BY <2>1 DEF MainReturnInv
  <2> QED
    BY <1>0, <2>1, <2>2, <2>3, <2>4
<1>3. CASE ~MainDecides /\ ~MainDestroys
  <2>1. pc'[0] \in {"unlock", "return"} =>
           /\ pc'[0] = pc[0] /\ status'[0] = status[0] /\ line' = line
    BY <1>3, MainStays
  <2>2. line' = line => (ClosedBefore(program, line)' <=> ClosedBefore(program, line))
    BY <1>0 DEF ClosedBefore, Closes
  <2> QED
    BY <1>0, <2>1, <2>2 DEF MainReturnInv
<1> QED
  BY <1>1, <1>2, <1>3

-----------------------------------------------------------------------------
(* The whole invariant holds at the beginning, *)
LEMMA ScriptInitInv == ScriptInit => ScriptInv
<1> SUFFICES ASSUME ScriptInit PROVE ScriptInv
  OBVIOUS
<1> USE MainIsThread
<1>1. ThreadsInv /\ NoLostWakeup
  BY ScriptInitThreads
<1>2. Uninit \notin Value /\ Len(program) \in Nat
  BY <1>1, UninitAssumption, ProgramWellFormed DEF ThreadsInv
<1>3. ResultInv
  BY <1>2 DEF ScriptInit, ResultInv, Result, Message, GEN_ERROR, CLOSED_ERROR, CHANNEL_FULL, SUCCESS
<1>4. SemInv
  <2>1. Posted = {} /\ Waited = {} /\ done = 0
    BY DEF ScriptInit, Posted, Waited
  <2> QED
    BY <2>1, FS_EmptySet DEF SemInv
<1>5. ClosedInv
  BY <1>2 DEF ScriptInit, ClosedInv, Past
<1>6. MainReturnInv
  BY DEF ScriptInit, MainReturnInv
<1> QED
  BY <1>1, <1>3, <1>4, <1>5, <1>6 DEF ScriptInv, ThreadsInv

(* and every step keeps it, as the move that it is. *)
LEMMA NextScriptInv ==
  ASSUME ScriptInv, [ScriptNext]_allVars
  PROVE  ScriptInv' /\ Move
<1>1. ThreadsInv /\ NoLostWakeup /\ ResultInv /\ SemInv /\ ClosedInv /\ MainReturnInv
  BY DEF ScriptInv, ThreadsInv
<1>2. ThreadsInv' /\ Move /\ [Next]_vars
  BY <1>1, NextThreads
<1>3. /\ IInv /\ ScriptTypeOK /\ HelperInv /\ MainInv /\ CreatedInv
      /\ IInv' /\ HelperInv'
  BY <1>1, <1>2 DEF ThreadsInv
<1>4. NoLostWakeup'
  BY <1>1, <1>2, <1>3, NextNoLostWakeup
<1>5. ResultInv' /\ SemInv'
  BY <1>1, <1>2, <1>3, ResultInvStep, SemInvStep
<1>6. ClosedInv' /\ MainReturnInv'
  BY <1>1, <1>2, <1>3, ClosedInvStep, MainReturnStep
<1> QED
  BY <1>2, <1>4, <1>5, <1>6 DEF ScriptInv, ThreadsInv

(* So it is an invariant of every test. *)
LEMMA ScriptInvariant == ScriptSpec => []ScriptInv
<1>1. ScriptInv /\ [ScriptNext]_allVars => ScriptInv'
  BY NextScriptInv
<1> QED
  BY <1>1, ScriptInitInv, PTL DEF ScriptSpec

-----------------------------------------------------------------------------
(***************************************************************************)
(* What a decided call does to the buffer.                                 *)
(***************************************************************************)
Adds(v) ==
  /\ buffer.size < buffer.capacity
  /\ buffer'.size = buffer.size + 1
  /\ buffer'.capacity = buffer.capacity /\ buffer'.next = buffer.next
  /\ \A i \in 1 .. buffer.size : Contents(buffer')[i] = Contents(buffer)[i]
  /\ \A i : i = buffer.size + 1 => Contents(buffer')[i] = v

Removes(v) ==
  /\ buffer.size > 0
  /\ v = Contents(buffer)[1]
  /\ buffer'.size = buffer.size - 1 /\ buffer'.capacity = buffer.capacity
  /\ \A i \in 1 .. buffer.size - 1 : Contents(buffer')[i] = Contents(buffer)[i + 1]

(* A send that succeeds adds its message. *)
LEMMA AddedAdds ==
  ASSUME IInv, NEW t \in Thread, Added(t)
  PROVE  Adds(arg[t]) /\ status'[t] = SUCCESS /\ data' = data /\ closed' = closed
<1>1. BufferOK(buffer) /\ arg[t] \in Value /\ status \in [Thread -> Statuses]
  BY DEF Added, IInv, TypeOK, CallInv, InBodyOpen
<1>2. buffer' = buffer_add(buffer, arg[t]).buffer /\ buffer.size < buffer.capacity
      /\ status'[t] = SUCCESS /\ data' = data /\ closed' = closed
  BY <1>1 DEF Added, FinishAdd, Finish
<1>3. /\ BufferOK(buffer')
      /\ buffer'.size = buffer.size + 1
      /\ buffer'.capacity = buffer.capacity
      /\ Contents(buffer') = Append(Contents(buffer), arg[t])
  BY <1>1, <1>2, AddLemma
<1>4. buffer.size \in Nat
  BY SizesType
<1>5. buffer'.next = buffer.next
  BY <1>1, <1>2, <1>4 DEF buffer_add, BufferOK
<1>6. Contents(buffer) \in Seq(Value) /\ Len(Contents(buffer)) = buffer.size
  BY <1>1, ContentsLemma
<1> DEFINE s == Contents(buffer)
<1>7. \A i \in 1 .. buffer.size : Contents(buffer')[i] = Contents(buffer)[i]
  <2> HIDE DEF s
  <2>1. s \in Seq(Value) /\ Len(s) = buffer.size /\ Contents(buffer') = Append(s, arg[t])
    BY <1>3, <1>6 DEF s
  <2>2. \A i \in 1 .. Len(s) : Append(s, arg[t])[i] = s[i]
    BY <1>1, <2>1
  <2> QED
    BY <2>1, <2>2 DEF s
<1>8. \A i : i = buffer.size + 1 => Contents(buffer')[i] = arg[t]
  <2> HIDE DEF s
  <2>1. s \in Seq(Value) /\ Len(s) = buffer.size /\ Contents(buffer') = Append(s, arg[t])
    BY <1>3, <1>6 DEF s
  <2>2. Append(s, arg[t])[Len(s) + 1] = arg[t]
    BY <1>1, <2>1
  <2> QED
    BY <2>1, <2>2
<1> QED
  BY <1>2, <1>3, <1>5, <1>7, <1>8 DEF Adds

(* A receive that succeeds removes the message it gets. *)
LEMMA RemovedRemoves ==
  ASSUME IInv, NEW t \in Thread, Removed(t)
  PROVE  Removes(data'[t]) /\ status'[t] = SUCCESS /\ closed' = closed
<1>1. BufferOK(buffer) /\ status \in [Thread -> Statuses] /\ data \in [Thread -> Value \cup {Uninit}]
  BY DEF IInv, TypeOK
<1>2. /\ buffer' = buffer_remove(buffer).buffer /\ buffer.size > 0
      /\ data'[t] = buffer_remove(buffer).data
      /\ status'[t] = SUCCESS /\ closed' = closed
  BY <1>1 DEF Removed, FinishRemove, Finish
<1>3. /\ buffer'.size = buffer.size - 1
      /\ buffer'.capacity = buffer.capacity
      /\ data'[t] = Head(Contents(buffer))
      /\ Contents(buffer') = Tail(Contents(buffer))
  BY <1>1, <1>2, RemoveLemma
<1>4. buffer.size \in Nat
  BY SizesType
<1>6. Contents(buffer) \in Seq(Value) /\ Len(Contents(buffer)) = buffer.size
  BY <1>1, ContentsLemma
<1> DEFINE s == Contents(buffer)
<1> HIDE DEF s
<1>7. /\ s \in Seq(Value) /\ Len(s) = buffer.size /\ buffer.size > 0
      /\ Contents(buffer') = Tail(s) /\ data'[t] = Head(s)
  BY <1>2, <1>3, <1>6 DEF s
<1>8. data'[t] = s[1]
  BY <1>7
<1>9. \A i \in 1 .. buffer.size - 1 : Contents(buffer')[i] = s[i + 1]
  BY <1>4, <1>7
<1> QED
  BY <1>2, <1>3, <1>8, <1>9 DEF Removes, s

(* What the critical section of a helper's call does. *)
LEMMA HelperDecided ==
  ASSUME ScriptInv, NEW h \in Helper, HelperDecides(h), closed = 1
  PROVE  /\ closed' = 1
         /\ \/ /\ Result(h)' = CHANNEL_FULL /\ buffer' = buffer
               /\ \/ args[h].op = "non_blocking_send" /\ buffer.size = buffer.capacity
                  \/ args[h].op = "non_blocking_receive" /\ buffer.size = 0
            \/ Result(h)' = SUCCESS /\ args[h].op \in SendOps /\ Adds(args[h].v)
            \/ Result(h)' = SUCCESS /\ args[h].op \in ReceiveOps /\ Removes(Message(h)')
<1> USE MainIsThread
<1>1. /\ IInv /\ ScriptTypeOK /\ HelperInv
      /\ status \in [Thread -> Statuses]
  BY DEF ScriptInv, IInv, TypeOK
<1>2. /\ Result(h)' = status'[h] /\ Message(h)' = data'[h] /\ helper[h] = "call" /\ Outcome(h)
  BY <1>1, ResultsDecided DEF HelperDecides
<1>3. /\ op[h] = args[h].op /\ arg[h] = args[h].v
      /\ args[h].op \in SendOps \cup ReceiveOps
  BY <1>1, <1>2 DEF HelperInv
<1>4. ~Refused(h) /\ ~Closed(h)
  BY <1>3 DEF Refused, Closed, SendOps, ReceiveOps
<1>5. CASE FoundFull(h)
  BY <1>1, <1>2, <1>3, <1>5 DEF FoundFull, FinishUnchanged, Finish
<1>6. CASE FoundEmpty(h)
  <2>1. CHANNEL_FULL = CHANNEL_EMPTY
    BY DEF CHANNEL_FULL, CHANNEL_EMPTY
  <2> QED
    BY <1>1, <1>2, <1>3, <1>6, <2>1 DEF FoundEmpty, FinishUnchanged, Finish
<1>7. CASE Added(h)
  BY <1>1, <1>2, <1>3, <1>7, AddedAdds DEF Added
<1>8. CASE Removed(h)
  BY <1>1, <1>2, <1>3, <1>8, RemovedRemoves DEF Removed
<1> QED
  BY <1>2, <1>4, <1>5, <1>6, <1>7, <1>8 DEF Outcome

(* What the critical section of a call of the main thread does. *)
LEMMA MainDecided ==
  ASSUME ScriptInv, MainDecides, closed = 1
  PROVE  /\ line \in 1 .. Len(program) /\ program[line].do = "call"
         /\ \/ closed' = 0 /\ program[line].op = "close"
            \/ /\ closed' = 1 /\ buffer' = buffer
               /\ program[line].op \in {"non_blocking_send", "non_blocking_receive"}
            \/ closed' = 1 /\ program[line].op \in SendOps /\ Adds(program[line].v)
            \/ closed' = 1 /\ program[line].op \in ReceiveOps /\ Removes(data'[0])
<1> USE MainIsThread
<1>1. /\ IInv /\ ScriptTypeOK /\ MainInv
      /\ status \in [Thread -> Statuses]
  BY DEF ScriptInv, IInv, TypeOK
<1>2. pc[0] = "body" /\ Outcome(0) /\ ~failed
  BY DEF MainDecides, Decides
<1>3. /\ line \in 1 .. Len(program) /\ program[line].do = "call"
      /\ op[0] = program[line].op /\ arg[0] = program[line].v
  BY <1>1, <1>2, ProgramWellFormed DEF MainInv
<1>4. ~Refused(0)
  BY DEF Refused
<1>5. CASE FoundFull(0) \/ FoundEmpty(0)
  BY <1>3, <1>5 DEF FoundFull, FoundEmpty, FinishUnchanged
<1>6. CASE Closed(0)
  BY <1>3, <1>6 DEF Closed
<1>7. CASE Added(0)
  BY <1>1, <1>3, <1>7, AddedAdds DEF Added
<1>8. CASE Removed(0)
  BY <1>1, <1>3, <1>8, RemovedRemoves DEF Removed
<1> QED
  BY <1>2, <1>3, <1>4, <1>5, <1>6, <1>7, <1>8 DEF Outcome

(* The steps that decide no call. *)
Quiet == ~MainDecides /\ \A h \in Helper : ~HelperDecides(h)

(* When no call is decided, the buffer and all results stay. *)
LEMMA QuietStep ==
  ASSUME ScriptInv, Move, Quiet, ~failed'
  PROVE  /\ closed' = closed
         /\ closed = 1 => buffer' = buffer
         /\ \A g \in Helper : SameResult(g)
<1> USE MainIsThread
<1>1. /\ IInv /\ ScriptTypeOK /\ HelperInv /\ MainInv
  BY DEF ScriptInv
<1>2. closed' = closed
  BY <1>1, MainCloses DEF Quiet
<1>3. \A g \in Helper : SameResult(g)
  BY <1>1, ResultsKept DEF Quiet
<1>4. closed = 1 => buffer' = buffer
  <2>1. CASE Create \/ Join \/ SemWait \/ Usleep \/ Assert \/ Woken
    BY <2>1 DEF Create, Join, SemWait, Usleep, Assert, Woken, vars
  <2>2. CASE MainCalls
    BY <2>2 DEF MainCalls, Call, chan
  <2>3. CASE MainDestroys
    BY <2>3 DEF MainDestroys, channel_destroy, chan
  <2>4. CASE MainUnderway \/ MainReturns
    BY <2>4 DEF MainUnderway, Underway, MainReturns, Ends
  <2>5. ASSUME NEW h \in Helper, HelperMove(h)
        PROVE  buffer' = buffer
    BY <2>5 DEF Quiet, HelperMove, HelperCall, Call, chan, HelperUnderway, Underway, HelperReturns, Ends,
       HelperPost, vars
  <2> QED
    BY <2>1, <2>2, <2>3, <2>4, <2>5, MoveSplit DEF Quiet, MainMove
<1> QED
  BY <1>2, <1>3, <1>4

(* What a helper's decision leaves alone. *)
LEMMA HelperDecidesFrame ==
  ASSUME ScriptInv, NEW h \in Helper, HelperDecides(h)
  PROVE  /\ Move /\ ~MainDecides
         /\ line' = line /\ pc'[0] = pc[0] /\ test' = test /\ program' = program /\ failed' = failed
         /\ args' = args /\ helper' = helper /\ helper[h] = "call"
         /\ Result(h) = GEN_ERROR
         /\ \A g \in Helper \ {h} : SameResult(g)
<1> USE MainIsThread
<1>1. IInv /\ ScriptTypeOK /\ HelperInv /\ MainInv
  BY DEF ScriptInv
<1>2. Move
  BY DEF Move
<1>3. HelperMove(h)
  BY DEF HelperMove
<1>4. /\ pc'[0] = pc[0] /\ line' = line /\ test' = test /\ failed' = failed /\ args' = args
  BY <1>1, <1>3, HelperLeavesMain
<1>5. ~MainDecides
  BY <1>4 DEF MainDecides, Decides, IInv, TypeOK, ScriptInv
<1>6. helper' = helper /\ program' = program
  BY <1>4 DEF HelperDecides, scriptVars, program
<1> QED
  BY <1>1, <1>2, <1>4, <1>5, <1>6, ResultsDecided

(* What a decision of the main thread leaves alone. *)
LEMMA MainDecidesFrame ==
  ASSUME ScriptInv, MainDecides
  PROVE  /\ Move /\ ~failed'
         /\ line' = line /\ pc[0] = "body" /\ pc'[0] = "unlock" /\ test' = test /\ program' = program
         /\ args' = args /\ helper' = helper
         /\ \A g \in Helper : SameResult(g)
<1> USE MainIsThread
<1>1. IInv /\ ScriptTypeOK /\ HelperInv /\ MainInv /\ pc \in [Thread -> {"idle", "lock", "body", "wait", "unlock", "return"}]
  BY DEF ScriptInv, IInv, TypeOK
<1>2. Move
  BY DEF Move
<1>3. /\ line' = line /\ pc[0] = "body" /\ pc'[0] = "unlock" /\ test' = test /\ ~failed' /\ args' = args /\ helper' = helper
  BY <1>1 DEF MainDecides, Decides, scriptVars
<1>4. program' = program
  BY <1>3 DEF program
<1>5. ASSUME NEW g \in Helper PROVE ~HelperDecides(g)
  BY <1>1, <1>3 DEF HelperDecides, Decides
<1> QED
  BY <1>1, <1>2, <1>3, <1>4, <1>5, ResultsKept

-----------------------------------------------------------------------------
(***************************************************************************)
(* The tests that load the channel: what is in it, and who has taken what. *)
(***************************************************************************)
Took == {h \in Helper : Result(h) = SUCCESS /\ args[h].op \in ReceiveOps}
Gave == {h \in Helper : Result(h) = SUCCESS /\ args[h].op \in SendOps}

TookOf(v) == {h \in Took : Message(h) = v}

(* How many of the first k statements, the main thread's own sends, have   *)
(* been carried out.                                                       *)
Sent(k) == IF line > k THEN k ELSE IF pc[0] = "unlock" THEN line ELSE line - 1

(* Until the channel is closed, it holds what was sent and not received,   *)
(* the messages v of the main thread before those, of W, of the helpers.    *)
LoadInv(k, v, W) ==
  closed = 1 =>
    /\ buffer.size + Cardinality(Took) = Cardinality(Gave) + Sent(k)
    /\ \A i \in 1 .. buffer.size :
         IF i + Cardinality(Took) <= k THEN Contents(buffer)[i] = v ELSE Contents(buffer)[i] \in W
    /\ \A h \in Took : Message(h) \in {v} \cup W
    /\ v \notin W =>
         Cardinality(TookOf(v)) =
           IF Cardinality(Took) <= k THEN Cardinality(Took) ELSE k

(* The successes can be counted. *)
LEMMA TookFinite ==
  /\ IsFiniteSet(Took) /\ Cardinality(Took) \in Nat
  /\ IsFiniteSet(Gave) /\ Cardinality(Gave) \in Nat
  /\ \A v : IsFiniteSet(TookOf(v)) /\ Cardinality(TookOf(v)) \in Nat
<1>1. IsFiniteSet(Took) /\ IsFiniteSet(Gave)
  BY MainIsThread, FS_Subset DEF Took, Gave
<1>2. ASSUME NEW v PROVE IsFiniteSet(TookOf(v))
  BY <1>1, FS_Subset DEF TookOf
<1> QED
  BY <1>1, <1>2, FS_CardinalityType

(* A helper that has a result has been created. *)
LEMMA ResultCreated ==
  ASSUME ScriptInv, NEW h \in Helper, Result(h) # GEN_ERROR
  PROVE  helper[h] # "new"
<1>1. HelperInv
  BY DEF ScriptInv
<1> QED
  BY <1>1 DEF HelperInv, Result

(* While the main thread is at one of its first sends there are no helpers. *)
LEMMA NobodyYet ==
  ASSUME ScriptInv, NEW k, NEW v, NEW W, Loads(program, k, v, W), line <= k
  PROVE  /\ \A h \in Helper : helper[h] = "new"
         /\ Took = {} /\ Gave = {}
<1>1. CreatedInv /\ ScriptTypeOK
  BY DEF ScriptInv
<1>2. line \in Nat /\ Len(program) \in Nat /\ line <= Len(program) + 1
  BY <1>1, ProgramWellFormed
<1>3. ASSUME NEW h \in Helper, helper[h] # "new"
      PROVE  FALSE
  <2>1. PICK i \in 1 .. line - 1 : Creates(program, i, h)
    BY <1>1, <1>3 DEF CreatedInv
  <2>2. i \in 1 .. Len(program) /\ program[i].do = "pthread_create"
    BY <1>2, <2>1 DEF Creates
  <2>3. k < i /\ k \in Nat
    BY <2>2 DEF Loads
  <2> QED
    BY <1>2, <2>1, <2>3
<1>4. ASSUME NEW h \in Helper
      PROVE  Result(h) # SUCCESS
  <2>1. GEN_ERROR # SUCCESS
    BY DEF GEN_ERROR, SUCCESS
  <2> QED
    BY <1>3, <2>1, ResultCreated
<1> QED
  BY <1>3, <1>4 DEF Took, Gave

(* A step that leaves the results of the helpers alone leaves alone who    *)
(* has taken and given what.                                               *)
LEMMA TookKept ==
  ASSUME ScriptInv, Move, \A g \in Helper : SameResult(g)
  PROVE  Took' = Took /\ Gave' = Gave /\ \A v : TookOf(v)' = TookOf(v)
<1>1. IInv /\ ScriptTypeOK /\ HelperInv /\ MainInv /\ CreatedInv
  BY DEF ScriptInv
<1>2. ASSUME NEW g \in Helper
      PROVE  /\ Result(g)' = Result(g) /\ Message(g)' = Message(g)
             /\ Result(g) = SUCCESS => args'[g] = args[g]
  <2>1. helper[g] # "new" => args'[g] = args[g]
    BY <1>1, HelperGoesOn
  <2>2. GEN_ERROR # SUCCESS
    BY DEF GEN_ERROR, SUCCESS
  <2> QED
    BY <2>1, <2>2, ResultCreated DEF SameResult
<1>3. Took' = Took /\ Gave' = Gave
  BY <1>2 DEF Took, Gave
<1>4. ASSUME NEW v PROVE TookOf(v)' = TookOf(v)
  BY <1>2, <1>3 DEF TookOf, Took
<1> QED
  BY <1>3, <1>4

(* One more of the first k statements is done when the main thread         *)
(* decides it.                                                             *)
LEMMA SentStep ==
  ASSUME ScriptInv, Move, ~failed', NEW k, NEW v, NEW W, Loads(program, k, v, W)
  PROVE  /\ ~MainDecides => Sent(k)' = Sent(k)
         /\ MainDecides /\ line <= k => Sent(k) = line - 1 /\ Sent(k)' = line
         /\ MainDecides /\ line > k => Sent(k)' = Sent(k)
         /\ line > k => Sent(k) = k
         /\ Sent(k) \in Nat
<1>1. IInv /\ ScriptTypeOK /\ HelperInv /\ MainInv
  BY DEF ScriptInv
<1>2. line \in Nat /\ line >= 1 /\ k \in Nat /\ k <= Len(program)
  BY <1>1, ProgramWellFormed DEF Loads
<1>3. line' = line \/ (line' = line + 1 /\ pc'[0] = "idle"
                       /\ (line <= k => pc[0] = "unlock"))
  <2>1. ASSUME line' # line
        PROVE  line' = line + 1 /\ (line <= k => pc[0] = "unlock")
    <3>1. /\ line' = line + 1 /\ line <= Len(program)
          /\ program[line].do = "call" => pc[0] = "unlock"
      BY <1>1, <2>1, LinePassed
    <3>2. line <= k => program[line].do = "call"
      BY <1>2, <3>1 DEF Loads
    <3> QED
      BY <3>1, <3>2
  <2>2. line' = line + 1 => pc'[0] = "idle"
    BY <1>1, <1>2, PastStep
  <2> QED
    BY <2>1, <2>2
<1>4. ~MainDecides /\ line' = line => (pc'[0] = "unlock" <=> pc[0] = "unlock")
  <2>1. ASSUME ~MainDecides, line' = line, NEW i \in Nat, i = line
        PROVE  pc'[0] = "unlock" <=> pc[0] = "unlock"
    <3>1. Past(i)' <=> Past(i)
      BY <1>1, <2>1, PastStep
    <3>2. ~(i < line) /\ i = line /\ ~(i < line') /\ i = line'
      BY <1>2, <2>1
    <3> QED
      BY <3>1, <3>2 DEF Past
  <2> QED
    BY <1>2, <2>1
<1>5. MainDecides => line' = line /\ pc'[0] = "unlock" /\ pc[0] # "unlock"
  BY MainDecidesFrame
<1>6. ~MainDecides => Sent(k)' = Sent(k)
  BY <1>2, <1>3, <1>4 DEF Sent
<1> QED
  BY <1>2, <1>5, <1>6 DEF Sent

(* The next three lemmas say what becomes of LoadInv when a helper has     *)
(* given or taken a message.                                               *)
LEMMA GaveOne ==
  ASSUME ScriptInv, NEW h \in Helper, HelperDecides(h), Result(h)' = SUCCESS, args[h].op \in SendOps
  PROVE  /\ Took' = Took /\ \A v : TookOf(v)' = TookOf(v)
         /\ Cardinality(Gave') = Cardinality(Gave) + 1
<1>1. args' = args /\ Result(h) = GEN_ERROR
      /\ \A g \in Helper \ {h} : Result(g)' = Result(g) /\ Message(g)' = Message(g)
  BY HelperDecidesFrame DEF SameResult
<1>2. GEN_ERROR # SUCCESS /\ args[h].op \notin ReceiveOps
  BY DEF GEN_ERROR, SUCCESS, SendOps, ReceiveOps
<1>3. Took' = Took
  BY <1>1, <1>2 DEF Took
<1>4. \A v : TookOf(v)' = TookOf(v)
  BY <1>1, <1>2, <1>3 DEF TookOf, Took
<1>5. Gave' = Gave \cup {h} /\ h \notin Gave
  BY <1>1, <1>2 DEF Gave
<1> QED
  BY <1>3, <1>4, <1>5, TookFinite, FS_AddElement

(* A helper that receives a message joins those that took one. *)
LEMMA TookOne ==
  ASSUME ScriptInv, NEW h \in Helper, HelperDecides(h), Result(h)' = SUCCESS, args[h].op \in ReceiveOps
  PROVE  /\ Gave' = Gave
         /\ Took' = Took \cup {h} /\ h \notin Took
         /\ \A g \in Took : Message(g)' = Message(g)
         /\ Cardinality(Took') = Cardinality(Took) + 1
         /\ \A v : Cardinality(TookOf(v)') =
                     Cardinality(TookOf(v)) + (IF Message(h)' = v THEN 1 ELSE 0)
<1>1. args' = args /\ Result(h) = GEN_ERROR
      /\ \A g \in Helper \ {h} : Result(g)' = Result(g) /\ Message(g)' = Message(g)
  BY HelperDecidesFrame DEF SameResult
<1>2. GEN_ERROR # SUCCESS /\ args[h].op \notin SendOps
  BY DEF GEN_ERROR, SUCCESS, SendOps, ReceiveOps
<1>3. Gave' = Gave
  BY <1>1, <1>2 DEF Gave
<1>4. Took' = Took \cup {h} /\ h \notin Took
  BY <1>1, <1>2 DEF Took
<1>5. \A g \in Took : Message(g)' = Message(g)
  BY <1>1, <1>4 DEF Took
<1>6. Cardinality(Took') = Cardinality(Took) + 1
  BY <1>4, TookFinite, FS_AddElement
<1>7. ASSUME NEW v
      PROVE  Cardinality(TookOf(v)') =
               Cardinality(TookOf(v)) + (IF Message(h)' = v THEN 1 ELSE 0)
  <2>1. CASE Message(h)' = v
    <3>1. TookOf(v)' = TookOf(v) \cup {h} /\ h \notin TookOf(v)
      BY <1>4, <1>5, <2>1 DEF TookOf
    <3>2. Cardinality(TookOf(v)') = Cardinality(TookOf(v)) + 1
      BY <3>1, TookFinite, FS_AddElement
    <3> QED
      BY <2>1, <3>2
  <2>2. CASE Message(h)' # v
    <3>1. TookOf(v)' = TookOf(v)
      BY <1>4, <1>5, <2>2 DEF TookOf
    <3>2. Cardinality(TookOf(v)') = Cardinality(TookOf(v))
      BY <3>1
    <3>3. Cardinality(TookOf(v)) \in Nat
      BY TookFinite
    <3> QED
      BY <2>2, <3>2, <3>3
  <2> QED
    BY <2>1, <2>2
<1> QED
  BY <1>3, <1>4, <1>5, <1>6, <1>7

(* The main thread changes no helper's result. *)
LEMMA TookKeptByMain ==
  ASSUME ScriptInv, MainDecides
  PROVE  Took' = Took /\ Gave' = Gave /\ \A v : TookOf(v)' = TookOf(v)
  BY MainDecidesFrame, TookKept

(* A helper sends what its pthread_create statement says. *)
LEMMA HelperArgs ==
  ASSUME ScriptInv, NEW h \in Helper, helper[h] # "new"
  PROVE  \E i \in 1 .. Len(program) :
           /\ i < line /\ Creates(program, i, h)
           /\ args[h] = [op |-> program[i].op, v |-> program[i].v, sem |-> program[i].sem]
<1>1. CreatedInv /\ ScriptTypeOK
  BY DEF ScriptInv
<1>2. line \in Nat /\ Len(program) \in Nat /\ line <= Len(program) + 1
  BY <1>1, ProgramWellFormed
<1>3. PICK i \in 1 .. line - 1 :
        /\ Creates(program, i, h)
        /\ args[h] = [op |-> program[i].op, v |-> program[i].v, sem |-> program[i].sem]
  BY <1>1 DEF CreatedInv
<1>4. i \in 1 .. Len(program) /\ i < line
  BY <1>2
<1> QED
  BY <1>3, <1>4

(* Helpers send messages of W, and only when the main thread has sent its k     *)
(* messages.                                                               *)
LEMMA LoadHelper ==
  ASSUME ScriptInv, NEW k, NEW v, NEW W, Loads(program, k, v, W), NEW h \in Helper, helper[h] # "new"
  PROVE  /\ args[h].op \in SendOps => args[h].v \in W
         /\ line > k
<1>1. PICK i \in 1 .. Len(program) :
         /\ i < line /\ Creates(program, i, h)
         /\ args[h] = [op |-> program[i].op, v |-> program[i].v, sem |-> program[i].sem]
  BY HelperArgs
<1>2. /\ program[i].do = "pthread_create" /\ args[h].op = program[i].op /\ args[h].v = program[i].v
  BY <1>1 DEF Creates
<1>3. k < i /\ k \in Nat /\ (program[i].op \in SendOps => program[i].v \in W)
  BY <1>2 DEF Loads
<1>4. line \in Nat
  BY ProgramWellFormed DEF ScriptInv
<1> QED
  BY <1>1, <1>2, <1>3, <1>4

(* The calls of the main thread on an open channel are its first sends,    *)
(* and the one that closes it.                                             *)
LEMMA LoadMain ==
  ASSUME ScriptInv, MainDecides, closed = 1, NEW k, NEW v, NEW W, Loads(program, k, v, W)
  PROVE  \/ closed' = 0 /\ program[line].op = "close" /\ line > k
         \/ closed' = 1 /\ line <= k /\ Adds(v)
<1>1. /\ IInv /\ ScriptTypeOK /\ ClosedInv /\ ~failed
      /\ line \in 1 .. Len(program) /\ program[line].do = "call"
      /\ pc[0] = "body"
  BY MainDecided, MainDecidesFrame DEF ScriptInv, MainDecides
<1>2. line \in Nat /\ k \in Nat
  BY <1>1, ProgramWellFormed DEF Loads
<1>3. CASE line > k
  <2>1. Closes(program, line) \/ ClosedBefore(program, line)
    BY <1>1, <1>3 DEF Loads
  <2>2. ~ClosedBefore(program, line)
    BY <1>1, ClosedBeforeCall
  <2>3. program[line].op = "close"
    BY <2>1, <2>2 DEF Closes
  <2> QED
    BY <1>3, <2>3, MainDecided DEF SendOps, ReceiveOps
<1>4. CASE line <= k
  <2>1. program[line].op = "send" /\ program[line].v = v
    BY <1>1, <1>4 DEF Loads
  <2> QED
    BY <1>4, <2>1, MainDecided DEF SendOps, ReceiveOps
<1> QED
  BY <1>2, <1>3, <1>4

(* Moves keep LoadInv. *)
LEMMA LoadInvStep ==
  ASSUME ScriptInv, Move, ~failed', NEW k, NEW v, NEW W, Loads(program, k, v, W), LoadInv(k, v, W)
  PROVE  LoadInv(k, v, W)'
<1> SUFFICES ASSUME closed' = 1
             PROVE  LoadInv(k, v, W)'
  BY DEF LoadInv
<1>1. IInv /\ ScriptTypeOK /\ HelperInv /\ MainInv /\ closed \in {0, 1}
  BY DEF ScriptInv, IInv, TypeOK
<1>2. closed = 1
  BY <1>1, ClosedStays
<1>3. /\ buffer.size + Cardinality(Took) = Cardinality(Gave) + Sent(k)
      /\ \A i \in 1 .. buffer.size :
           IF i + Cardinality(Took) <= k THEN Contents(buffer)[i] = v ELSE Contents(buffer)[i] \in W
      /\ \A h \in Took : Message(h) \in {v} \cup W
      /\ v \notin W =>
           Cardinality(TookOf(v)) =
             IF Cardinality(Took) <= k THEN Cardinality(Took) ELSE k
  BY <1>2 DEF LoadInv
<1>4. /\ Cardinality(Took) \in Nat /\ Cardinality(Gave) \in Nat /\ Cardinality(TookOf(v)) \in Nat
      /\ k \in Nat /\ buffer.size \in Nat /\ line \in Nat /\ line >= 1
  BY <1>1, TookFinite, SizesType, ProgramWellFormed DEF Loads
<1>5. CASE Quiet
  <2>1. buffer' = buffer /\ \A g \in Helper : SameResult(g)
    BY <1>2, <1>5, QuietStep
  <2>2. Took' = Took /\ Gave' = Gave /\ TookOf(v)' = TookOf(v)
    BY <2>1, TookKept
  <2>3. Sent(k)' = Sent(k)
    BY <1>5, SentStep DEF Quiet
  <2>4. \A h \in Took : Message(h)' = Message(h)
    BY <2>1 DEF Took, SameResult
  <2> QED
    BY <1>3, <2>1, <2>2, <2>3, <2>4 DEF LoadInv
<1>6. ASSUME NEW h \in Helper, HelperDecides(h)
      PROVE  LoadInv(k, v, W)'
  <2>1. /\ helper[h] # "new" /\ ~MainDecides /\ \A g \in Helper \ {h} : SameResult(g)
    BY <1>6, HelperDecidesFrame
  <2>2. Sent(k)' = Sent(k) /\ Sent(k) = k
    BY <2>1, SentStep, LoadHelper
  <2>3. CASE Result(h)' = CHANNEL_FULL /\ buffer' = buffer
    <3>1. Took' = Took /\ Gave' = Gave /\ TookOf(v)' = TookOf(v)
      <4>1. Result(h)' # SUCCESS /\ Result(h) # SUCCESS /\ args' = args
        BY <1>6, <2>3, HelperDecidesFrame DEF CHANNEL_FULL, SUCCESS, GEN_ERROR
      <4>2. \A g \in Helper \ {h} : Result(g)' = Result(g) /\ Message(g)' = Message(g)
        BY <2>1 DEF SameResult
      <4>3. Took' = Took /\ Gave' = Gave
        BY <4>1, <4>2 DEF Took, Gave
      <4> QED
        BY <4>1, <4>2, <4>3 DEF TookOf, Took
    <3>2. \A g \in Took : Message(g)' = Message(g)
      <4>1. h \notin Took
        BY <1>6, HelperDecidesFrame DEF Took, SUCCESS, GEN_ERROR
      <4> QED
        BY <2>1, <4>1 DEF Took, SameResult
    <3> QED
      BY <1>3, <2>2, <2>3, <3>1, <3>2 DEF LoadInv
  <2>4. CASE Result(h)' = SUCCESS /\ args[h].op \in SendOps /\ Adds(args[h].v)
    <3>1. /\ Took' = Took /\ TookOf(v)' = TookOf(v)
          /\ Cardinality(Gave') = Cardinality(Gave) + 1
      BY <1>6, <2>4, GaveOne
    <3>2. args[h].v \in W
      BY <2>1, <2>4, LoadHelper
    <3>3. /\ buffer'.size = buffer.size + 1
          /\ \A i \in 1 .. buffer.size : Contents(buffer')[i] = Contents(buffer)[i]
          /\ \A i : i = buffer.size + 1 => Contents(buffer')[i] \in W
      BY <2>4, <3>2 DEF Adds
    <3>4. \A g \in Took : Message(g)' = Message(g)
      <4>1. h \notin Took
        BY <1>6, HelperDecidesFrame DEF Took, SUCCESS, GEN_ERROR
      <4> QED
        BY <2>1, <4>1 DEF Took, SameResult
    <3>5. buffer'.size + Cardinality(Took') = Cardinality(Gave') + Sent(k)'
      <4>1. Cardinality(Took') = Cardinality(Took)
        BY <3>1
      <4> QED
        BY <1>3, <1>4, <2>2, <3>1, <3>3, <4>1
    <3>6. ASSUME NEW i \in 1 .. buffer'.size
          PROVE  IF i + Cardinality(Took) <= k THEN Contents(buffer')[i] = v ELSE Contents(buffer')[i] \in W
      <4>1. CASE i \in 1 .. buffer.size
        BY <1>3, <3>3, <4>1
      <4>2. CASE i = buffer.size + 1
        <5>1. ~(i + Cardinality(Took) <= k)
          BY <1>3, <1>4, <2>2, <4>2
        <5> QED
          BY <3>3, <4>2, <5>1
      <4> QED
        BY <1>4, <3>3, <4>1, <4>2
    <3>7. \A i \in 1 .. buffer'.size :
             IF i + Cardinality(Took') <= k THEN Contents(buffer')[i] = v ELSE Contents(buffer')[i] \in W
      BY <3>1, <3>6
    <3> QED
      BY <1>3, <3>1, <3>4, <3>5, <3>7 DEF LoadInv
  <2>5. CASE Result(h)' = SUCCESS /\ args[h].op \in ReceiveOps /\ Removes(Message(h)')
    <3>1. /\ Gave' = Gave
          /\ Took' = Took \cup {h}
          /\ \A g \in Took : Message(g)' = Message(g)
          /\ Cardinality(Took') = Cardinality(Took) + 1
          /\ Cardinality(TookOf(v)') =
               Cardinality(TookOf(v)) + (IF Message(h)' = v THEN 1 ELSE 0)
      BY <1>6, <2>5, TookOne
    <3>2. /\ buffer'.size = buffer.size - 1 /\ buffer.size > 0
          /\ \A i \in 1 .. buffer.size - 1 : Contents(buffer')[i] = Contents(buffer)[i + 1]
          /\ Message(h)' = Contents(buffer)[1]
      BY <2>5 DEF Removes
    <3>3. IF 1 + Cardinality(Took) <= k THEN Message(h)' = v ELSE Message(h)' \in W
      <4>1. 1 \in 1 .. buffer.size
        BY <1>4, <3>2
      <4> QED
        BY <1>3, <3>2, <4>1
    <3>4. buffer'.size + Cardinality(Took') = Cardinality(Gave') + Sent(k)'
      <4>1. Cardinality(Gave') = Cardinality(Gave)
        BY <3>1
      <4> QED
        BY <1>3, <1>4, <2>2, <3>1, <3>2, <4>1
    <3>5. ASSUME NEW i \in 1 .. buffer'.size
          PROVE  IF i + Cardinality(Took') <= k THEN Contents(buffer')[i] = v ELSE Contents(buffer')[i] \in W
      <4>1. i \in 1 .. buffer.size - 1 /\ i + 1 \in 1 .. buffer.size /\ i \in Nat
        BY <1>4, <3>2
      <4>2. Contents(buffer')[i] = Contents(buffer)[i + 1]
        BY <3>2, <4>1
      <4>3. IF (i + 1) + Cardinality(Took) <= k THEN Contents(buffer)[i + 1] = v ELSE Contents(buffer)[i + 1] \in W
        BY <1>3, <4>1
      <4>4. (i + 1) + Cardinality(Took) <= k <=> i + Cardinality(Took') <= k
        BY <1>4, <3>1, <4>1
      <4> QED
        BY <4>2, <4>3, <4>4
    <3>6. \A g \in Took' : Message(g)' \in {v} \cup W
      BY <1>3, <3>1, <3>3
    <3>7. v \notin W =>
            Cardinality(TookOf(v)') =
              IF Cardinality(Took') <= k THEN Cardinality(Took') ELSE k
      BY <1>3, <1>4, <3>1, <3>3
    <3> QED
      BY <3>4, <3>5, <3>6, <3>7 DEF LoadInv
  <2> QED
    BY <1>2, <1>6, <2>3, <2>4, <2>5, HelperDecided
<1>7. CASE MainDecides
  <2>1. /\ Took' = Took /\ Gave' = Gave /\ TookOf(v)' = TookOf(v)
        /\ \A g \in Helper : SameResult(g)
    BY <1>7, TookKeptByMain, MainDecidesFrame
  <2>2. /\ line \in 1 .. Len(program) /\ program[line].do = "call"
        /\ pc[0] = "body"
    BY <1>2, <1>7, MainDecided, MainDecidesFrame
  <2>3. line <= k /\ Adds(v)
    BY <1>2, <1>7, LoadMain
  <2>6. Took = {} /\ Gave = {} /\ Cardinality(Took) = 0 /\ Cardinality(Gave) = 0
    BY <2>3, NobodyYet, FS_EmptySet
  <2>7. Sent(k) = line - 1 /\ Sent(k)' = line
    BY <1>7, <2>3, SentStep
  <2>8. /\ buffer'.size = buffer.size + 1
        /\ \A i \in 1 .. buffer.size : Contents(buffer')[i] = Contents(buffer)[i]
        /\ \A i : i = buffer.size + 1 => Contents(buffer')[i] = v
    BY <2>3 DEF Adds
  <2>9. buffer.size = line - 1
    BY <1>3, <1>4, <2>6, <2>7
  <2>10. ASSUME NEW i \in 1 .. buffer'.size
         PROVE  Contents(buffer')[i] = v /\ i <= k
    <3>1. CASE i \in 1 .. buffer.size
      <4>1. i + 0 <= k
        BY <1>4, <2>3, <2>9, <3>1
      <4> QED
        BY <1>3, <2>6, <2>8, <3>1, <4>1
    <3>2. CASE i = buffer.size + 1
      BY <1>4, <2>3, <2>8, <2>9, <3>2
    <3> QED
      BY <1>4, <2>8, <3>1, <3>2
  <2>11. Cardinality(Took') = 0 /\ Cardinality(Gave') = 0
    BY <2>1, <2>6
  <2>12. buffer'.size + Cardinality(Took') = Cardinality(Gave') + Sent(k)'
    BY <1>4, <2>7, <2>8, <2>9, <2>11
  <2>13. \A i \in 1 .. buffer'.size :
           IF i + Cardinality(Took') <= k THEN Contents(buffer')[i] = v ELSE Contents(buffer')[i] \in W
    BY <1>4, <2>8, <2>10, <2>11
  <2>14. \A h \in Took' : Message(h)' \in {v} \cup W
    BY <2>1, <2>6
  <2>15. v \notin W => Cardinality(TookOf(v)') =
            IF Cardinality(Took') <= k THEN Cardinality(Took') ELSE k
    BY <1>3, <2>1
  <2> QED
    BY <2>12, <2>13, <2>14, <2>15 DEF LoadInv
<1> QED
  BY <1>5, <1>6, <1>7 DEF Quiet

(* At the beginning the channel is empty. *)
LEMMA LoadInvInit ==
  ASSUME ScriptInit, NEW k, NEW v, NEW W, Loads(program, k, v, W)
  PROVE  LoadInv(k, v, W)
<1>1. ScriptInv /\ Took = {} /\ Gave = {}
  <2>1. \A h \in Helper : Result(h) = GEN_ERROR
    BY MainIsThread DEF ScriptInit, Result
  <2> QED
    BY <2>1, ScriptInitInv DEF Took, Gave, GEN_ERROR, SUCCESS
<1>2. k \in Nat /\ Sent(k) = 0
  BY MainIsThread DEF Loads, Sent, ScriptInit
<1>3. buffer.size = 0
  <2>1. test.capacity \in Nat
    BY ProgramType DEF ScriptInit
  <2> QED
    BY <2>1, CreateLemma DEF ScriptInit
<1>4. Cardinality(Took) = 0 /\ Cardinality(Gave) = 0 /\ TookOf(v) = {} /\ Cardinality(TookOf(v)) = 0
  BY <1>1, FS_EmptySet DEF TookOf
<1> QED
  BY <1>1, <1>2, <1>3, <1>4 DEF LoadInv

-----------------------------------------------------------------------------
(***************************************************************************)
(* The tests that load the channel, by name.                               *)
(***************************************************************************)
LoadTests ==
  {"test_overall_send_receive", "test_non_blocking_send", "test_non_blocking_receive",
   "test_channel_close_with_send", "test_channel_close_with_receive"}

Prefix ==
  IF test.name \in {"test_non_blocking_receive", "test_channel_close_with_receive"}
  THEN test.capacity ELSE 0

First == IF test.name = "test_non_blocking_receive" THEN "Message" ELSE "Message1"

Rest ==
  IF test.name = "test_non_blocking_receive"
  THEN {"Message1", "Message2", "Message3"} ELSE {"Message1"}

(* The settings of the test that runs. *)
LEMMA SettingsOfTest ==
  ASSUME ScriptTypeOK
  PROVE  /\ test.senders \in Nat /\ test.receivers \in Nat
         /\ test.capacity \in Nat /\ test.capacity > 0
         /\ 1 .. test.senders + test.receivers \subseteq Helper
         /\ test.name = "test_overall_send_receive" => test.senders = test.receivers
         /\ test.name = "test_non_blocking_send" => test.senders >= test.capacity /\ test.receivers = 0
         /\ test.name = "test_non_blocking_receive" =>
              test.receivers >= test.senders + test.capacity /\ test.sleep_long_enough
         /\ test.name = "test_channel_close_with_send" => test.receivers = 0
         /\ test.name = "test_channel_close_with_receive" => test.senders = 0
<1>1. test \in Programs
  BY DEF ScriptTypeOK
<1> DEFINE P(p) == /\ p.name = "test_overall_send_receive" => p.senders = p.receivers
                   /\ p.name = "test_non_blocking_send" => p.senders >= p.capacity /\ p.receivers = 0
                   /\ p.name = "test_non_blocking_receive" =>
                        p.receivers >= p.senders + p.capacity /\ p.sleep_long_enough
                   /\ p.name = "test_channel_close_with_send" => p.receivers = 0
                   /\ p.name = "test_channel_close_with_receive" => p.senders = 0
<1>2. P(test)
  BY <1>1, ProgramAssumption
<1> QED
  BY <1>1, <1>2, ProgramType

(* The tests of LoadTests load the channel. *)
LEMMA LoadTestFacts ==
  ASSUME ScriptTypeOK, test.name \in LoadTests
  PROVE  Loads(program, Prefix, First, Rest)
<1>1. /\ test.senders \in Nat /\ test.receivers \in Nat /\ test.capacity \in Nat
      /\ Lines(test)
  BY SettingsOfTest, ProgramWellFormed
<1>2. CASE test.name = "test_overall_send_receive"
  BY <1>1, <1>2, OverallSendReceiveFacts DEF Lines, Prefix, First, Rest, program
<1>3. CASE test.name = "test_non_blocking_send"
  BY <1>1, <1>3, NonBlockingSendFacts DEF Lines, Prefix, First, Rest, program
<1>4. CASE test.name = "test_non_blocking_receive"
  BY <1>1, <1>4, NonBlockingReceiveFacts DEF Lines, Prefix, First, Rest, program
<1>5. CASE test.name = "test_channel_close_with_send"
  BY <1>1, <1>5, CloseWithSendFacts DEF Lines, Prefix, First, Rest, program
<1>6. CASE test.name = "test_channel_close_with_receive"
  BY <1>1, <1>6, CloseWithReceiveFacts DEF Lines, Prefix, First, Rest, program
<1> QED
  BY <1>2, <1>3, <1>4, <1>5, <1>6 DEF LoadTests

(* How many helpers a test has, and the statement after which they have    *)
(* all been joined.                                                        *)
Helpers == test.senders + test.receivers

LastJoin ==
  CASE test.name = "test_overall_send_receive" -> 4 * test.senders
    [] test.name = "test_non_blocking_send" -> 2 * test.senders
    [] test.name = "test_non_blocking_receive" ->
         test.capacity + 2 * test.senders + 3 * test.receivers
    [] test.name = "test_channel_close_with_send" -> 2 * test.senders + test.capacity + 1
    [] test.name = "test_channel_close_with_receive" ->
         2 * test.receivers + 2 * test.capacity + 1

(* They create and join all their helpers before the last join. *)
LEMMA LoadTestHelpers ==
  ASSUME ScriptTypeOK, test.name \in LoadTests
  PROVE  HelpersUntil(program, Helpers, LastJoin)
<1>1. /\ test.senders \in Nat /\ test.receivers \in Nat /\ test.capacity \in Nat
      /\ Lines(test)
  BY SettingsOfTest, ProgramWellFormed
<1>2. CASE test.name = "test_overall_send_receive"
  <2>1. HelpersUntil(program, 2 * test.senders, 4 * test.senders)
    BY <1>1, <1>2, OverallSendReceiveFacts DEF Lines, program
  <2>2. Helpers = 2 * test.senders /\ LastJoin = 4 * test.senders
    BY <1>1, <1>2, SettingsOfTest DEF Helpers, LastJoin
  <2> QED
    BY <2>1, <2>2
<1>3. CASE test.name = "test_non_blocking_send"
  <2>1. HelpersUntil(program, test.senders, 2 * test.senders)
    BY <1>1, <1>3, NonBlockingSendFacts DEF Lines, program
  <2>2. Helpers = test.senders /\ LastJoin = 2 * test.senders
    BY <1>1, <1>3, SettingsOfTest DEF Helpers, LastJoin
  <2> QED
    BY <2>1, <2>2
<1>4. CASE test.name = "test_non_blocking_receive"
  <2>1. HelpersUntil(program, test.senders + test.receivers,
                     test.capacity + 2 * test.senders + 3 * test.receivers)
    BY <1>1, <1>4, NonBlockingReceiveFacts DEF Lines, program
  <2>2. LastJoin = test.capacity + 2 * test.senders + 3 * test.receivers
    BY <1>4 DEF LastJoin
  <2> QED
    BY <2>1, <2>2 DEF Helpers
<1>5. CASE test.name = "test_channel_close_with_send"
  <2>1. HelpersUntil(program, test.senders, 2 * test.senders + test.capacity + 1)
    BY <1>1, <1>5, CloseWithSendFacts DEF Lines, program
  <2>2. Helpers = test.senders /\ LastJoin = 2 * test.senders + test.capacity + 1
    BY <1>1, <1>5, SettingsOfTest DEF Helpers, LastJoin
  <2> QED
    BY <2>1, <2>2
<1>6. CASE test.name = "test_channel_close_with_receive"
  <2>1. HelpersUntil(program, test.receivers, 2 * test.receivers + 2 * test.capacity + 1)
    BY <1>1, <1>6, CloseWithReceiveFacts DEF Lines, program
  <2>2. Helpers = test.receivers /\ LastJoin = 2 * test.receivers + 2 * test.capacity + 1
    BY <1>1, <1>6, SettingsOfTest DEF Helpers, LastJoin
  <2> QED
    BY <2>1, <2>2
<1> QED
  BY <1>2, <1>3, <1>4, <1>5, <1>6 DEF LoadTests

(* The statement that closes the channel. *)
FirstClose ==
  CASE test.name = "test_overall_send_receive" -> 4 * test.senders + 3
    [] test.name = "test_non_blocking_send" -> 2 * test.senders + 2
    [] test.name = "test_non_blocking_receive" ->
         test.capacity + 3 * test.senders + 3 * test.receivers + 3
    [] test.name = "test_channel_close_with_send" -> test.senders + test.capacity + 1
    [] test.name = "test_channel_close_with_receive" -> test.receivers + 2 * test.capacity + 1

(* They close the channel at one place. *)
LEMMA LoadTestCloses ==
  ASSUME ScriptTypeOK, test.name \in LoadTests
  PROVE  ClosedAt(program, FirstClose)
<1>1. /\ test.senders \in Nat /\ test.receivers \in Nat /\ test.capacity \in Nat
      /\ Lines(test)
  BY SettingsOfTest, ProgramWellFormed
<1>2. CASE test.name = "test_overall_send_receive"
  <2>1. ClosedAt(program, 4 * test.senders + 3)
    BY <1>1, <1>2, OverallSendReceiveFacts DEF Lines, program
  <2> QED
    BY <1>2, <2>1 DEF FirstClose
<1>3. CASE test.name = "test_non_blocking_send"
  <2>1. ClosedAt(program, 2 * test.senders + 2)
    BY <1>1, <1>3, NonBlockingSendFacts DEF Lines, program
  <2> QED
    BY <1>3, <2>1 DEF FirstClose
<1>4. CASE test.name = "test_non_blocking_receive"
  <2>1. ClosedAt(program, test.capacity + 3 * test.senders + 3 * test.receivers + 3)
    BY <1>1, <1>4, NonBlockingReceiveFacts DEF Lines, program
  <2> QED
    BY <1>4, <2>1 DEF FirstClose
<1>5. CASE test.name = "test_channel_close_with_send"
  <2>1. ClosedAt(program, test.senders + test.capacity + 1)
    BY <1>1, <1>5, CloseWithSendFacts DEF Lines, program
  <2> QED
    BY <1>5, <2>1 DEF FirstClose
<1>6. CASE test.name = "test_channel_close_with_receive"
  <2>1. ClosedAt(program, test.receivers + 2 * test.capacity + 1)
    BY <1>1, <1>6, CloseWithReceiveFacts DEF Lines, program
  <2> QED
    BY <1>6, <2>1 DEF FirstClose
<1> QED
  BY <1>2, <1>3, <1>4, <1>5, <1>6 DEF LoadTests

CloseTests == {"test_channel_close_with_send", "test_channel_close_with_receive"}

(* Before the main thread closes the channel it waits for as many helpers  *)
(* as the channel has slots.                                               *)
FirstWait ==
  IF test.name = "test_channel_close_with_send" THEN test.senders
  ELSE test.capacity + test.receivers

(* Those that close with helpers inside wait for capacity posts before. *)
LEMMA CloseTestWaits ==
  ASSUME ScriptTypeOK, test.name \in CloseTests
  PROVE  /\ WaitsFor(program, FirstWait, test.capacity)
         /\ FirstWait \in Nat /\ FirstClose = FirstWait + test.capacity + 1
<1>1. /\ test.senders \in Nat /\ test.receivers \in Nat /\ test.capacity \in Nat
      /\ Lines(test)
  BY SettingsOfTest, ProgramWellFormed
<1>2. CASE test.name = "test_channel_close_with_send"
  <2>1. WaitsFor(program, test.senders, test.capacity)
    BY <1>1, <1>2, CloseWithSendFacts DEF Lines, program
  <2> QED
    BY <1>1, <1>2, <2>1 DEF FirstWait, FirstClose
<1>3. CASE test.name = "test_channel_close_with_receive"
  <2>1. WaitsFor(program, test.capacity + test.receivers, test.capacity)
    BY <1>1, <1>3, CloseWithReceiveFacts DEF Lines, program
  <2>2. FirstWait = test.capacity + test.receivers
    BY <1>3 DEF FirstWait
  <2>3. FirstClose = test.receivers + 2 * test.capacity + 1
    BY <1>3 DEF FirstClose
  <2> QED
    BY <1>1, <2>1, <2>2, <2>3
<1> QED
  BY <1>2, <1>3 DEF CloseTests

(* The helpers of a test and their calls. *)
LEMMA LoadTestCalls ==
  ASSUME ScriptInv, NEW h \in Helper, helper[h] # "new"
  PROVE  /\ test.name = "test_overall_send_receive" =>
              \/ h \in 1 .. test.senders /\ args[h].op = "receive"
              \/ h \in test.senders + 1 .. 2 * test.senders /\ args[h].op = "send"
         /\ test.name = "test_non_blocking_send" =>
              h \in 1 .. test.senders /\ args[h].op = "non_blocking_send"
         /\ test.name = "test_non_blocking_receive" =>
              \/ h \in 1 .. test.senders /\ args[h].op = "send"
              \/ /\ h \in test.senders + 1 .. test.senders + test.receivers
                 /\ args[h].op = "non_blocking_receive"
         /\ test.name = "test_channel_close_with_send" =>
              h \in 1 .. test.senders /\ args[h].op = "send" /\ args[h].sem
         /\ test.name = "test_channel_close_with_receive" =>
              h \in 1 .. test.receivers /\ args[h].op = "receive" /\ args[h].sem
<1>1. /\ test.senders \in Nat /\ test.receivers \in Nat /\ test.capacity \in Nat
      /\ Lines(test)
  BY SettingsOfTest, ProgramWellFormed DEF ScriptInv
<1>2. PICK i \in 1 .. Len(program) :
         /\ i < line /\ Creates(program, i, h)
         /\ args[h] = [op |-> program[i].op, v |-> program[i].v, sem |-> program[i].sem]
  BY HelperArgs
<1>3. /\ program[i].do = "pthread_create" /\ program[i].h = h
      /\ args[h].op = program[i].op /\ args[h].sem = program[i].sem
  BY <1>2 DEF Creates
<1>4. CASE test.name = "test_overall_send_receive"
  <2>0. OverallSendReceiveLines(program, test.senders)
    BY <1>1, <1>4 DEF Lines, program
  <2>a. \A j \in 1 .. Len(program) : program[j].do = "pthread_create" =>
          \/ j \in 1 .. test.senders /\ program[j].h = j /\ program[j].op = "receive"
             /\ program[j].sem = FALSE
          \/ j \in test.senders + 1 .. 2 * test.senders /\ program[j].h = j /\ program[j].op = "send"
             /\ program[j].sem = FALSE
    BY <1>1, <2>0, OverallSendReceiveFacts
  <2>1. \/ program[i].h \in 1 .. test.senders /\ program[i].op = "receive"
        \/ program[i].h \in test.senders + 1 .. 2 * test.senders /\ program[i].op = "send"
    BY <1>1, <1>3, <2>a
  <2> QED
    BY <1>3, <1>4, <2>1
<1>5. CASE test.name = "test_non_blocking_send"
  <2>0. NonBlockingSendLines(program, test.senders, test.capacity)
    BY <1>1, <1>5 DEF Lines, program
  <2>a. \A j \in 1 .. Len(program) : program[j].do = "pthread_create" =>
          /\ j \in 1 .. test.senders /\ program[j].h = j /\ program[j].op = "non_blocking_send"
          /\ program[j].sem = FALSE
    BY <1>1, <2>0, NonBlockingSendFacts
  <2>1. program[i].h \in 1 .. test.senders /\ program[i].op = "non_blocking_send"
    BY <1>1, <1>3, <2>a
  <2> QED
    BY <1>3, <1>5, <2>1
<1>6. CASE test.name = "test_non_blocking_receive"
  <2>0. NonBlockingReceiveLines(program, test.senders, test.receivers, test.capacity)
    BY <1>1, <1>6 DEF Lines, program
  <2>a. ReceivesOneByOne(program, test.senders, test.receivers, test.capacity)
    BY <1>1, <2>0, NonBlockingReceiveFacts
  <2>1. \/ program[i].h \in 1 .. test.senders /\ program[i].op = "send"
        \/ /\ program[i].h \in test.senders + 1 .. test.senders + test.receivers
           /\ program[i].op = "non_blocking_receive"
    BY <1>1, <1>3, <2>a DEF ReceivesOneByOne
  <2> QED
    BY <1>3, <1>6, <2>1
<1>7. CASE test.name = "test_channel_close_with_send"
  <2>0. CloseWithSendLines(program, test.senders, test.capacity)
    BY <1>1, <1>7 DEF Lines, program
  <2>a. \A j \in 1 .. Len(program) : program[j].do = "pthread_create" =>
          /\ j \in 1 .. test.senders /\ program[j].h = j /\ program[j].op = "send"
          /\ program[j].sem = TRUE
    BY <1>1, <2>0, CloseWithSendFacts
  <2>1. program[i].h \in 1 .. test.senders /\ program[i].op = "send" /\ program[i].sem = TRUE
    BY <1>1, <1>3, <2>a
  <2> QED
    BY <1>3, <1>7, <2>1
<1>8. CASE test.name = "test_channel_close_with_receive"
  <2>0. CloseWithReceiveLines(program, test.receivers, test.capacity)
    BY <1>1, <1>8 DEF Lines, program
  <2>a. \A j \in 1 .. Len(program) : program[j].do = "pthread_create" =>
          program[j].h \in 1 .. test.receivers /\ program[j].op = "receive" /\ program[j].sem = TRUE
    BY <1>1, <2>0, CloseWithReceiveFacts
  <2>1. program[i].h \in 1 .. test.receivers /\ program[i].op = "receive" /\ program[i].sem = TRUE
    BY <1>1, <1>3, <2>a
  <2> QED
    BY <1>3, <1>8, <2>1
<1> QED
  BY <1>4, <1>5, <1>6, <1>7, <1>8

(* Once they have all been joined, each has its result. *)
LEMMA AllJoined ==
  ASSUME ScriptInv, NEW n, NEW e, HelpersUntil(program, n, e), line > e
  PROVE  /\ Created = 1 .. n
         /\ \A h \in 1 .. n : /\ h \in Helper /\ helper[h] = "exited"
                              /\ Result(h) = out[h] /\ Message(h) = got[h]
                              /\ Result(h) \in {SUCCESS, CLOSED_ERROR, CHANNEL_FULL}
<1>1. CreatedInv /\ JoinedInv /\ HelperInv /\ ResultInv /\ ScriptTypeOK
  BY DEF ScriptInv
<1>2. line \in Nat /\ Len(program) \in Nat /\ line <= Len(program) + 1 /\ WellFormed(program)
      /\ n \in Nat /\ e \in Nat
  BY <1>1, ProgramWellFormed DEF HelpersUntil
<1>3. ASSUME NEW h \in Helper, helper[h] # "new"
      PROVE  h \in 1 .. n
  <2>1. PICK i \in 1 .. Len(program) : Creates(program, i, h)
    BY <1>3, HelperArgs
  <2> QED
    BY <2>1 DEF Creates, HelpersUntil
<1>4. ASSUME NEW h \in 1 .. n
      PROVE  h \in Helper /\ helper[h] = "exited"
  <2>1. PICK i \in 1 .. Len(program) : i <= e /\ Creates(program, i, h)
    BY DEF HelpersUntil
  <2>2. h \in Helper
    BY <1>2, <2>1 DEF Creates, WellFormed, ValidStatements
  <2>3. PICK j \in 1 .. Len(program) : j <= e /\ program[j].do = "pthread_join" /\ program[j].h = h
    BY DEF HelpersUntil
  <2>4. j \in 1 .. line - 1
    BY <1>2, <2>3
  <2> QED
    BY <1>1, <2>2, <2>3, <2>4 DEF JoinedInv
<1>5. ASSUME NEW h \in 1 .. n
      PROVE  /\ Result(h) = out[h] /\ Message(h) = got[h]
             /\ Result(h) \in {SUCCESS, CLOSED_ERROR, CHANNEL_FULL}
  <2>1. h \in Helper /\ helper[h] = "exited" /\ pc[h] = "idle"
    BY <1>1, <1>4 DEF HelperInv
  <2> QED
    BY <1>1, <2>1 DEF Result, Message, ResultInv
<1>6. Created = 1 .. n
  BY <1>3, <1>4 DEF Created
<1> QED
  BY <1>4, <1>5, <1>6

-----------------------------------------------------------------------------
(***************************************************************************)
(* What is in the channel of a test that loads it.                         *)
(***************************************************************************)
Loaded == test.name \in LoadTests => LoadInv(Prefix, First, Rest)

(* The channel has the size that the test asked for.                       *)
CapacityInv == closed = 1 => buffer.capacity = test.capacity

(* test_non_blocking_send: a helper was refused because the channel is     *)
(* full, and nobody receives.                                              *)
FullInv ==
  closed = 1 /\ test.name = "test_non_blocking_send" =>
    \A h \in Helper : Result(h) = CHANNEL_FULL => buffer.size = buffer.capacity

(* The test stays the same. *)
LEMMA TestKept ==
  ASSUME Move
  PROVE  test' = test
<1>1. CASE MainMove
  BY <1>1 DEF MainMove, Create, Join, SemWait, Usleep, Assert, Advance, MainCalls, MainDestroys,
     MainUnderway, MainDecides, MainReturns, Woken, scriptVars
<1>2. ASSUME NEW h \in Helper, HelperMove(h)
      PROVE  test' = test
  BY <1>2 DEF HelperMove, HelperCall, HelperUnderway, HelperDecides, HelperReturns, HelperPost, scriptVars
<1> QED
  BY <1>1, <1>2, MoveSplit

(* Moves keep Loaded. *)
LEMMA LoadedStep ==
  ASSUME ScriptInv, Move, ~failed', Loaded
  PROVE  Loaded'
<1>1. ScriptTypeOK /\ test' = test
  BY TestKept DEF ScriptInv
<1>2. Prefix' = Prefix /\ First' = First /\ Rest' = Rest
  BY <1>1 DEF Prefix, First, Rest
<1>3. PICK k, v, W : k = Prefix /\ v = First /\ W = Rest
  OBVIOUS
<1>4. ASSUME test.name \in LoadTests
      PROVE  LoadInv(Prefix, First, Rest)'
  <2>1. Loads(program, k, v, W) /\ LoadInv(k, v, W)
    BY <1>1, <1>3, <1>4, LoadTestFacts DEF Loaded
  <2>2. LoadInv(k, v, W)'
    BY <2>1, LoadInvStep
  <2> QED
    BY <1>2, <1>3, <2>2 DEF LoadInv, Sent
<1> QED
  BY <1>1, <1>4 DEF Loaded

(* Moves keep CapacityInv. *)
LEMMA CapacityInvStep ==
  ASSUME ScriptInv, Move, ~failed', CapacityInv
  PROVE  CapacityInv'
<1> SUFFICES ASSUME closed' = 1
             PROVE  buffer'.capacity = test.capacity
  BY TestKept DEF CapacityInv
<1>1. closed = 1
  BY ClosedStays DEF ScriptInv, IInv, TypeOK
<1>2. buffer.capacity = test.capacity
  BY <1>1 DEF CapacityInv
<1>3. CASE Quiet
  BY <1>1, <1>2, <1>3, QuietStep
<1>4. ASSUME NEW h \in Helper, HelperDecides(h)
      PROVE  buffer'.capacity = test.capacity
  BY <1>1, <1>2, <1>4, HelperDecided DEF Adds, Removes
<1>5. CASE MainDecides
  BY <1>1, <1>2, <1>5, MainDecided DEF Adds, Removes
<1> QED
  BY <1>3, <1>4, <1>5 DEF Quiet

(* Moves keep FullInv. *)
LEMMA FullInvStep ==
  ASSUME ScriptInv, Move, ~failed', FullInv
  PROVE  FullInv'
<1> SUFFICES ASSUME closed' = 1, test.name = "test_non_blocking_send",
                    NEW g \in Helper, Result(g)' = CHANNEL_FULL
             PROVE  buffer'.size = buffer'.capacity
  BY TestKept DEF FullInv
<1>1. closed = 1 /\ ScriptTypeOK
  BY ClosedStays DEF ScriptInv, IInv, TypeOK
<1>2. Result(g) = CHANNEL_FULL => buffer.size = buffer.capacity
  BY <1>1 DEF FullInv
<1>3. CASE Quiet
  BY <1>1, <1>2, <1>3, QuietStep DEF SameResult
<1>4. ASSUME NEW h \in Helper, HelperDecides(h)
      PROVE  buffer'.size = buffer'.capacity
  <2>1. helper[h] # "new" /\ args[h].op = "non_blocking_send"
    BY <1>4, HelperDecidesFrame, LoadTestCalls
  <2>2. CASE h = g
    BY <1>1, <1>4, <2>1, <2>2, HelperDecided DEF CHANNEL_FULL, SUCCESS
  <2>3. CASE h # g
    <3>1. Result(g) = CHANNEL_FULL
      BY <1>4, <2>3, HelperDecidesFrame DEF SameResult
    <3>2. ~Adds(args[h].v)
      <4>1. buffer.size \in Nat
        BY <1>1, SizesType DEF ScriptInv
      <4> QED
        BY <1>2, <3>1, <4>1 DEF Adds
    <3>3. buffer' = buffer
      BY <1>1, <1>4, <2>1, <3>2, HelperDecided DEF ReceiveOps
    <3> QED
      BY <1>2, <3>1, <3>3
  <2> QED
    BY <2>2, <2>3
<1>5. CASE MainDecides
  <2>1. Loads(program, Prefix, First, Rest) /\ Prefix = 0
    BY <1>1, LoadTestFacts DEF LoadTests, Prefix
  <2>2. line <= 0
    <3>1. PICK k, v, W : k = Prefix /\ v = First /\ W = Rest
      OBVIOUS
    <3>2. line <= k
      BY <1>1, <1>5, <2>1, <3>1, LoadMain
    <3> QED
      BY <2>1, <3>1, <3>2
  <2> QED
    BY <1>1, <2>2, ProgramWellFormed
<1> QED
  BY <1>3, <1>4, <1>5 DEF Quiet

-----------------------------------------------------------------------------
(***************************************************************************)
(* The tests that close the channel while helpers are in it.               *)
(***************************************************************************)
Successes == {h \in Helper : Result(h) = SUCCESS}

(* When the main thread closes the channel, as many helpers have succeeded *)
(* as it has slots; all others are refused.                                *)
CloseCountInv ==
  closed = 0 /\ test.name \in CloseTests => Cardinality(Successes) = test.capacity

(* A call that is decided on a closed channel is refused. *)
LEMMA HelperRefused ==
  ASSUME ScriptInv, NEW h \in Helper, HelperDecides(h), closed = 0
  PROVE  Result(h)' = CLOSED_ERROR
<1> USE MainIsThread
<1>1. /\ IInv /\ ScriptTypeOK /\ HelperInv
      /\ status \in [Thread -> Statuses]
  BY DEF ScriptInv, IInv, TypeOK
<1>2. Result(h)' = status'[h] /\ Outcome(h)
  BY <1>1, ResultsDecided DEF HelperDecides
<1>3. Refused(h)
  BY <1>2 DEF Outcome, FoundFull, FoundEmpty, Added, Removed, Closed, InBodyOpen
<1> QED
  BY <1>1, <1>2, <1>3 DEF Refused, FinishUnchanged, Finish

(* The successes can be counted. *)
LEMMA SuccessesFinite == IsFiniteSet(Successes) /\ Cardinality(Successes) \in Nat
  BY MainIsThread, FS_Subset, FS_CardinalityType DEF Successes

(* In these tests all helpers do the same, and none can find the channel   *)
(* full or empty.                                                          *)
LEMMA SuccessesOfClose ==
  ASSUME ScriptInv, test.name \in CloseTests
  PROVE  /\ test.name = "test_channel_close_with_send" => Successes = Gave /\ Took = {}
         /\ test.name = "test_channel_close_with_receive" => Successes = Took /\ Gave = {}
         /\ \A h \in Helper : Result(h) # CHANNEL_FULL
<1>1. \A h \in Helper : Result(h) # GEN_ERROR => helper[h] # "new"
  BY ResultCreated
<1>2. \A h \in Helper : Result(h) # GEN_ERROR =>
         /\ test.name = "test_channel_close_with_send" => args[h].op = "send"
         /\ test.name = "test_channel_close_with_receive" => args[h].op = "receive"
  BY <1>1, LoadTestCalls
<1>3. \A h \in Helper : Result(h) # CHANNEL_FULL
  <2>1. ResultInv
    BY DEF ScriptInv
  <2> QED
    BY <1>2, <2>1 DEF ResultInv, CloseTests, CHANNEL_FULL, GEN_ERROR
<1> QED
  BY <1>2, <1>3 DEF Successes, Took, Gave, SendOps, ReceiveOps, SUCCESS, GEN_ERROR

(* A helper that has posted the semaphore has succeeded.                   *)
LEMMA PostedSucceeded ==
  ASSUME ScriptInv, closed = 1, test.name \in CloseTests
  PROVE  Cardinality(Posted) <= Cardinality(Successes)
<1>1. ResultInv
  BY DEF ScriptInv
<1>2. Posted \subseteq Successes
  BY <1>1, SuccessesOfClose DEF Posted, Successes, ResultInv
<1> QED
  BY <1>2, SuccessesFinite, FS_Subset

(* When the main thread closes the channel, capacity helpers have          *)
(* succeeded.                                                              *)
LEMMA SuccessesAtClose ==
  ASSUME ScriptInv, ~failed, closed = 1, test.name \in CloseTests, Loaded, CapacityInv,
         line \in 1 .. Len(program), Closes(program, line)
  PROVE  Cardinality(Successes) = test.capacity
<1>1. /\ ScriptTypeOK /\ IInv /\ SemInv /\ test.name \in LoadTests
  BY DEF ScriptInv, CloseTests, LoadTests
<1>2. /\ test.capacity \in Nat /\ FirstWait \in Nat /\ line \in Nat /\ done \in Nat
      /\ buffer.size \in Nat /\ buffer.size <= test.capacity
      /\ Cardinality(Took) \in Nat /\ Cardinality(Gave) \in Nat /\ Cardinality(Successes) \in Nat
      /\ Cardinality(Posted) \in Nat /\ Cardinality(Waited) \in Nat
  <2>1. buffer.size <= buffer.capacity /\ buffer.capacity = test.capacity
    BY <1>1, SizesType DEF CapacityInv
  <2> QED
    BY <1>1, <2>1, SettingsOfTest, CloseTestWaits, ProgramWellFormed, SizesType, TookFinite,
       SuccessesFinite, PostedFinite DEF ScriptTypeOK
<1>3. line >= FirstWait + test.capacity + 1
  <2>1. ClosedAt(program, FirstClose)
    BY <1>1, LoadTestCloses
  <2>2. line >= FirstClose
    BY <2>1 DEF ClosedAt
  <2> QED
    BY <1>1, <2>2, CloseTestWaits
<1>4. test.capacity <= Cardinality(Successes)
  <2> DEFINE a == FirstWait + 1
             b == FirstWait + test.capacity
  <2>1. a .. b \subseteq Waited
    <3>1. \A i \in a .. b : program[i].do = "sem_wait"
      BY <1>1, CloseTestWaits DEF WaitsFor
    <3>2. a .. b \subseteq 1 .. line - 1
      BY <1>2, <1>3
    <3> QED
      BY <3>1, <3>2 DEF Waited
  <2>2. Cardinality(a .. b) = test.capacity
    <3>1. a \in Int /\ b \in Int
      BY <1>2
    <3>2. Cardinality(a .. b) = IF a > b THEN 0 ELSE b - a + 1
      BY <3>1, FS_Interval
    <3> QED
      BY <1>2, <3>2
  <2>3. test.capacity <= Cardinality(Waited)
    BY <1>1, <2>1, <2>2, PostedFinite, FS_Subset
  <2>4. Cardinality(Waited) <= Cardinality(Posted)
    BY <1>1, <1>2 DEF SemInv
  <2> QED
    BY <1>2, <2>3, <2>4, PostedSucceeded
<1>5. Cardinality(Successes) <= test.capacity
  <2>1. LoadInv(Prefix, First, Rest) /\ Loads(program, Prefix, First, Rest)
    BY <1>1, LoadTestFacts DEF Loaded
  <2>2. buffer.size + Cardinality(Took) = Cardinality(Gave) + Sent(Prefix)
    BY <2>1 DEF LoadInv
  <2>3. CASE test.name = "test_channel_close_with_send"
    <3>1. Prefix = 0 /\ Sent(Prefix) = 0
      BY <1>2, <1>3, <2>3 DEF Prefix, Sent
    <3>2. Successes = Gave /\ Cardinality(Took) = 0
      BY <2>3, SuccessesOfClose, FS_EmptySet DEF CloseTests
    <3> QED
      BY <1>2, <2>2, <3>1, <3>2
  <2>4. CASE test.name = "test_channel_close_with_receive"
    <3>1. Prefix = test.capacity /\ Sent(Prefix) = test.capacity
      BY <1>2, <1>3, <2>4 DEF Prefix, Sent
    <3>2. Successes = Took /\ Cardinality(Gave) = 0
      BY <2>4, SuccessesOfClose, FS_EmptySet DEF CloseTests
    <3> QED
      BY <1>2, <2>2, <3>1, <3>2
  <2> QED
    BY <2>3, <2>4 DEF CloseTests
<1> QED
  BY <1>2, <1>4, <1>5

(* Moves keep CloseCountInv. *)
LEMMA CloseCountStep ==
  ASSUME ScriptInv, Move, ~failed', CloseCountInv, Loaded, CapacityInv
  PROVE  CloseCountInv'
<1> SUFFICES ASSUME closed' = 0, test.name \in CloseTests
             PROVE  Cardinality(Successes') = test.capacity
  BY TestKept DEF CloseCountInv
<1>1. closed \in {0, 1} /\ IInv /\ ScriptTypeOK /\ HelperInv /\ MainInv
  BY DEF ScriptInv, IInv, TypeOK
<1>2. CASE closed = 1
  <2>1. MainDecides /\ op[0] = "close"
    BY <1>1, <1>2, MainCloses
  <2>2. line \in 1 .. Len(program) /\ program[line].do = "call" /\ ~failed /\ pc[0] = "body"
    BY <1>2, <2>1, MainDecided, MainDecidesFrame DEF MainDecides
  <2>3. Closes(program, line)
    BY <1>1, <2>1, <2>2 DEF MainInv, Closes
  <2>4. Cardinality(Successes) = test.capacity
    BY <1>2, <2>2, <2>3, SuccessesAtClose
  <2>5. Successes' = Successes
    BY <2>1, MainDecidesFrame DEF Successes, SameResult
  <2> QED
    BY <2>4, <2>5
<1>3. CASE closed = 0
  <2>1. Successes' = Successes
    <3>1. CASE Quiet
      BY <3>1, QuietStep DEF Successes, SameResult
    <3>2. ASSUME NEW h \in Helper, HelperDecides(h)
          PROVE  Successes' = Successes
      <4>1. Result(h)' # SUCCESS /\ Result(h) # SUCCESS
        BY <1>3, <3>2, HelperRefused, HelperDecidesFrame DEF SUCCESS, CLOSED_ERROR, GEN_ERROR
      <4>2. \A g \in Helper \ {h} : Result(g)' = Result(g)
        BY <3>2, HelperDecidesFrame DEF SameResult
      <4> QED
        BY <4>1, <4>2 DEF Successes
    <3>3. CASE MainDecides
      BY <3>3, MainDecidesFrame DEF Successes, SameResult
    <3> QED
      BY <3>1, <3>2, <3>3 DEF Quiet
  <2> QED
    BY <1>3, <2>1 DEF CloseCountInv
<1> QED
  BY <1>1, <1>2, <1>3

-----------------------------------------------------------------------------
(***************************************************************************)
(* test_non_blocking_receive: the receivers are created one by one, and    *)
(* each finds a message unless all have been received.                     *)
(***************************************************************************)
Undecided(h) == helper[h] # "new" /\ args[h].op \in ReceiveOps /\ Result(h) = GEN_ERROR

Supplied == buffer.size > 0 \/ Cardinality(Gave) = test.senders

ReceiveNext ==
  /\ line <= Len(program)
  /\ program[line].do = "pthread_create" /\ program[line].op \in ReceiveOps

(* Only one receiver is underway, and it will not overtake a sender.       *)
SettledInv ==
  closed = 1 /\ test.name = "test_non_blocking_receive" =>
    /\ \A h \in Helper : Result(h) = CHANNEL_FULL =>
         Cardinality(Took) = test.capacity + test.senders
    /\ \A h, g \in Helper : Undecided(h) /\ Undecided(g) => h = g
    /\ \A h \in Helper : Undecided(h) => Supplied
    /\ ReceiveNext => Supplied /\ \A h \in Helper : ~Undecided(h)

(* How test_non_blocking_receive creates its receivers. *)
LEMMA OneByOne ==
  ASSUME ScriptTypeOK, test.name = "test_non_blocking_receive"
  PROVE  /\ ReceivesOneByOne(program, test.senders, test.receivers, test.capacity)
         /\ test.senders \in Nat /\ test.receivers \in Nat /\ test.capacity \in Nat
         /\ test.capacity > 0 /\ test.sleep_long_enough
         /\ Prefix = test.capacity /\ test.name \in LoadTests
<1>1. /\ test.senders \in Nat /\ test.receivers \in Nat /\ test.capacity \in Nat
      /\ Lines(test)
  BY SettingsOfTest, ProgramWellFormed
<1>2. NonBlockingReceiveLines(program, test.senders, test.receivers, test.capacity)
  BY <1>1 DEF Lines, program
<1>3. ReceivesOneByOne(program, test.senders, test.receivers, test.capacity)
  BY <1>1, <1>2, NonBlockingReceiveFacts
<1> QED
  BY <1>1, <1>3, SettingsOfTest DEF Prefix, LoadTests

(* Before it creates the first of them nothing has been received. *)
LEMMA NoReceiverYet ==
  ASSUME ScriptInv, test.name = "test_non_blocking_receive",
         line <= test.capacity + test.senders + 1
  PROVE  /\ \A h \in Helper : helper[h] # "new" => args[h].op \notin ReceiveOps
         /\ Took = {} /\ Cardinality(Took) = 0 /\ \A h \in Helper : ~Undecided(h)
<1>1. ScriptTypeOK
  BY DEF ScriptInv
<1>2. /\ test.senders \in Nat /\ test.receivers \in Nat /\ test.capacity \in Nat
      /\ ReceivesOneByOne(program, test.senders, test.receivers, test.capacity)
      /\ line \in Nat
  BY <1>1, OneByOne, ProgramWellFormed
<1>3. ASSUME NEW h \in Helper, helper[h] # "new"
      PROVE  args[h].op \notin ReceiveOps
  <2>1. PICK i \in 1 .. Len(program) :
          /\ i < line /\ Creates(program, i, h)
          /\ args[h] = [op |-> program[i].op, v |-> program[i].v, sem |-> program[i].sem]
    BY <1>3, HelperArgs
  <2>2. program[i].do = "pthread_create" /\ args[h].op = program[i].op
    BY <2>1 DEF Creates
  <2>3. i \notin test.capacity + test.senders + 1 .. test.capacity + test.senders + 2 * test.receivers
    BY <1>2, <2>1
  <2>4. program[i].op = "send"
    BY <1>2, <2>2, <2>3 DEF ReceivesOneByOne
  <2> QED
    BY <2>2, <2>4 DEF ReceiveOps
<1>4. Took = {}
  <2>1. \A h \in Took : helper[h] # "new" /\ args[h].op \in ReceiveOps /\ h \in Helper
    BY ResultCreated DEF Took, SUCCESS, GEN_ERROR
  <2> QED
    BY <1>3, <2>1
<1> QED
  BY <1>3, <1>4, FS_EmptySet DEF Undecided

(* Before the first receiver comes, the channel is full of the main        *)
(* thread's messages.                                                      *)
LEMMA FirstReceiver ==
  ASSUME ScriptInv, test.name = "test_non_blocking_receive", closed = 1, Loaded,
         line = test.capacity + test.senders + 1
           \/ (line = test.capacity + test.senders /\ (pc[0] = "unlock" \/ line > test.capacity))
  PROVE  Supplied /\ \A h \in Helper : ~Undecided(h)
<1>1. ScriptTypeOK /\ IInv
  BY DEF ScriptInv
<1>2. /\ test.senders \in Nat /\ test.receivers \in Nat /\ test.capacity \in Nat
      /\ test.capacity > 0 /\ Prefix = test.capacity /\ test.name \in LoadTests
      /\ line \in Nat /\ buffer.size \in Nat /\ Cardinality(Gave) \in Nat
  BY <1>1, OneByOne, ProgramWellFormed, TookFinite, SizesType
<1>3. Cardinality(Took) = 0 /\ \A h \in Helper : ~Undecided(h)
  BY <1>2, NoReceiverYet
<1>4. Sent(Prefix) = test.capacity
  BY <1>2 DEF Sent
<1>5. buffer.size + Cardinality(Took) = Cardinality(Gave) + Sent(Prefix)
  BY <1>2 DEF Loaded, LoadInv
<1>6. buffer.size > 0
  BY <1>2, <1>3, <1>4, <1>5
<1> QED
  BY <1>3, <1>6 DEF Supplied

(* Every sender has been created when the main thread is past them.        *)
LEMMA SendersOfReceive ==
  ASSUME ScriptInv, test.name = "test_non_blocking_receive"
  PROVE  /\ Gave \subseteq 1 .. test.senders /\ Cardinality(Gave) <= test.senders
         /\ line > test.capacity + test.senders =>
              \A h \in 1 .. test.senders : h \in Helper /\ helper[h] # "new" /\ args[h].op = "send"
<1>1. ScriptTypeOK /\ CreatedInv
  BY DEF ScriptInv
<1>2. /\ test.senders \in Nat /\ test.receivers \in Nat /\ test.capacity \in Nat
      /\ line \in Nat /\ Lines(test) /\ Len(program) \in Nat /\ line <= Len(program) + 1
  BY <1>1, OneByOne, ProgramWellFormed
<1>3. Gave \subseteq 1 .. test.senders
  <2>1. \A h \in Gave : helper[h] # "new" /\ args[h].op \in SendOps /\ h \in Helper
    BY ResultCreated DEF Gave, SUCCESS, GEN_ERROR
  <2> QED
    BY <2>1, LoadTestCalls DEF SendOps
<1>4. Cardinality(Gave) <= test.senders
  <2>1. PICK n : n = test.senders
    OBVIOUS
  <2>2. n \in Nat /\ Gave \in SUBSET (1 .. n)
    BY <1>2, <1>3, <2>1
  <2>3. IsFiniteSet(1 .. n) /\ Cardinality(1 .. n) = n
    BY <2>2, FS_Interval
  <2>4. Cardinality(Gave) <= Cardinality(1 .. n)
    BY <2>2, <2>3, FS_Subset
  <2> QED
    BY <2>1, <2>3, <2>4
<1>5. ASSUME line > test.capacity + test.senders, NEW h \in 1 .. test.senders
      PROVE  h \in Helper /\ helper[h] # "new" /\ args[h].op = "send"
  <2>1. NonBlockingReceiveLines(program, test.senders, test.receivers, test.capacity)
    BY <1>2 DEF Lines, program
  <2> DEFINE i == test.capacity + h
  <2>2. /\ i \in test.capacity + 1 .. test.capacity + test.senders /\ i - test.capacity = h
        /\ i \in 1 .. line - 1 /\ i \in 1 .. Len(program)
    <3>1. i \in Nat /\ i >= 1 /\ i > test.capacity /\ i <= test.capacity + test.senders
      BY <1>2
    <3>2. i < line /\ i <= Len(program) /\ i - test.capacity = h
      BY <1>2, <1>5, <3>1
    <3> QED
      BY <1>2, <3>1, <3>2
  <2> HIDE DEF i
  <2>3. program[i] = pthread_create(h, "send", Messages[h], FALSE)
    BY <2>1, <2>2 DEF NonBlockingReceiveLines
  <2>4. program[i].do = "pthread_create" /\ program[i].h = h
    BY <2>3 DEF pthread_create
  <2>5. h \in Helper
    BY <1>1, <1>2, SettingsOfTest
  <2>6. helper[h] # "new"
    BY <1>1, <2>2, <2>4 DEF CreatedInv
  <2> QED
    BY <1>2, <1>5, <2>5, <2>6, LoadTestCalls
<1> QED
  BY <1>3, <1>4, <1>5

(* When the helpers can do no more, the senders have filled the channel,   *)
(* or have all been there.                                                 *)
LEMMA AfterSleep ==
  ASSUME ScriptInv, test.name = "test_non_blocking_receive", closed = 1, CapacityInv,
         Usleep, line > test.capacity + test.senders
  PROVE  Supplied /\ \A h \in Helper : ~Undecided(h)
<1> USE MainIsThread
<1>1. /\ ScriptTypeOK /\ IInv /\ ResultInv /\ HelperInv /\ MainInv /\ SendersServed
      /\ SleepersInv /\ MutexInv /\ CallInv
  BY DEF ScriptInv, NoLostWakeup, IInv
<1>2. /\ test.senders \in Nat /\ test.capacity \in Nat
      /\ test.capacity > 0 /\ test.sleep_long_enough
      /\ buffer.size \in Nat /\ buffer.capacity = test.capacity
  BY <1>1, OneByOne, SizesType DEF CapacityInv
<1>3. \A h \in Helper : Waits(h)
  BY <1>2 DEF Usleep
<1>4. \A h \in Helper : helper[h] = "exited" => Result(h) \in {SUCCESS, CLOSED_ERROR, CHANNEL_FULL}
  BY <1>1 DEF ResultInv
<1>5. ASSUME NEW h \in Helper
      PROVE  ~Undecided(h)
  <2> SUFFICES ASSUME Undecided(h) PROVE FALSE
    OBVIOUS
  <2>1. args[h].op = "non_blocking_receive"
    <3>1. helper[h] # "new" /\ args[h].op \in ReceiveOps
      BY DEF Undecided
    <3> QED
      BY <3>1, LoadTestCalls DEF ReceiveOps
  <2>2. helper[h] # "exited" /\ helper[h] # "new"
    BY <1>4 DEF Undecided, SUCCESS, CLOSED_ERROR, CHANNEL_FULL, GEN_ERROR
  <2>3. h \in read \cup write
    BY <1>3, <2>2 DEF Waits
  <2>4. pc[h] = "wait" /\ op[h] \in {"send", "receive"}
    BY <1>1, <2>3 DEF SleepersInv
  <2>5. op[h] = args[h].op
    BY <1>1, <2>4 DEF HelperInv
  <2> QED
    BY <2>1, <2>4, <2>5
<1>6. buffer.size = 0 => Cardinality(Gave) = test.senders
  <2> SUFFICES ASSUME buffer.size = 0
               PROVE  Cardinality(Gave) = test.senders
    OBVIOUS
  <2>1. AwakeSenders = {}
    <3> SUFFICES ASSUME NEW t \in AwakeSenders PROVE FALSE
      OBVIOUS
    <3>1. t \in Thread /\ op[t] = "send" /\ pc[t] \in {"lock", "body", "wait"} /\ t \notin read
      BY <1>1 DEF AwakeSenders, Awake, SleepersInv
    <3>2. t # 0
      <4>1. program[line].do = "usleep"
        <5>1. At("usleep")
          BY DEF Usleep
        <5> QED
          BY <5>1 DEF At, program
      <4>2. pc[0] # "idle" => program[line].do \in {"call", "destroy"}
        BY <1>1 DEF MainInv
      <4>3. pc[0] = "idle"
        BY <4>1, <4>2
      <4> QED
        BY <3>1, <4>3
    <3>3. t \in Helper
      BY <3>1, <3>2 DEF Helper
    <3>4. helper[t] = "call"
      BY <1>1, <3>1, <3>3 DEF HelperInv
    <3>5. t \in write
      BY <1>3, <3>1, <3>3, <3>4 DEF Waits
    <3> QED
      BY <1>1, <3>1, <3>5 DEF SleepersInv
  <2>2. read = {}
    <3>1. Cardinality(AwakeSenders) = 0
      BY <2>1, FS_EmptySet
    <3> QED
      BY <1>1, <1>2, <3>1 DEF SendersServed
  <2>3. ASSUME NEW h \in 1 .. test.senders
        PROVE  h \in Gave
    <3>1. h \in Helper /\ helper[h] # "new" /\ args[h].op = "send"
      BY SendersOfReceive
    <3>2. h \notin write
      <4> SUFFICES ASSUME h \in write PROVE FALSE
        OBVIOUS
      <4>1. op[h] = "receive" /\ pc[h] = "wait"
        BY <1>1 DEF SleepersInv
      <4> QED
        BY <1>1, <3>1, <4>1 DEF HelperInv
    <3>3. helper[h] = "exited"
      BY <1>3, <2>2, <3>1, <3>2 DEF Waits
    <3>4. Result(h) \in {SUCCESS, CLOSED_ERROR, CHANNEL_FULL}
      BY <1>4, <3>1, <3>3
    <3>5. Result(h) = SUCCESS
      BY <1>1, <3>1, <3>4 DEF ResultInv
    <3> QED
      BY <3>1, <3>5 DEF Gave, SendOps
  <2>4. Gave = 1 .. test.senders
    BY <2>3, SendersOfReceive
  <2> QED
    BY <1>2, <2>4, FS_Interval
<1> QED
  BY <1>2, <1>5, <1>6 DEF Supplied

(* A helper's call that is decided, in test_non_blocking_receive. *)
LEMMA SettledHelperStep ==
  ASSUME ScriptInv, ~failed, Loaded, SettledInv, closed = 1,
         test.name = "test_non_blocking_receive",
         NEW h \in Helper, HelperDecides(h), ~failed'
  PROVE  SettledInv'
<1>1. /\ ScriptTypeOK /\ IInv
      /\ Move /\ ~MainDecides
      /\ line' = line /\ test' = test /\ program' = program
      /\ args' = args /\ helper' = helper /\ helper[h] = "call"
      /\ Result(h) = GEN_ERROR
      /\ \A g \in Helper \ {h} : Result(g)' = Result(g)
  BY HelperDecidesFrame DEF ScriptInv, SameResult
<1>2. /\ test.senders \in Nat /\ test.capacity \in Nat
      /\ Prefix = test.capacity /\ test.name \in LoadTests
      /\ buffer.size \in Nat /\ Cardinality(Gave) \in Nat /\ Cardinality(Took) \in Nat
      /\ Cardinality(Gave) <= test.senders
  BY <1>1, OneByOne, SizesType, TookFinite, SendersOfReceive
<1>3. /\ \A g \in Helper : Result(g) = CHANNEL_FULL =>
           Cardinality(Took) = test.capacity + test.senders
      /\ \A f, g \in Helper : Undecided(f) /\ Undecided(g) => f = g
      /\ \A g \in Helper : Undecided(g) => Supplied
      /\ ReceiveNext => Supplied /\ \A g \in Helper : ~Undecided(g)
  BY DEF SettledInv
<1>4. /\ Result(h)' # GEN_ERROR
      /\ \/ /\ Result(h)' = CHANNEL_FULL /\ buffer' = buffer
            /\ args[h].op = "non_blocking_receive" /\ buffer.size = 0
         \/ Result(h)' = SUCCESS /\ args[h].op \in SendOps /\ Adds(args[h].v)
         \/ Result(h)' = SUCCESS /\ args[h].op \in ReceiveOps /\ Removes(Message(h)')
  <2>1. args[h].op \in {"send", "non_blocking_receive"}
    BY <1>1, LoadTestCalls
  <2> QED
    BY <2>1, HelperDecided DEF CHANNEL_FULL, SUCCESS, GEN_ERROR
<1>5. /\ \A g \in Helper : Undecided(g)' => g # h /\ Undecided(g)
      /\ ReceiveNext' <=> ReceiveNext
  BY <1>1, <1>4 DEF Undecided, ReceiveNext
<1>6. /\ buffer.size + Cardinality(Took) = Cardinality(Gave) + test.capacity
  <2>1. Sent(Prefix) = test.capacity
    <3>1. Loads(program, Prefix, First, Rest)
      BY <1>1, <1>2, LoadTestFacts
    <3>2. line > Prefix
      <4>1. PICK k, v, W : k = Prefix /\ v = First /\ W = Rest
        OBVIOUS
      <4>2. line > k
        BY <1>1, <3>1, <4>1, LoadHelper
      <4> QED
        BY <4>1, <4>2
    <3> QED
      BY <1>2, <3>2 DEF Sent
  <2> QED
    BY <1>2, <2>1 DEF Loaded, LoadInv
<1>7. CASE Result(h)' = SUCCESS /\ args[h].op \in SendOps /\ Adds(args[h].v)
  <2>1. Took' = Took
    BY <1>7, GaveOne
  <2>2. Supplied'
    BY <1>2, <1>7 DEF Adds, Supplied
  <2>3. ASSUME NEW g \in Helper, Result(g)' = CHANNEL_FULL
        PROVE  Cardinality(Took') = test.capacity + test.senders
    <3>1. g # h
      BY <1>7, <2>3 DEF CHANNEL_FULL, SUCCESS
    <3> QED
      BY <1>1, <1>3, <2>1, <2>3, <3>1
  <2> QED
    BY <1>1, <1>3, <1>5, <2>2, <2>3 DEF SettledInv
<1>8. CASE args[h].op \in ReceiveOps
  <2>1. Undecided(h)
    BY <1>1, <1>8 DEF Undecided
  <2>2. /\ \A g \in Helper : ~Undecided(g)'
        /\ ~ReceiveNext' /\ Supplied
    BY <1>3, <1>5, <2>1
  <2>3. ASSUME NEW g \in Helper, Result(g)' = CHANNEL_FULL
        PROVE  Cardinality(Took') = test.capacity + test.senders
    <3>1. CASE g = h
      <4>1. buffer.size = 0 /\ Result(h)' # SUCCESS
        BY <1>4, <2>3, <3>1 DEF CHANNEL_FULL, SUCCESS
      <4>2. Took' = Took
        <5>1. Result(h) # SUCCESS
          BY <1>1 DEF GEN_ERROR, SUCCESS
        <5> QED
          BY <1>1, <4>1, <5>1 DEF Took
      <4>3. Cardinality(Gave) = test.senders
        BY <1>2, <2>2, <4>1 DEF Supplied
      <4> QED
        BY <1>2, <1>6, <4>1, <4>2, <4>3
    <3>2. CASE g # h
      <4>1. Cardinality(Took) = test.capacity + test.senders
        BY <1>1, <1>3, <2>3, <3>2
      <4>2. buffer.size = 0
        <5>1. PICK b, n, c, m : /\ b = buffer.size /\ n = Cardinality(Gave)
                                /\ c = test.capacity /\ m = test.senders
          OBVIOUS
        <5>2. b \in Nat /\ n \in Nat /\ c \in Nat /\ m \in Nat /\ n <= m /\ b + (c + m) = n + c
          BY <1>2, <1>6, <4>1, <5>1
        <5>3. b = 0
          BY <5>2
        <5> QED
          BY <5>1, <5>3
      <4>3. Result(h)' # SUCCESS /\ Result(h) # SUCCESS
        BY <1>1, <1>4, <1>8, <4>2 DEF Removes, CHANNEL_FULL, SUCCESS, GEN_ERROR, SendOps, ReceiveOps
      <4>4. Took' = Took
        BY <1>1, <4>3 DEF Took
      <4> QED
        BY <4>1, <4>4
    <3> QED
      BY <3>1, <3>2
  <2> QED
    BY <1>1, <2>2, <2>3 DEF SettledInv
<1> QED
  BY <1>4, <1>7, <1>8 DEF ReceiveOps

(* A call of the main thread that is decided. *)
LEMMA SettledMainStep ==
  ASSUME ScriptInv, closed = 1, closed' = 1, test.name = "test_non_blocking_receive", MainDecides
  PROVE  SettledInv'
<1>1. /\ ScriptTypeOK
      /\ line' = line /\ test' = test /\ program' = program
      /\ args' = args /\ helper' = helper
      /\ \A g \in Helper : Result(g)' = Result(g)
      /\ program[line].do = "call"
  BY MainDecided, MainDecidesFrame DEF ScriptInv, SameResult
<1>2. PICK k, v, W : k = Prefix /\ v = First /\ W = Rest /\ Loads(program, k, v, W)
  BY <1>1, OneByOne, LoadTestFacts
<1>3. line <= k
  BY <1>2, LoadMain
<1>4. \A g \in Helper : helper[g] = "new"
  BY <1>2, <1>3, NobodyYet
<1>5. \A g \in Helper : Result(g) = GEN_ERROR
  BY <1>4, ResultCreated
<1>6. /\ \A g \in Helper : ~Undecided(g)' /\ Result(g)' # CHANNEL_FULL
      /\ ~ReceiveNext'
  BY <1>1, <1>4, <1>5 DEF Undecided, ReceiveNext, GEN_ERROR, CHANNEL_FULL
<1> QED
  BY <1>6 DEF SettledInv

(* The other steps. *)
LEMMA SettledQuietStep ==
  ASSUME ScriptInv, ~failed, ~failed', Move, Quiet, Loaded, CapacityInv, SettledInv,
         closed = 1, test.name = "test_non_blocking_receive"
  PROVE  SettledInv'
<1>1. /\ ScriptTypeOK /\ IInv /\ MainInv /\ HelperInv /\ CreatedInv
      /\ test' = test /\ buffer' = buffer
      /\ \A g \in Helper : Result(g)' = Result(g)
  BY TestKept, QuietStep DEF ScriptInv, SameResult
<1>2. /\ test.senders \in Nat /\ test.receivers \in Nat /\ test.capacity \in Nat
      /\ test.capacity > 0 /\ line \in Nat
      /\ ReceivesOneByOne(program, test.senders, test.receivers, test.capacity)
      /\ Len(program) \in Nat /\ program' = program
  BY <1>1, OneByOne, ProgramWellFormed DEF program
<1>3. /\ \A g \in Helper : Result(g) = CHANNEL_FULL =>
           Cardinality(Took) = test.capacity + test.senders
      /\ \A f, g \in Helper : Undecided(f) /\ Undecided(g) => f = g
      /\ \A g \in Helper : Undecided(g) => Supplied
      /\ ReceiveNext => Supplied /\ \A g \in Helper : ~Undecided(g)
  BY DEF SettledInv
<1>4. Took' = Took /\ Gave' = Gave
  BY QuietStep, TookKept
<1>5. Supplied' <=> Supplied
  BY <1>1, <1>4 DEF Supplied
<1>6. ~Create => \A g \in Helper : Undecided(g)' <=> Undecided(g)
  BY <1>1, HelperGoesOn DEF Undecided
<1>7. \A g \in Helper : Result(g)' = CHANNEL_FULL =>
         Cardinality(Took') = test'.capacity + test'.senders
  BY <1>1, <1>3, <1>4
<1>8. CASE line' = line
  <2>1. ~Create
    BY <1>2, <1>8 DEF Create, Advance
  <2>2. ReceiveNext' <=> ReceiveNext
    BY <1>2, <1>8 DEF ReceiveNext
  <2> QED
    BY <1>3, <1>5, <1>6, <1>7, <2>1, <2>2 DEF SettledInv
<1>9. CASE line' = line + 1 /\ line <= Len(program)
           /\ (program[line].do = "pthread_create" => Create)
           /\ (program[line].do = "usleep" => Usleep)
           /\ (program[line].do = "call" => pc[0] = "unlock")
  <2>1. ASSUME ReceiveNext'
        PROVE  Supplied /\ (\A h \in Helper : ~Undecided(h)) /\ ~ReceiveNext
    <3>1. PICK i : i = line + 1
      OBVIOUS
    <3>2. /\ i \in 1 .. Len(program) /\ program[i].do = "pthread_create" /\ program[i].op \in ReceiveOps
      BY <1>2, <1>9, <2>1, <3>1 DEF ReceiveNext
    <3>3. /\ i \in test.capacity + test.senders + 1 .. test.capacity + test.senders + 2 * test.receivers
          /\ i # test.capacity + test.senders + 1 => program[i - 1].do = "usleep"
      BY <1>2, <3>2 DEF ReceivesOneByOne, ReceiveOps
    <3>4. i - 1 = line
      BY <1>2, <3>1
    <3>5. CASE i # test.capacity + test.senders + 1
      <4>1. program[line].do = "usleep"
        BY <3>3, <3>4, <3>5
      <4>2. Usleep /\ ~ReceiveNext
        BY <1>9, <4>1 DEF ReceiveNext
      <4>3. line > test.capacity + test.senders
        BY <1>2, <3>1, <3>3, <3>5
      <4> QED
        BY <4>2, <4>3, AfterSleep
    <3>6. CASE i = test.capacity + test.senders + 1
      <4>1. line = test.capacity + test.senders
        BY <1>2, <3>1, <3>6
      <4>2. pc[0] = "unlock" \/ line > test.capacity
        <5> SUFFICES ASSUME line <= test.capacity
                     PROVE  pc[0] = "unlock"
          BY <1>2
        <5>1. PICK k, v, W : k = Prefix /\ v = First /\ W = Rest /\ Loads(program, k, v, W) /\ k = test.capacity
          BY <1>1, OneByOne, LoadTestFacts
        <5>2. line \in 1 .. Len(program)
          BY <1>1, <1>9, ProgramWellFormed
        <5>3. program[line].do = "call"
          BY <5>1, <5>2 DEF Loads
        <5> QED
          BY <1>9, <5>3
      <4>3. ~ReceiveNext
        <5> SUFFICES ASSUME ReceiveNext PROVE FALSE
          OBVIOUS
        <5>1. line \in 1 .. Len(program)
          BY <1>1, <1>9, ProgramWellFormed
        <5>2. line \in test.capacity + test.senders + 1 .. test.capacity + test.senders + 2 * test.receivers
          BY <1>2, <5>1 DEF ReceiveNext, ReceivesOneByOne, ReceiveOps
        <5> QED
          BY <1>2, <4>1, <5>2
      <4> QED
        BY <4>1, <4>2, <4>3, FirstReceiver
    <3> QED
      BY <3>5, <3>6
  <2>2. CASE ~Create
    BY <1>3, <1>5, <1>6, <1>7, <2>1, <2>2 DEF SettledInv
  <2>3. CASE Create
    <3>1. PICK f \in Helper : f = program[line].h
      BY <1>1, <1>2, <1>9, <2>3, CreateIsFirst DEF Create, At, program
    <3>2. /\ program[line].do = "pthread_create"
          /\ args' = [args EXCEPT ![f] = [op |-> program[line].op, v |-> program[line].v,
                                          sem |-> program[line].sem]]
          /\ helper' = [helper EXCEPT ![f] = "start"]
      BY <2>3, <3>1 DEF Create, At, statement, program
    <3>3. /\ \A g \in Helper : Undecided(g)' => Undecided(g) \/ g = f
          /\ args'[f].op = program[line].op
      BY <1>1, <3>2 DEF Undecided, ScriptTypeOK
    <3>4. CASE program[line].op \in ReceiveOps
      <4>1. ReceiveNext
        BY <1>9, <3>2, <3>4 DEF ReceiveNext
      <4> QED
        BY <1>3, <1>5, <1>7, <2>1, <3>3, <4>1 DEF SettledInv
    <3>5. CASE program[line].op \notin ReceiveOps
      <4>1. \A g \in Helper : Undecided(g)' => Undecided(g)
        <5>1. ~Undecided(f)'
          BY <3>3, <3>5 DEF Undecided
        <5> QED
          BY <3>3, <5>1
      <4> QED
        BY <1>3, <1>5, <1>7, <2>1, <4>1 DEF SettledInv
    <3> QED
      BY <3>4, <3>5
  <2> QED
    BY <2>2, <2>3
<1> QED
  BY <1>1, <1>8, <1>9, LinePassed

(* Moves keep SettledInv. *)
LEMMA SettledInvStep ==
  ASSUME ScriptInv, Move, ~failed, ~failed', Loaded, CapacityInv, SettledInv
  PROVE  SettledInv'
<1> SUFFICES ASSUME closed' = 1, test.name = "test_non_blocking_receive"
             PROVE  SettledInv'
  BY TestKept DEF SettledInv
<1>1. closed = 1
  BY ClosedStays DEF ScriptInv, IInv, TypeOK
<1>2. CASE Quiet
  BY <1>1, <1>2, SettledQuietStep
<1>3. ASSUME NEW h \in Helper, HelperDecides(h)
      PROVE  SettledInv'
  BY <1>1, <1>3, SettledHelperStep
<1>4. CASE MainDecides
  BY <1>1, <1>4, SettledMainStep
<1> QED
  BY <1>2, <1>3, <1>4 DEF Quiet

-----------------------------------------------------------------------------
(***************************************************************************)
(* test_non_blocking_receive: no message of a sender is lost or doubled.   *)
(***************************************************************************)

(* Message x is in one place at most: a slot of the channel, or with a     *)
(* receiver.                                                               *)
AtMostOnce(x) ==
  /\ \A i, j \in 1 .. buffer.size :
       Contents(buffer)[i] = x /\ Contents(buffer)[j] = x => i = j
  /\ \A h, g \in TookOf(x) : h = g
  /\ \A i \in 1 .. buffer.size : Contents(buffer)[i] = x => TookOf(x) = {}

Somewhere(x) == TookOf(x) # {} \/ \E i \in 1 .. buffer.size : Contents(buffer)[i] = x

(* It is somewhere when its sender has succeeded, and not before.          *)
OnceInv ==
  closed = 1 /\ test.name = "test_non_blocking_receive" =>
    \A h \in 1 .. test.senders :
      /\ AtMostOnce(Messages[h])
      /\ Somewhere(Messages[h]) <=> Result(h) = SUCCESS

(* Each sender has its message. *)
LEMMA SenderMessage ==
  ASSUME ScriptInv, test.name = "test_non_blocking_receive",
         NEW h \in Helper, helper[h] # "new", args[h].op \in SendOps
  PROVE  h \in 1 .. test.senders /\ args[h].v = Messages[h]
<1>1. ReceivesOneByOne(program, test.senders, test.receivers, test.capacity)
  BY OneByOne DEF ScriptInv
<1>2. PICK i \in 1 .. Len(program) :
        /\ i < line /\ Creates(program, i, h)
        /\ args[h] = [op |-> program[i].op, v |-> program[i].v, sem |-> program[i].sem]
  BY HelperArgs
<1>3. /\ program[i].do = "pthread_create" /\ program[i].h = h
      /\ args[h].op = program[i].op /\ args[h].v = program[i].v
  BY <1>2 DEF Creates
<1>4. program[i].op # "non_blocking_receive"
  BY <1>3 DEF SendOps
<1> QED
  BY <1>1, <1>3, <1>4 DEF ReceivesOneByOne

(* The messages of the senders are not that of the main thread, and there  *)
(* are three of them at most.                                              *)
LEMMA SenderMessages ==
  ASSUME ScriptTypeOK, test.name = "test_non_blocking_receive"
  PROVE  /\ 1 .. test.senders \subseteq Helper /\ First = "Message"
         /\ \A h \in 1 .. test.senders :
              /\ Messages[h] # "Message" /\ Messages[h] \in Value
              /\ \A g \in 1 .. test.senders : Messages[h] = Messages[g] => h = g
<1>1. PICK m : m = test.senders /\ m \in Nat /\ 1 .. m \subseteq Helper /\ m <= 3
  <2>1. /\ test.senders \in Nat /\ test.receivers \in Nat
        /\ 1 .. test.senders + test.receivers \subseteq Helper /\ Lines(test)
    BY SettingsOfTest, ProgramWellFormed
  <2>2. test.senders <= 3
    BY <2>1 DEF Lines, NonBlockingReceiveLines
  <2> QED
    BY <2>1, <2>2
<1>2. 1 .. m \subseteq 1 .. 3
  BY <1>1
<1> QED
  BY <1>1, <1>2, MessagesDiffer DEF First

(* A message stays where it is when neither the channel nor the receivers  *)
(* change. *)
LEMMA OnceStays ==
  ASSUME NEW x, buffer' = buffer, TookOf(x)' = TookOf(x)
  PROVE  (AtMostOnce(x) => AtMostOnce(x)') /\ (Somewhere(x)' <=> Somewhere(x))
  BY DEF AtMostOnce, Somewhere

(* So it does when another is sent. *)
LEMMA OnceBeside ==
  ASSUME ScriptInv, NEW x, NEW y, x # y, Adds(y), TookOf(x)' = TookOf(x)
  PROVE  (AtMostOnce(x) => AtMostOnce(x)') /\ (Somewhere(x)' <=> Somewhere(x))
<1>1. buffer.size \in Nat
  BY SizesType DEF ScriptInv
<1>2. ASSUME NEW i
      PROVE  i \in 1 .. buffer'.size /\ Contents(buffer')[i] = x
               <=> i \in 1 .. buffer.size /\ Contents(buffer)[i] = x
  <2>1. buffer'.size = buffer.size + 1
    BY DEF Adds
  <2>2. i \in 1 .. buffer'.size <=> i \in 1 .. buffer.size \/ i = buffer.size + 1
    BY <1>1, <2>1
  <2>3. i = buffer.size + 1 => Contents(buffer')[i] # x /\ i \notin 1 .. buffer.size
    BY <1>1 DEF Adds
  <2>4. i \in 1 .. buffer.size => Contents(buffer')[i] = Contents(buffer)[i]
    BY DEF Adds
  <2> QED
    BY <2>2, <2>3, <2>4
<1> QED
  BY <1>2 DEF AtMostOnce, Somewhere

(* A message that is sent is somewhere, in one place. *)
LEMMA OnceSent ==
  ASSUME ScriptInv, NEW x, Adds(x), TookOf(x)' = TookOf(x), ~Somewhere(x)
  PROVE  AtMostOnce(x)' /\ Somewhere(x)'
<1>1. buffer.size \in Nat /\ buffer'.size = buffer.size + 1
  BY SizesType DEF ScriptInv, Adds
<1>2. TookOf(x)' = {} /\ \A i \in 1 .. buffer.size : Contents(buffer)[i] # x
  BY DEF Somewhere
<1>3. ASSUME NEW i
      PROVE  i \in 1 .. buffer'.size /\ Contents(buffer')[i] = x <=> i = buffer.size + 1
  <2>1. i \in 1 .. buffer'.size <=> i \in 1 .. buffer.size \/ i = buffer.size + 1
    BY <1>1
  <2>2. i = buffer.size + 1 => Contents(buffer')[i] = x
    BY DEF Adds
  <2>3. i \in 1 .. buffer.size => Contents(buffer')[i] # x
    BY <1>2 DEF Adds
  <2> QED
    BY <2>1, <2>2, <2>3
<1> QED
  BY <1>2, <1>3 DEF AtMostOnce, Somewhere

(* A message that is received moves from the first slot to the receiver;   *)
(* the others keep their places, one slot further on.                      *)
LEMMA OnceReceived ==
  ASSUME ScriptInv, NEW x, NEW y, NEW h, Removes(y), AtMostOnce(x),
         TookOf(x)' = IF y = x THEN TookOf(x) \cup {h} ELSE TookOf(x)
  PROVE  AtMostOnce(x)' /\ (Somewhere(x)' <=> Somewhere(x))
<1>1. /\ buffer.size \in Nat /\ buffer.size > 0 /\ buffer'.size = buffer.size - 1
      /\ y = Contents(buffer)[1] /\ 1 \in 1 .. buffer.size
  BY SizesType DEF ScriptInv, Removes
<1>2. ASSUME NEW i \in 1 .. buffer'.size
      PROVE  /\ i + 1 \in 1 .. buffer.size /\ i + 1 # 1
             /\ Contents(buffer')[i] = Contents(buffer)[i + 1]
  <2>1. i \in 1 .. buffer.size - 1
    BY <1>1
  <2>2. i + 1 \in 1 .. buffer.size /\ i + 1 # 1
    BY <1>1, <2>1
  <2> QED
    BY <2>1, <2>2 DEF Removes
<1>3. ASSUME NEW i \in 1 .. buffer.size, i # 1
      PROVE  \E j \in 1 .. buffer'.size : i = j + 1
  <2>1. i - 1 \in 1 .. buffer'.size /\ i = (i - 1) + 1
    BY <1>1, <1>3
  <2> QED
    BY <2>1
<1>4. CASE y = x
  <2>1. TookOf(x) = {} /\ TookOf(x)' = {h}
    BY <1>1, <1>4 DEF AtMostOnce
  <2>2. \A i \in 1 .. buffer'.size : Contents(buffer')[i] # x
    BY <1>1, <1>2, <1>4 DEF AtMostOnce
  <2> QED
    BY <1>1, <1>4, <2>1, <2>2 DEF AtMostOnce, Somewhere
<1>5. CASE y # x
  <2>1. TookOf(x)' = TookOf(x)
    BY <1>5
  <2>2. \A i, j \in 1 .. buffer'.size :
          Contents(buffer')[i] = x /\ Contents(buffer')[j] = x => i = j
    <3> SUFFICES ASSUME NEW i \in 1 .. buffer'.size, NEW j \in 1 .. buffer'.size,
                        Contents(buffer')[i] = x, Contents(buffer')[j] = x
                 PROVE  i = j
      OBVIOUS
    <3>1. i + 1 = j + 1
      BY <1>2 DEF AtMostOnce
    <3> QED
      BY <1>1, <3>1
  <2>3. \A i \in 1 .. buffer'.size : Contents(buffer')[i] = x => TookOf(x) = {}
    BY <1>2 DEF AtMostOnce
  <2>4. (\E i \in 1 .. buffer'.size : Contents(buffer')[i] = x)
          <=> \E i \in 1 .. buffer.size : Contents(buffer)[i] = x
    <3>1. ASSUME NEW i \in 1 .. buffer'.size, Contents(buffer')[i] = x
          PROVE  \E j \in 1 .. buffer.size : Contents(buffer)[j] = x
      BY <1>2, <3>1
    <3>2. ASSUME NEW i \in 1 .. buffer.size, Contents(buffer)[i] = x
          PROVE  \E j \in 1 .. buffer'.size : Contents(buffer')[j] = x
      <4>1. i # 1
        BY <1>1, <1>5, <3>2
      <4>2. PICK j \in 1 .. buffer'.size : i = j + 1
        BY <1>3, <4>1
      <4> QED
        BY <1>2, <3>2, <4>2
    <3> QED
      BY <3>1, <3>2
  <2> QED
    BY <2>1, <2>2, <2>3, <2>4 DEF AtMostOnce, Somewhere
<1> QED
  BY <1>4, <1>5

(* A receiver is not one of the senders. *)
LEMMA ReceiverIsNoSender ==
  ASSUME ScriptInv, test.name = "test_non_blocking_receive",
         NEW h \in Helper, helper[h] # "new", args[h].op \in ReceiveOps
  PROVE  h \notin 1 .. test.senders
<1>1. test.senders \in Nat /\ test.receivers \in Nat
  BY SettingsOfTest DEF ScriptInv
<1>2. h \in test.senders + 1 .. test.senders + test.receivers
  BY LoadTestCalls DEF ReceiveOps
<1> QED
  BY <1>1, <1>2

(* A helper's decision keeps OnceInv. *)
LEMMA OnceHelperStep ==
  ASSUME ScriptInv, closed = 1, test.name = "test_non_blocking_receive", OnceInv,
         NEW h \in Helper, HelperDecides(h), NEW g \in 1 .. test.senders
  PROVE  /\ AtMostOnce(Messages[g])'
         /\ (Somewhere(Messages[g])' <=> Result(g)' = SUCCESS)
<1>1. /\ helper[h] # "new" /\ Result(h) = GEN_ERROR /\ args' = args
      /\ \A f \in Helper \ {h} : Result(f)' = Result(f) /\ Message(f)' = Message(f)
  BY HelperDecidesFrame DEF SameResult
<1>2. PICK x : x = Messages[g]
  OBVIOUS
<1>3. /\ g \in Helper /\ AtMostOnce(x) /\ (Somewhere(x) <=> Result(g) = SUCCESS)
      /\ \A f \in 1 .. test.senders : Messages[f] = x => f = g
  BY <1>2, SenderMessages DEF OnceInv, ScriptInv
<1>4. GEN_ERROR # SUCCESS /\ CHANNEL_FULL # SUCCESS
  BY DEF GEN_ERROR, SUCCESS, CHANNEL_FULL
<1>5. CASE Result(h)' = CHANNEL_FULL /\ buffer' = buffer
  <2>1. Took' = Took
    BY <1>1, <1>4, <1>5 DEF Took
  <2>2. TookOf(x)' = TookOf(x)
    BY <1>1, <1>4, <2>1 DEF TookOf, Took
  <2>3. Result(g)' = SUCCESS <=> Result(g) = SUCCESS
    BY <1>1, <1>3, <1>4, <1>5
  <2> QED
    BY <1>2, <1>3, <1>5, <2>2, <2>3, OnceStays
<1>6. CASE Result(h)' = SUCCESS /\ args[h].op \in SendOps /\ Adds(args[h].v)
  <2>1. h \in 1 .. test.senders /\ args[h].v = Messages[h]
    BY <1>1, <1>6, SenderMessage
  <2>2. TookOf(x)' = TookOf(x)
    BY <1>6, GaveOne
  <2>3. CASE h = g
    BY <1>1, <1>2, <1>3, <1>4, <1>6, <2>1, <2>2, <2>3, OnceSent
  <2>4. CASE h # g
    <3>1. Messages[h] # x /\ Result(g)' = Result(g)
      BY <1>1, <1>3, <2>1, <2>4
    <3> QED
      BY <1>2, <1>3, <1>6, <2>1, <2>2, <3>1, OnceBeside
  <2> QED
    BY <2>3, <2>4
<1>7. CASE Result(h)' = SUCCESS /\ args[h].op \in ReceiveOps /\ Removes(Message(h)')
  <2>1. /\ Took' = Took \cup {h} /\ h \notin Took
        /\ \A f \in Took : Message(f)' = Message(f)
    BY <1>7, TookOne
  <2>2. PICK y : y = Message(h)'
    OBVIOUS
  <2>3. TookOf(x)' = IF y = x THEN TookOf(x) \cup {h} ELSE TookOf(x)
    BY <2>1, <2>2 DEF TookOf
  <2>4. AtMostOnce(x)' /\ (Somewhere(x)' <=> Somewhere(x))
    BY <1>3, <1>7, <2>2, <2>3, OnceReceived
  <2>5. h # g
    BY <1>1, <1>7, ReceiverIsNoSender
  <2> QED
    BY <1>1, <1>2, <1>3, <2>4, <2>5
<1> QED
  BY <1>5, <1>6, <1>7, HelperDecided

(* Moves keep OnceInv. *)
LEMMA OnceInvStep ==
  ASSUME ScriptInv, Move, ~failed', OnceInv
  PROVE  OnceInv'
<1> SUFFICES ASSUME closed' = 1, test.name = "test_non_blocking_receive",
                    NEW g \in 1 .. test.senders
             PROVE  /\ AtMostOnce(Messages[g])'
                    /\ (Somewhere(Messages[g])' <=> Result(g)' = SUCCESS)
  BY TestKept DEF OnceInv
<1>1. ScriptTypeOK /\ closed = 1
  BY ClosedStays DEF ScriptInv, IInv, TypeOK
<1>2. PICK x : x = Messages[g]
  OBVIOUS
<1>3. /\ g \in Helper /\ AtMostOnce(x) /\ (Somewhere(x) <=> Result(g) = SUCCESS)
      /\ First = "Message" /\ x # First
  BY <1>1, <1>2, SenderMessages DEF OnceInv
<1>4. CASE Quiet
  <2>1. buffer' = buffer /\ \A f \in Helper : SameResult(f)
    BY <1>1, <1>4, QuietStep
  <2>2. TookOf(x)' = TookOf(x)
    BY <2>1, TookKept
  <2>3. Result(g)' = Result(g)
    BY <1>3, <2>1 DEF SameResult
  <2> QED
    BY <1>2, <1>3, <2>1, <2>2, <2>3, OnceStays
<1>5. ASSUME NEW h \in Helper, HelperDecides(h)
      PROVE  /\ AtMostOnce(Messages[g])'
             /\ (Somewhere(Messages[g])' <=> Result(g)' = SUCCESS)
  BY <1>1, <1>5, OnceHelperStep
<1>6. CASE MainDecides
  <2>1. PICK k, v, W : k = Prefix /\ v = First /\ W = Rest /\ Loads(program, k, v, W)
    BY <1>1, LoadTestFacts DEF LoadTests
  <2>2. Adds(v)
    BY <1>1, <1>6, <2>1, LoadMain
  <2>3. TookOf(x)' = TookOf(x)
    BY <1>6, TookKeptByMain
  <2>4. Result(g)' = Result(g)
    BY <1>3, <1>6, MainDecidesFrame DEF SameResult
  <2> QED
    BY <1>2, <1>3, <2>1, <2>2, <2>3, <2>4, OnceBeside
<1> QED
  BY <1>4, <1>5, <1>6 DEF Quiet

-----------------------------------------------------------------------------
(***************************************************************************)
(* test_send_correctness.                                                  *)
(***************************************************************************)

(* The calls that the main thread has carried out change when one is       *)
(* decided, and not otherwise.                                             *)
LEMMA QuietPast ==
  ASSUME ScriptInv, Move, ~MainDecides, ~failed', NEW i \in 1 .. Len(program),
         program[i].do = "call"
  PROVE  Past(i)' <=> Past(i)
<1>1. IInv /\ ScriptTypeOK /\ MainInv /\ HelperInv /\ line \in Nat /\ i \in Nat
  BY ProgramWellFormed DEF ScriptInv
<1>2. CASE line' = line
  BY <1>1, <1>2, PastStep
<1>3. CASE line' = line + 1 /\ (program[line].do = "call" => pc[0] = "unlock")
  <2>1. Past(i)' <=> Past(i) \/ i = line
    BY <1>1, <1>3, PastStep
  <2>2. i = line => Past(i)
    BY <1>3 DEF Past
  <2> QED
    BY <2>1, <2>2
<1> QED
  BY <1>1, <1>2, <1>3, LinePassed

(* A call that is exited on an open channel has succeeded. *)
LEMMA ExitedSucceeded ==
  ASSUME ScriptInv, closed = 1, NEW h \in Helper, args[h].op \in {"send", "receive"},
         helper[h] \in {"post", "exited"}
  PROVE  Result(h) = SUCCESS /\ out[h] = SUCCESS /\ got[h] = Message(h)
<1>1. ResultInv /\ HelperInv
  BY DEF ScriptInv
<1>2. pc[h] = "idle"
  BY <1>1 DEF HelperInv
<1>3. Result(h) = SUCCESS
  BY <1>1 DEF ResultInv
<1> QED
  BY <1>2, <1>3 DEF Result, Message

Succeeds(h) == IF Result(h) = SUCCESS THEN 1 ELSE 0
Did(i) == IF Past(i) THEN 1 ELSE 0

SendTest == test.name = "test_send_correctness"

(* The main thread has waited for the first helper, and for the second.    *)
SendWaits ==
  SendTest =>
    /\ line > 2 => helper[1] = "exited"
    /\ line > 7 => helper[2] = "exited"

(* The three helpers send, the main thread receives three times and then   *)
(* sends twice; the third helper has to wait for the first receive.        *)
SendHeld ==
  /\ buffer.size + Did(18) + Did(22) + Did(23) =
       Succeeds(1) + Succeeds(2) + Succeeds(3) + Did(24) + Did(25)
  /\ ~Past(18) =>
       /\ Result(3) # SUCCESS /\ buffer.next = 0
       /\ Result(2) = SUCCESS => Result(1) = SUCCESS /\ Contents(buffer)[2] = "Message2"
       /\ Result(1) = SUCCESS => Contents(buffer)[1] = "Message1"
  /\ Past(24) => Contents(buffer)[1] = NULL
  /\ Past(25) => Contents(buffer)[2] = NULL

SendInv == closed = 1 /\ SendTest => SendHeld

(* The statements of the test, and its helpers. *)
LEMMA SendTestFacts ==
  ASSUME ScriptTypeOK, SendTest
  PROVE  /\ SendCreates(program) /\ SendCalls(program) /\ SendAsserts(program) /\ SendPoints(program)
         /\ 1 \in Helper /\ 2 \in Helper /\ 3 \in Helper /\ test.capacity = 2
<1>1. Lines(test) /\ test \in Programs
  BY ProgramWellFormed DEF ScriptTypeOK
<1>2. SendCorrectnessLines(program)
  BY <1>1 DEF Lines, SendTest, program
<1>3. test.capacity = 2 /\ test.senders = 3 /\ test.receivers = 0
  BY <1>1, ProgramAssumption DEF SendTest
<1>4. 1 .. 3 \subseteq Helper
  BY <1>1, <1>3, ProgramType
<1> QED
  BY <1>2, <1>3, <1>4, SendStatements

(* The helpers that run, and what they send. *)
LEMMA SendHelpers ==
  ASSUME ScriptInv, SendTest, NEW h \in Helper, helper[h] # "new"
  PROVE  /\ args[h].op = "send" /\ args[h].sem
         /\ \/ h = 1 /\ line > 1 /\ args[h].v = "Message1"
            \/ h = 2 /\ line > 6 /\ args[h].v = "Message2"
            \/ h = 3 /\ line > 12 /\ args[h].v = "Message3"
<1>1. ScriptTypeOK
  BY DEF ScriptInv
<1>2. PICK i \in 1 .. Len(program) :
           /\ i < line /\ Creates(program, i, h)
           /\ args[h] = [op |-> program[i].op, v |-> program[i].v, sem |-> program[i].sem]
  BY HelperArgs
<1>3. SendCreates(program)
  BY <1>1, SendTestFacts
<1>4. /\ program[i].op = "send" /\ program[i].sem = TRUE
      /\ \/ i = 1 /\ h = 1 /\ program[i].v = "Message1"
         \/ i = 6 /\ h = 2 /\ program[i].v = "Message2"
         \/ i = 12 /\ h = 3 /\ program[i].v = "Message3"
  BY <1>2, <1>3 DEF SendCreates, Creates
<1> QED
  BY <1>2, <1>4

(* Moves keep SendWaits. *)
LEMMA SendWaitsStep ==
  ASSUME ScriptInv, Move, ~failed', SendWaits
  PROVE  SendWaits'
<1> SUFFICES ASSUME SendTest
             PROVE  (line' > 2 => helper'[1] = "exited") /\ (line' > 7 => helper'[2] = "exited")
  BY TestKept DEF SendWaits, SendTest
<1>1. /\ IInv /\ ScriptTypeOK /\ MainInv /\ HelperInv /\ CreatedInv /\ SemInv
      /\ line \in Nat /\ done \in Nat
  BY ProgramWellFormed DEF ScriptInv, ScriptTypeOK
<1>2. /\ SendPoints(program) /\ 1 \in Helper /\ 2 \in Helper
  BY <1>1, SendTestFacts
<1>3. \A h \in Helper : helper[h] = "exited" => helper'[h] = "exited"
  BY <1>1, HelperGoesOn
<1>4. /\ line > 2 => helper[1] = "exited"
      /\ line > 7 => helper[2] = "exited"
  BY DEF SendWaits
<1>5. \/ line' = line
      \/ line' = line + 1 /\ line <= Len(program) /\ (program[line].do = "sem_wait" => done > 0)
  BY <1>1, LinePassed DEF SemWait
<1>6. \A i \in 1 .. Len(program) : program[i].do = "sem_wait" <=> i \in {2, 7}
  BY <1>2 DEF SendPoints
<1>7. /\ IsFiniteSet(Posted) /\ Cardinality(Posted) \in Nat
      /\ IsFiniteSet(Waited) /\ Cardinality(Waited) \in Nat
      /\ Cardinality(Posted) = done + Cardinality(Waited)
  BY <1>1, PostedFinite DEF SemInv
<1>8. CASE line = 2 /\ done > 0
  <2>1. Posted # {}
    BY <1>1, <1>7, <1>8, FS_EmptySet
  <2>2. PICK h \in Posted : TRUE
    BY <2>1
  <2>3. h \in Helper /\ helper[h] = "exited"
    BY <2>2 DEF Posted
  <2>4. h = 1
    BY <1>8, <2>3, SendHelpers
  <2> QED
    BY <1>3, <1>4, <1>5, <1>8, <2>3, <2>4
<1>9. CASE line = 7 /\ done > 0
  <2>1. 2 \in Waited
    BY <1>2, <1>6, <1>9 DEF Waited, SendPoints
  <2>2. Cardinality(Waited) # 0
    BY <1>7, <2>1, FS_EmptySet
  <2>3. Cardinality(Posted) >= 2
    BY <1>1, <1>7, <1>9, <2>2
  <2>4. \A h \in Posted : h = 1 \/ h = 2
    BY <1>9, SendHelpers DEF Posted
  <2>5. ASSUME 2 \notin Posted PROVE FALSE
    <3>1. Posted \in SUBSET {1}
      BY <2>4, <2>5
    <3>2. IsFiniteSet({1}) /\ Cardinality({1}) = 1
      BY FS_Singleton
    <3>3. Cardinality(Posted) <= 1
      BY <3>1, <3>2, FS_Subset
    <3> QED
      BY <1>7, <2>3, <3>3
  <2>6. helper[2] = "exited"
    BY <2>5 DEF Posted
  <2> QED
    BY <1>2, <1>3, <1>4, <1>5, <1>9, <2>6
<1>10. CASE line \notin {2, 7}
  BY <1>1, <1>2, <1>3, <1>4, <1>5, <1>10
<1>11. (line = 2 \/ line = 7) /\ ~(done > 0) => line' = line
  BY <1>2, <1>5, <1>6 DEF SendPoints
<1> QED
  BY <1>1, <1>2, <1>3, <1>4, <1>8, <1>9, <1>10, <1>11

(* What the main thread has carried out, it has carried out in order. *)
LEMMA PastOrder ==
  ASSUME ScriptTypeOK, NEW i \in Nat, NEW j \in Nat, i < j, Past(j)
  PROVE  Past(i)
  BY ProgramWellFormed DEF Past

(* The sender that is decided has to be the next one. *)
LEMMA SendHelperStep ==
  ASSUME ScriptInv, SendTest, SendWaits, CapacityInv, closed = 1, SendHeld,
         NEW h \in Helper, HelperDecides(h), ~failed'
  PROVE  SendHeld'
<1>1. IInv /\ ScriptTypeOK /\ MainInv /\ HelperInv /\ JoinedInv
  BY DEF ScriptInv
<1>2. /\ SendCalls(program) /\ SendPoints(program) /\ 1 \in Helper /\ 2 \in Helper /\ 3 \in Helper
      /\ test.capacity = 2 /\ line \in Nat
  BY <1>1, SendTestFacts, ProgramWellFormed
<1>3. /\ Move /\ ~MainDecides /\ line' = line /\ pc'[0] = pc[0]
      /\ helper[h] = "call" /\ Result(h) = GEN_ERROR
      /\ \A g \in Helper \ {h} : Result(g)' = Result(g)
  BY HelperDecidesFrame DEF SameResult
<1>4. \/ h = 1 /\ args[h].v = "Message1"
      \/ h = 2 /\ line > 6 /\ args[h].v = "Message2"
      \/ h = 3 /\ line > 12 /\ args[h].v = "Message3"
  BY <1>3, SendHelpers
<1>5. args[h].op = "send"
  BY <1>3, SendHelpers
<1>6. Result(h)' = SUCCESS /\ Adds(args[h].v)
  BY <1>5, HelperDecided DEF ReceiveOps
<1>7. /\ line > 2 => helper[1] = "exited" /\ Result(1) = SUCCESS
      /\ line > 7 => helper[2] = "exited" /\ Result(2) = SUCCESS
  <2>1. /\ line > 2 => helper[1] = "exited"
        /\ line > 7 => helper[2] = "exited"
    BY DEF SendWaits
  <2> QED
    BY <1>2, <2>1, SendHelpers, ExitedSucceeded
<1>8. ~Past(22) /\ ~Past(23) /\ ~Past(24) /\ ~Past(25)
  <2>1. ASSUME line > 21 PROVE FALSE
    <3>1. 19 \in 1 .. line - 1 /\ 20 \in 1 .. line - 1 /\ 21 \in 1 .. line - 1
      BY <1>2, <2>1
    <3>2. helper[1] = "exited" /\ helper[2] = "exited" /\ helper[3] = "exited"
      BY <1>1, <1>2, <3>1 DEF JoinedInv, SendPoints
    <3> QED
      BY <1>3, <1>4, <3>2
  <2> QED
    BY <1>2, <2>1 DEF Past
<1>9. \A i : Past(i)' <=> Past(i)
  BY <1>3 DEF Past
<1>10. PICK s : s = buffer.size /\ s \in Nat /\ s < 2
  <2>1. buffer.size < buffer.capacity /\ buffer.capacity = 2
    BY <1>2, <1>6 DEF Adds, CapacityInv
  <2> QED
    BY <1>1, <2>1, SizesType
<1>11. GEN_ERROR # SUCCESS
  BY DEF GEN_ERROR, SUCCESS
<1>12. buffer.size + Did(18) = Succeeds(1) + Succeeds(2) + Succeeds(3)
  <2>1. Did(18) \in Nat /\ Did(22) = 0 /\ Did(23) = 0 /\ Did(24) = 0 /\ Did(25) = 0
    BY <1>8 DEF Did
  <2>2. Succeeds(1) \in Nat /\ Succeeds(2) \in Nat /\ Succeeds(3) \in Nat
    BY DEF Succeeds
  <2> QED
    BY <1>10, <2>1, <2>2 DEF SendHeld
<1>13. /\ buffer'.size = buffer.size + 1
       /\ buffer'.next = buffer.next
       /\ \A i \in 1 .. buffer.size : Contents(buffer')[i] = Contents(buffer)[i]
       /\ \A i : i = buffer.size + 1 => Contents(buffer')[i] = args[h].v
  BY <1>6 DEF Adds
<1>14. /\ Succeeds(1)' + Succeeds(2)' + Succeeds(3)' = Succeeds(1) + Succeeds(2) + Succeeds(3) + 1
  <2>1. Succeeds(h)' = 1 /\ Succeeds(h) = 0
    BY <1>3, <1>6, <1>11 DEF Succeeds
  <2>2. \A g \in Helper \ {h} : Succeeds(g)' = Succeeds(g)
    BY <1>3 DEF Succeeds
  <2>3. Succeeds(1) \in Nat /\ Succeeds(2) \in Nat /\ Succeeds(3) \in Nat
    BY DEF Succeeds
  <2> QED
    BY <1>2, <1>4, <2>1, <2>2, <2>3
<1>15. buffer'.size + Did(18)' + Did(22)' + Did(23)' =
         Succeeds(1)' + Succeeds(2)' + Succeeds(3)' + Did(24)' + Did(25)'
  <2>1. /\ Did(18)' = Did(18) /\ Did(22)' = 0 /\ Did(23)' = 0 /\ Did(24)' = 0 /\ Did(25)' = 0
        /\ Did(18) \in Nat
    BY <1>8, <1>9 DEF Did
  <2>2. Succeeds(1) \in Nat /\ Succeeds(2) \in Nat /\ Succeeds(3) \in Nat
    BY DEF Succeeds
  <2> QED
    BY <1>10, <1>12, <1>13, <1>14, <2>1, <2>2
<1>16. ASSUME ~Past(18)
       PROVE  /\ Result(3)' # SUCCESS /\ buffer'.next = 0
              /\ Result(2)' = SUCCESS => Result(1)' = SUCCESS /\ Contents(buffer')[2] = "Message2"
              /\ Result(1)' = SUCCESS => Contents(buffer')[1] = "Message1"
  <2>1. /\ Result(3) # SUCCESS /\ buffer.next = 0
        /\ Result(2) = SUCCESS => Result(1) = SUCCESS /\ Contents(buffer)[2] = "Message2"
        /\ Result(1) = SUCCESS => Contents(buffer)[1] = "Message1"
    BY <1>16 DEF SendHeld
  <2>2. Did(18) = 0 /\ Succeeds(3) = 0
    BY <1>16, <2>1 DEF Did, Succeeds
  <2>3. CASE h = 1
    <3>1. Succeeds(1) = 0 /\ Succeeds(2) = 0
      BY <1>3, <1>11, <2>1, <2>3 DEF Succeeds
    <3>2. s = 0
      BY <1>10, <1>12, <2>2, <3>1
    <3>3. Contents(buffer')[1] = "Message1"
      BY <1>4, <1>10, <1>13, <2>3, <3>2
    <3> QED
      BY <1>2, <1>3, <1>11, <1>13, <2>1, <2>3, <3>3
  <2>4. CASE h = 2
    <3>1. Result(1) = SUCCESS
      BY <1>2, <1>4, <1>7, <2>4
    <3>2. Succeeds(1) = 1 /\ Succeeds(2) = 0
      BY <1>3, <1>11, <2>4, <3>1 DEF Succeeds
    <3>3. s = 1
      BY <1>10, <1>12, <2>2, <3>2
    <3>4. Contents(buffer')[2] = "Message2" /\ Contents(buffer')[1] = Contents(buffer)[1]
      BY <1>4, <1>10, <1>13, <2>4, <3>3
    <3> QED
      BY <1>2, <1>3, <1>13, <2>1, <2>4, <3>1, <3>4
  <2>5. CASE h = 3
    <3>1. Succeeds(1) = 1 /\ Succeeds(2) = 1
      BY <1>2, <1>4, <1>7, <2>5 DEF Succeeds
    <3>2. s = 2
      BY <1>10, <1>12, <2>2, <3>1
    <3> QED
      BY <1>10, <3>2
  <2> QED
    BY <1>4, <2>3, <2>4, <2>5
<1>17. ~Past(24)' /\ ~Past(25)' /\ (Past(18)' <=> Past(18))
  BY <1>8, <1>9
<1> QED
  BY <1>15, <1>16, <1>17 DEF SendHeld, Succeeds, Did

(* When all helpers have been joined, they have sent their messages. *)
LEMMA SendJoined ==
  ASSUME ScriptInv, SendTest, closed = 1, line > 21
  PROVE  \A h \in {1, 2, 3} : /\ helper[h] = "exited" /\ Result(h) = SUCCESS
<1>1. ScriptTypeOK /\ JoinedInv
  BY DEF ScriptInv
<1>2. SendPoints(program) /\ 1 \in Helper /\ 2 \in Helper /\ 3 \in Helper /\ line \in Nat
  BY <1>1, SendTestFacts, ProgramWellFormed
<1>3. 19 \in 1 .. line - 1 /\ 20 \in 1 .. line - 1 /\ 21 \in 1 .. line - 1
  BY <1>2
<1>4. helper[1] = "exited" /\ helper[2] = "exited" /\ helper[3] = "exited"
  BY <1>1, <1>2, <1>3 DEF JoinedInv, SendPoints
<1>5. ASSUME NEW h \in Helper, helper[h] = "exited"
      PROVE  Result(h) = SUCCESS
  <2>1. args[h].op = "send"
    BY <1>5, SendHelpers
  <2> QED
    BY <1>5, <2>1, ExitedSucceeded
<1> QED
  BY <1>2, <1>4, <1>5

(* A call of the main thread that is decided. *)
LEMMA SendMainStep ==
  ASSUME ScriptInv, SendTest, closed = 1, closed' = 1, SendHeld, MainDecides, ~failed'
  PROVE  SendHeld'
<1>1. IInv /\ ScriptTypeOK /\ MainInv /\ HelperInv
  BY DEF ScriptInv
<1>2. SendCalls(program) /\ line \in Nat /\ 1 \in Helper /\ 2 \in Helper /\ 3 \in Helper
  BY <1>1, SendTestFacts, ProgramWellFormed
<1>3. Move /\ \A g \in Helper : Result(g)' = Result(g)
  BY MainDecidesFrame DEF SameResult
<1>4. /\ line \in 1 .. Len(program) /\ program[line].do = "call"
      /\ \/ program[line].op \in {"close", "non_blocking_send", "non_blocking_receive"}
         \/ program[line].op \in SendOps /\ Adds(program[line].v)
         \/ program[line].op \in ReceiveOps /\ Removes(data'[0])
  BY MainDecided
<1>5. program[line].op # "close"
  <2>1. ASSUME program[line].op = "close" PROVE FALSE
    <3>1. op[0] = "close" /\ pc[0] = "body" /\ Outcome(0)
      BY <1>1, <1>4, <2>1 DEF MainDecides, Decides, MainInv
    <3>2. Closed(0)
      BY <3>1 DEF Outcome, Refused, FoundFull, FoundEmpty, Added, Removed, SendOps, ReceiveOps
    <3> QED
      BY <3>2 DEF Closed
  <2> QED
    BY <2>1
<1>6. \/ line \in {18, 22, 23} /\ Removes(data'[0])
      \/ line \in {24, 25} /\ Adds(NULL)
  BY <1>2, <1>4, <1>5 DEF SendCalls, SendOps, ReceiveOps
<1>7. \A i \in Nat : Past(i) <=> i < line
  <2>1. pc[0] = "body"
    BY MainDecidesFrame
  <2> QED
    BY <1>2, <2>1 DEF Past
<1>8. \A i \in Nat : Past(i)' <=> i <= line
  BY <1>1, <1>2, <1>3, <1>7, PastStep
<1>9. buffer.size \in Nat
  BY <1>1, SizesType
<1>10. /\ Succeeds(1)' = Succeeds(1) /\ Succeeds(2)' = Succeeds(2) /\ Succeeds(3)' = Succeeds(3)
       /\ Succeeds(1) \in Nat /\ Succeeds(2) \in Nat /\ Succeeds(3) \in Nat
  BY <1>2, <1>3 DEF Succeeds
<1>11. buffer.size + Did(18) + Did(22) + Did(23) =
         Succeeds(1) + Succeeds(2) + Succeeds(3) + Did(24) + Did(25)
  BY DEF SendHeld
<1>12. \A i \in Nat : Did(i) = (IF i < line THEN 1 ELSE 0) /\ Did(i)' = (IF i <= line THEN 1 ELSE 0)
  BY <1>7, <1>8 DEF Did
<1>13. Past(18)'
  BY <1>6, <1>8
<1>14. CASE line \in {18, 22, 23} /\ Removes(data'[0])
  <2>1. buffer'.size = buffer.size - 1
    BY <1>14 DEF Removes
  <2>2. ~Past(24)' /\ ~Past(25)'
    BY <1>8, <1>14
  <2>3. buffer'.size + Did(18)' + Did(22)' + Did(23)' =
         Succeeds(1)' + Succeeds(2)' + Succeeds(3)' + Did(24)' + Did(25)'
    BY <1>9, <1>10, <1>11, <1>12, <1>14, <2>1
  <2> QED
    BY <1>13, <2>2, <2>3 DEF SendHeld, Did, Succeeds
<1>15. CASE line \in {24, 25} /\ Adds(NULL)
  <2>1. /\ buffer'.size = buffer.size + 1
        /\ \A i \in 1 .. buffer.size : Contents(buffer')[i] = Contents(buffer)[i]
        /\ \A i : i = buffer.size + 1 => Contents(buffer')[i] = NULL
    BY <1>15 DEF Adds
  <2>2. Succeeds(1) = 1 /\ Succeeds(2) = 1 /\ Succeeds(3) = 1
    BY <1>15, SendJoined DEF Succeeds
  <2>3. buffer'.size + Did(18)' + Did(22)' + Did(23)' =
         Succeeds(1)' + Succeeds(2)' + Succeeds(3)' + Did(24)' + Did(25)'
    BY <1>9, <1>10, <1>11, <1>12, <1>15, <2>1
  <2>4. CASE line = 24
    <3>1. buffer.size = 0
      BY <1>9, <1>11, <1>12, <2>2, <2>4
    <3>2. Contents(buffer')[1] = NULL /\ ~Past(25)'
      BY <1>8, <2>1, <2>4, <3>1
    <3> QED
      BY <1>13, <2>3, <3>2 DEF SendHeld, Did, Succeeds
  <2>5. CASE line = 25
    <3>1. buffer.size = 1
      BY <1>9, <1>11, <1>12, <2>2, <2>5
    <3>2. Past(24)
      BY <1>7, <2>5
    <3>3. Contents(buffer')[2] = NULL /\ Contents(buffer')[1] = NULL
      BY <2>1, <3>1, <3>2 DEF SendHeld
    <3> QED
      BY <1>13, <2>3, <3>3 DEF SendHeld, Did, Succeeds
  <2> QED
    BY <1>15, <2>4, <2>5
<1> QED
  BY <1>6, <1>14, <1>15

(* Moves keep SendInv. *)
LEMMA SendInvStep ==
  ASSUME ScriptInv, Move, ~failed', SendWaits, CapacityInv, SendInv
  PROVE  SendInv'
<1> SUFFICES ASSUME closed' = 1, SendTest
             PROVE  SendHeld'
  BY TestKept DEF SendInv, SendTest
<1>1. closed = 1
  BY ClosedStays DEF ScriptInv, IInv, TypeOK
<1>2. SendHeld
  BY <1>1 DEF SendInv
<1>3. CASE Quiet
  <2>1. ScriptTypeOK
    BY DEF ScriptInv
  <2>2. /\ SendPoints(program) /\ 1 \in Helper /\ 2 \in Helper /\ 3 \in Helper
    BY <2>1, SendTestFacts
  <2>3. buffer' = buffer /\ \A g \in Helper : Result(g)' = Result(g)
    BY <1>1, <1>3, QuietStep DEF SameResult
  <2>4. \A i \in {18, 22, 23, 24, 25} : i \in 1 .. Len(program) /\ program[i].do = "call"
    BY <2>2 DEF SendPoints
  <2>5. \A i \in {18, 22, 23, 24, 25} : Past(i)' <=> Past(i)
    BY <1>3, <2>4, QuietPast DEF Quiet
  <2>6. \A i \in {18, 22, 23, 24, 25} : Did(i)' = Did(i)
    BY <2>5 DEF Did
  <2>7. \A g \in {1, 2, 3} : Succeeds(g)' = Succeeds(g) /\ Result(g)' = Result(g)
    BY <2>2, <2>3 DEF Succeeds
  <2>8. buffer'.size + Did(18)' + Did(22)' + Did(23)' =
         Succeeds(1)' + Succeeds(2)' + Succeeds(3)' + Did(24)' + Did(25)'
    BY <1>2, <2>3, <2>6, <2>7 DEF SendHeld
  <2>9. ~Past(18)' =>
       /\ Result(3)' # SUCCESS /\ buffer'.next = 0
       /\ Result(2)' = SUCCESS => Result(1)' = SUCCESS /\ Contents(buffer')[2] = "Message2"
       /\ Result(1)' = SUCCESS => Contents(buffer')[1] = "Message1"
    BY <1>2, <2>3, <2>5, <2>7 DEF SendHeld
  <2>10. /\ Past(24)' => Contents(buffer')[1] = NULL
         /\ Past(25)' => Contents(buffer')[2] = NULL
    BY <1>2, <2>3, <2>5 DEF SendHeld
  <2> QED
    BY <2>8, <2>9, <2>10 DEF SendHeld, Did, Succeeds
<1>4. ASSUME NEW h \in Helper, HelperDecides(h)
      PROVE  SendHeld'
  BY <1>1, <1>2, <1>4, SendHelperStep
<1>5. CASE MainDecides
  BY <1>1, <1>2, <1>5, SendMainStep
<1> QED
  BY <1>3, <1>4, <1>5 DEF Quiet

-----------------------------------------------------------------------------
(***************************************************************************)
(* The asserts.                                                            *)
(***************************************************************************)
OutOf(x) == {h \in Created : out[h] = x}
GotOf(x) == {h \in Created : got[h] = x}

(* What an assert counts. *)
LEMMA Tallies ==
  ASSUME NEW x
  PROVE  /\ Tally("out", x) = Cardinality(OutOf(x))
         /\ Tally("data", x) = Cardinality(GotOf(x))
         /\ Tally("size", x) = buffer.size
         /\ Tally("slot", x) = buffer.data[x]
  BY DEF Tally, buffer_current_size, OutOf, GotOf

(* The assert that the main thread is at holds. *)
Holds == Tally(program[line].what, program[line].x) \in program[line].allowed

(* Where the contents are in a buffer of two slots. *)
LEMMA TwoSlots ==
  ASSUME IInv, buffer.capacity = 2
  PROVE  /\ buffer.next = 0 /\ buffer.size >= 1 => buffer.data[0] = Contents(buffer)[1]
         /\ buffer.size = 2 =>
              /\ buffer.next = 0 =>
                   buffer.data[0] = Contents(buffer)[1] /\ buffer.data[1] = Contents(buffer)[2]
              /\ buffer.next # 0 =>
                   buffer.data[0] = Contents(buffer)[2] /\ buffer.data[1] = Contents(buffer)[1]
<1>1. BufferOK(buffer)
  BY DEF IInv, TypeOK
<1>2. \A i \in 1 .. buffer.size : Contents(buffer)[i] = buffer.data[SlotOf(buffer, i - 1)]
  BY <1>1, ContentsLemma
<1>3. PICK s, n : s = buffer.size /\ n = buffer.next /\ s \in Nat /\ n \in Nat /\ n < 2
  BY <1>1 DEF BufferOK
<1>4. s >= 1 => Contents(buffer)[1] = buffer.data[SlotOf(buffer, 0)]
  BY <1>2, <1>3
<1>5. s = 2 => Contents(buffer)[2] = buffer.data[SlotOf(buffer, 1)]
  BY <1>2, <1>3
<1>6. /\ n = 0 => SlotOf(buffer, 0) = 0 /\ SlotOf(buffer, 1) = 1
      /\ n = 1 => SlotOf(buffer, 0) = 1 /\ SlotOf(buffer, 1) = 0
  BY <1>3 DEF SlotOf
<1>7. n = 0 \/ n = 1
  BY <1>3
<1>8. n = 0 /\ s >= 1 => buffer.data[0] = Contents(buffer)[1]
  BY <1>4, <1>6
<1>9. s = 2 /\ n = 0 => buffer.data[0] = Contents(buffer)[1] /\ buffer.data[1] = Contents(buffer)[2]
  BY <1>4, <1>5, <1>6
<1>10. s = 2 /\ n # 0 => buffer.data[0] = Contents(buffer)[2] /\ buffer.data[1] = Contents(buffer)[1]
  BY <1>4, <1>5, <1>6, <1>7
<1> QED
  BY <1>3, <1>8, <1>9, <1>10

(* At an assert of test_send_correctness the channel is open, and the main *)
(* thread is past the statements before.                                   *)
LEMMA SendAtAssert ==
  ASSUME ScriptInv, ~failed, SendTest, SendInv, line <= Len(program),
         program[line].do = "mu_assert"
  PROVE  closed = 1 /\ SendHeld /\ \A i \in Nat : Past(i) <=> i < line
<1>1. ScriptTypeOK /\ MainInv /\ ClosedInv /\ closed \in {0, 1}
  BY DEF ScriptInv, IInv, TypeOK
<1>2. SendCalls(program) /\ SendAsserts(program) /\ line \in Nat /\ line >= 1
  BY <1>1, SendTestFacts, ProgramWellFormed
<1>3. line < 29
  BY <1>2 DEF SendAsserts
<1>4. pc[0] = "idle"
  BY <1>1 DEF MainInv
<1>5. \A i \in Nat : Past(i) <=> i < line
  BY <1>4 DEF Past
<1>6. \A i \in 1 .. Len(program) : Closes(program, i) => i = 29
  BY <1>2 DEF SendCalls, Closes
<1>7. closed = 1
  <2>1. ASSUME NEW i \in 1 .. Len(program), Past(i), Closes(program, i)
        PROVE  FALSE
    <3>1. i = 29
      BY <1>6, <2>1
    <3> QED
      BY <1>2, <1>3, <1>5, <2>1, <3>1
  <2> QED
    BY <1>1, <2>1 DEF ClosedInv
<1> QED
  BY <1>5, <1>7 DEF SendInv

(* The helpers that there are at a statement of test_send_correctness.     *)
LEMMA SendCreated ==
  ASSUME ScriptInv, SendTest, line > 1
  PROVE  Created = {1} \cup (IF line > 6 THEN {2} ELSE {}) \cup (IF line > 12 THEN {3} ELSE {})
<1>1. ScriptTypeOK /\ CreatedInv
  BY DEF ScriptInv
<1>2. /\ SendPoints(program) /\ SendCreates(program) /\ line \in Nat
      /\ 1 \in Helper /\ 2 \in Helper /\ 3 \in Helper
  BY <1>1, SendTestFacts, ProgramWellFormed
<1>3. \A h \in Created : h = 1 \/ (h = 2 /\ line > 6) \/ (h = 3 /\ line > 12)
  BY SendHelpers DEF Created
<1>4. \A i \in 1 .. line - 1 : program[i].do = "pthread_create" => helper[program[i].h] # "new"
  BY <1>1 DEF CreatedInv
<1>5. program[1].do = "pthread_create" /\ program[6].do = "pthread_create" /\ program[12].do = "pthread_create"
  BY <1>2 DEF SendPoints
<1>6. program[1].h = 1 /\ program[6].h = 2 /\ program[12].h = 3
  <2>1. 1 \in 1 .. Len(program) /\ 6 \in 1 .. Len(program) /\ 12 \in 1 .. Len(program)
    BY <1>2 DEF SendPoints
  <2> QED
    BY <1>2, <1>5, <2>1 DEF SendCreates
<1>7. 1 \in 1 .. line - 1 /\ (line > 6 => 6 \in 1 .. line - 1) /\ (line > 12 => 12 \in 1 .. line - 1)
  BY <1>2
<1>8. helper[1] # "new" /\ (line > 6 => helper[2] # "new") /\ (line > 12 => helper[3] # "new")
  BY <1>4, <1>5, <1>6, <1>7
<1> QED
  BY <1>2, <1>3, <1>8 DEF Created

(* An assert holds whose count is allowed. *)
LEMMA HoldsAt ==
  ASSUME NEW w, NEW x, NEW A, program[line] = mu_assert(w, x, A), Tally(w, x) \in A
  PROVE  Holds
  BY DEF Holds, mu_assert

(* Sets of one and two helpers. *)
LEMMA OneAndTwo ==
  ASSUME NEW x, NEW y, x # y
  PROVE  Cardinality({x}) = 1 /\ Cardinality({x, y}) = 2
<1>1. IsFiniteSet({x}) /\ Cardinality({x}) = 1
  BY FS_Singleton
<1>2. y \notin {x}
  OBVIOUS
<1>3. Cardinality({x} \cup {y}) = Cardinality({x}) + 1
  BY <1>1, <1>2, FS_AddElement
<1>4. {x} \cup {y} = {x, y}
  OBVIOUS
<1> QED
  BY <1>1, <1>3, <1>4

(* The size of the buffer and its slots. *)
LEMMA SendBufferAsserts ==
  ASSUME ScriptInv, ~failed, SendTest, SendWaits, SendInv, CapacityInv,
         line <= Len(program), program[line].do = "mu_assert", line \notin {5, 11, 17}
  PROVE  Holds
<1>1. ScriptTypeOK /\ IInv
  BY DEF ScriptInv
<1>2. /\ SendAsserts(program) /\ line \in 1 .. Len(program) /\ line \in Nat
      /\ 1 \in Helper /\ 2 \in Helper /\ 3 \in Helper /\ test.capacity = 2
  BY <1>1, SendTestFacts, ProgramWellFormed
<1>3. closed = 1 /\ SendHeld /\ \A i \in Nat : Past(i) <=> i < line
  BY SendAtAssert
<1>4. buffer.capacity = 2 /\ buffer.size \in Nat /\ buffer.size <= 2
  BY <1>1, <1>2, <1>3, SizesType DEF CapacityInv
<1>5. \A i \in Nat : Did(i) = IF i < line THEN 1 ELSE 0
  BY <1>3 DEF Did
<1>6. buffer.size + Did(18) + Did(22) + Did(23) =
         Succeeds(1) + Succeeds(2) + Succeeds(3) + Did(24) + Did(25)
  BY <1>3 DEF SendHeld
<1>7. /\ \/ line = 3 /\ program[line] = mu_assert("size", 0, {1})
         \/ line \in {8, 14, 26} /\ program[line] = mu_assert("size", 0, {2})
         \/ line \in {4, 9, 15} /\ program[line] = mu_assert("slot", 0, {"Message1"})
         \/ line \in {10, 16} /\ program[line] = mu_assert("slot", 1, {"Message2"})
         \/ line = 27 /\ program[line] = mu_assert("slot", 0, {NULL})
         \/ line = 28 /\ program[line] = mu_assert("slot", 1, {NULL})
  BY <1>2 DEF SendAsserts
<1>8. CASE line < 18
  <2>1. line > 2
    BY <1>7
  <2>2. /\ buffer.next = 0
        /\ Result(3) # SUCCESS
        /\ Result(2) = SUCCESS => Contents(buffer)[2] = "Message2"
        /\ Result(1) = SUCCESS => Contents(buffer)[1] = "Message1"
    <3>1. ~Past(18)
      BY <1>2, <1>3, <1>8
    <3> QED
      BY <1>3, <3>1 DEF SendHeld
  <2>3. helper[1] = "exited" /\ (line > 7 => helper[2] = "exited")
    BY <2>1 DEF SendWaits
  <2>4. \A h \in Helper : helper[h] = "exited" => Result(h) = SUCCESS
    BY <1>3, SendHelpers, ExitedSucceeded
  <2>5. Result(1) = SUCCESS /\ (line > 7 => Result(2) = SUCCESS)
    BY <1>2, <2>3, <2>4
  <2>6. buffer.size = Succeeds(1) + Succeeds(2) + Succeeds(3)
    <3>1. Succeeds(1) \in Nat /\ Succeeds(2) \in Nat /\ Succeeds(3) \in Nat
      BY DEF Succeeds
    <3>2. Did(18) = 0 /\ Did(22) = 0 /\ Did(23) = 0 /\ Did(24) = 0 /\ Did(25) = 0
      BY <1>2, <1>5, <1>8
    <3> QED
      BY <1>4, <1>6, <3>1, <3>2
  <2>7. Succeeds(1) = 1 /\ Succeeds(3) = 0 /\ (line > 7 => Succeeds(2) = 1)
    BY <2>2, <2>5 DEF Succeeds
  <2>8. Contents(buffer)[1] = "Message1" /\ (line > 7 => Contents(buffer)[2] = "Message2")
    BY <2>2, <2>5
  <2>9. CASE line = 3 /\ program[line] = mu_assert("size", 0, {1})
    <3>1. helper[2] = "new"
      BY <1>2, <2>9, SendHelpers
    <3>2. Result(2) # SUCCESS
      BY <1>2, <3>1, ResultCreated DEF SUCCESS, GEN_ERROR
    <3>3. Succeeds(2) = 0
      BY <3>2 DEF Succeeds
    <3>4. buffer.size = 1
      BY <2>6, <2>7, <3>3
    <3>5. Tally("size", 0) \in {1}
      BY <3>4, Tallies
    <3> QED
      BY <2>9, <3>5, HoldsAt
  <2>10. CASE line \in {8, 14} /\ program[line] = mu_assert("size", 0, {2})
    <3>1. buffer.size = 2
      BY <2>6, <2>7, <2>10
    <3>2. Tally("size", 0) \in {2}
      BY <3>1, Tallies
    <3> QED
      BY <2>10, <3>2, HoldsAt
  <2>11. buffer.size >= 1 /\ (line > 7 => buffer.size = 2)
    <3>1. Succeeds(2) \in Nat
      BY DEF Succeeds
    <3> QED
      BY <2>6, <2>7, <3>1
  <2>12. buffer.data[0] = "Message1" /\ (line > 7 => buffer.data[1] = "Message2")
    BY <1>1, <1>4, <2>2, <2>8, <2>11, TwoSlots
  <2>13. CASE line \in {4, 9, 15} /\ program[line] = mu_assert("slot", 0, {"Message1"})
    <3>1. Tally("slot", 0) \in {"Message1"}
      BY <2>12, Tallies
    <3> QED
      BY <2>13, <3>1, HoldsAt
  <2>14. CASE line \in {10, 16} /\ program[line] = mu_assert("slot", 1, {"Message2"})
    <3>1. Tally("slot", 1) \in {"Message2"}
      <4>1. buffer.data[1] = "Message2"
        BY <2>12, <2>14
      <4> QED
        BY <4>1, Tallies
    <3> QED
      BY <2>14, <3>1, HoldsAt
  <2> QED
    BY <1>7, <1>8, <2>9, <2>10, <2>13, <2>14
<1>9. CASE line > 25
  <2>1. Succeeds(1) = 1 /\ Succeeds(2) = 1 /\ Succeeds(3) = 1
    <3>1. line > 21
      BY <1>2, <1>9
    <3>2. Result(1) = SUCCESS /\ Result(2) = SUCCESS /\ Result(3) = SUCCESS
      BY <1>3, <3>1, SendJoined
    <3> QED
      BY <3>2 DEF Succeeds
  <2>2. buffer.size = 2
    <3>1. Did(18) = 1 /\ Did(22) = 1 /\ Did(23) = 1 /\ Did(24) = 1 /\ Did(25) = 1
      BY <1>2, <1>5, <1>9
    <3> QED
      BY <1>4, <1>6, <2>1, <3>1
  <2>3. Contents(buffer)[1] = NULL /\ Contents(buffer)[2] = NULL
    <3>1. Past(24) /\ Past(25)
      BY <1>2, <1>3, <1>9
    <3> QED
      BY <1>3, <3>1 DEF SendHeld
  <2>4. buffer.data[0] = NULL /\ buffer.data[1] = NULL
    BY <1>1, <1>4, <2>2, <2>3, TwoSlots
  <2>5. Tally("size", 0) \in {2} /\ Tally("slot", 0) \in {NULL} /\ Tally("slot", 1) \in {NULL}
    BY <2>2, <2>4, Tallies
  <2> QED
    BY <1>7, <1>9, <2>5, HoldsAt
<1> QED
  BY <1>7, <1>8, <1>9

(* How many of the helpers have succeeded, and have not returned. *)
LEMMA SendOutAsserts ==
  ASSUME ScriptInv, ~failed, SendTest, SendWaits, SendInv, CapacityInv,
         line <= Len(program), program[line].do = "mu_assert", line \in {5, 11, 17}
  PROVE  Holds
<1>1. ScriptTypeOK /\ HelperInv
  BY DEF ScriptInv
<1>2. /\ SendAsserts(program) /\ line \in 1 .. Len(program) /\ line \in Nat
      /\ 1 \in Helper /\ 2 \in Helper /\ 3 \in Helper
  BY <1>1, SendTestFacts, ProgramWellFormed
<1>3. closed = 1 /\ SendHeld /\ \A i \in Nat : Past(i) <=> i < line
  BY SendAtAssert
<1>4. helper[1] = "exited" /\ (line > 7 => helper[2] = "exited")
  BY DEF SendWaits
<1>5. \A h \in Helper : helper[h] \in {"post", "exited"} => Result(h) = SUCCESS /\ out[h] = SUCCESS
  BY <1>3, SendHelpers, ExitedSucceeded
<1>6. out[1] = SUCCESS /\ (line > 7 => out[2] = SUCCESS)
  BY <1>2, <1>4, <1>5
<1>7. /\ line = 5 => program[line] = mu_assert("out", SUCCESS, {1})
      /\ line = 11 => program[line] = mu_assert("out", SUCCESS, {2})
      /\ line = 17 => program[line] = mu_assert("out", GEN_ERROR, {1})
  BY <1>2 DEF SendAsserts
<1>8. CASE line = 5
  <2>1. Created = {1}
    BY <1>8, SendCreated
  <2>2. OutOf(SUCCESS) = {1}
    BY <1>6, <2>1 DEF OutOf
  <2>3. Cardinality({1}) = 1
    BY FS_Singleton
  <2>4. Tally("out", SUCCESS) \in {1}
    BY <2>2, <2>3, Tallies
  <2> QED
    BY <1>7, <1>8, <2>4, HoldsAt
<1>9. CASE line = 11
  <2>1. Created = {1, 2}
    BY <1>9, SendCreated
  <2>2. OutOf(SUCCESS) = {1, 2}
    BY <1>6, <1>9, <2>1 DEF OutOf
  <2>3. Cardinality({1, 2}) = 2
    <3>1. 1 # 2
      OBVIOUS
    <3> QED
      BY <3>1, OneAndTwo
  <2>4. Tally("out", SUCCESS) \in {2}
    BY <2>2, <2>3, Tallies
  <2> QED
    BY <1>7, <1>9, <2>4, HoldsAt
<1>10. CASE line = 17
  <2>1. Created = {1, 2, 3}
    BY <1>10, SendCreated
  <2>2. Result(3) # SUCCESS
    BY <1>3, <1>10 DEF SendHeld
  <2>3. helper[3] \in {"new", "start", "call"}
    BY <1>1, <1>2, <1>5, <2>2 DEF ScriptTypeOK
  <2>4. out[3] = GEN_ERROR
    BY <1>1, <1>2, <2>3 DEF HelperInv
  <2>5. out[1] # GEN_ERROR /\ out[2] # GEN_ERROR
    BY <1>6, <1>10 DEF GEN_ERROR, SUCCESS
  <2>6. OutOf(GEN_ERROR) = {3}
    <3>1. \A h \in Created : h = 1 \/ h = 2 \/ h = 3
      BY <2>1
    <3>2. 3 \in Created
      BY <2>1
    <3> QED
      BY <2>4, <2>5, <3>1, <3>2 DEF OutOf
  <2>7. Cardinality({3}) = 1
    BY FS_Singleton
  <2>8. Tally("out", GEN_ERROR) \in {1}
    BY <2>6, <2>7, Tallies
  <2> QED
    BY <1>7, <1>10, <2>8, HoldsAt
<1> QED
  BY <1>8, <1>9, <1>10

ReceiveTest == test.name = "test_receive_correctness"

(* The main thread has waited for one helper, and for both.                *)
ReceiveWaits ==
  ReceiveTest =>
    /\ line > 13 => helper[1] = "exited" \/ helper[2] = "exited"
    /\ line > 17 => helper[1] = "exited" /\ helper[2] = "exited"

(* The main thread sends two messages and receives them; then the helpers  *)
(* receive the two that it sends them, one after the other.                *)
ReceiveHeld ==
  /\ buffer.size + Succeeds(1) + Succeeds(2) + Did(3) + Did(5) + Did(23) =
       Did(1) + Did(2) + Did(12) + Did(16) + Did(22)
  /\ Past(1) /\ ~Past(3) => Contents(buffer)[1] = "Message1"
  /\ Past(2) /\ ~Past(3) => Contents(buffer)[2] = "Message2"
  /\ Past(3) /\ ~Past(5) => Contents(buffer)[1] = "Message2"
  /\ Past(12) /\ ~Past(16) /\ buffer.size > 0 => Contents(buffer)[1] = "Message1"
  /\ Past(16) => Result(1) = SUCCESS \/ Result(2) = SUCCESS
  /\ Past(16) /\ ~Past(22) /\ buffer.size > 0 => Contents(buffer)[1] = "Message2"
  /\ Past(22) /\ ~Past(23) => Contents(buffer)[1] = NULL

(* Who received which of them. *)
ReceiveOrder ==
  /\ Result(1) = SUCCESS /\ Result(2) # SUCCESS => Message(1) = "Message1"
  /\ Result(2) = SUCCESS /\ Result(1) # SUCCESS => Message(2) = "Message1"
  /\ Result(1) = SUCCESS /\ Result(2) = SUCCESS =>
       \/ Message(1) = "Message1" /\ Message(2) = "Message2"
       \/ Message(1) = "Message2" /\ Message(2) = "Message1"

(* What the main thread receives. *)
ReceiveGot ==
  ReceiveTest /\ pc[0] = "unlock" =>
    /\ line = 3 => data[0] = "Message1"
    /\ line = 5 => data[0] = "Message2"
    /\ line = 23 => data[0] = NULL

ReceiveInv == closed = 1 /\ ReceiveTest => ReceiveHeld /\ ReceiveOrder

(* The statements of the test, and its helpers. *)
LEMMA ReceiveTestFacts ==
  ASSUME ScriptTypeOK, ReceiveTest
  PROVE  /\ ReceiveCreates(program) /\ ReceiveCalls(program) /\ ReceiveAsserts(program)
         /\ ReceivePoints(program)
         /\ 1 \in Helper /\ 2 \in Helper
<1>1. Lines(test) /\ test \in Programs
  BY ProgramWellFormed DEF ScriptTypeOK
<1>2. ReceiveCorrectnessLines(program)
  BY <1>1 DEF Lines, ReceiveTest, program
<1>3. test.senders = 0 /\ test.receivers = 2
  BY <1>1, ProgramAssumption DEF ReceiveTest
<1>4. 1 .. 2 \subseteq Helper
  BY <1>1, <1>3, ProgramType
<1> QED
  BY <1>2, <1>4, ReceiveStatements

(* The helpers that run. *)
LEMMA ReceiveHelpers ==
  ASSUME ScriptInv, ReceiveTest, NEW h \in Helper, helper[h] # "new"
  PROVE  /\ args[h].op = "receive" /\ args[h].sem /\ line > 7
         /\ h = 1 \/ (h = 2 /\ line > 8)
<1>1. ScriptTypeOK
  BY DEF ScriptInv
<1>2. PICK i \in 1 .. Len(program) :
           /\ i < line /\ Creates(program, i, h)
           /\ args[h] = [op |-> program[i].op, v |-> program[i].v, sem |-> program[i].sem]
  BY HelperArgs
<1>3. ReceiveCreates(program) /\ line \in Nat
  BY <1>1, ReceiveTestFacts, ProgramWellFormed
<1>4. /\ program[i].op = "receive" /\ program[i].sem = TRUE
      /\ \/ i = 7 /\ h = 1
         \/ i = 8 /\ h = 2
  BY <1>2, <1>3 DEF ReceiveCreates, Creates
<1> QED
  BY <1>2, <1>3, <1>4

(* Moves keep ReceiveWaits. *)
LEMMA ReceiveWaitsStep ==
  ASSUME ScriptInv, Move, ~failed', ReceiveWaits
  PROVE  ReceiveWaits'
<1> SUFFICES ASSUME ReceiveTest
             PROVE  /\ line' > 13 => helper'[1] = "exited" \/ helper'[2] = "exited"
                    /\ line' > 17 => helper'[1] = "exited" /\ helper'[2] = "exited"
  BY TestKept DEF ReceiveWaits, ReceiveTest
<1>1. /\ IInv /\ ScriptTypeOK /\ MainInv /\ HelperInv /\ CreatedInv /\ SemInv
      /\ line \in Nat /\ done \in Nat
  BY ProgramWellFormed DEF ScriptInv, ScriptTypeOK
<1>2. /\ ReceivePoints(program) /\ 1 \in Helper /\ 2 \in Helper
  BY <1>1, ReceiveTestFacts
<1>3. \A h \in Helper : helper[h] = "exited" => helper'[h] = "exited"
  BY <1>1, HelperGoesOn
<1>4. /\ line > 13 => helper[1] = "exited" \/ helper[2] = "exited"
      /\ line > 17 => helper[1] = "exited" /\ helper[2] = "exited"
  BY DEF ReceiveWaits
<1>5. \/ line' = line
      \/ line' = line + 1 /\ line <= Len(program) /\ (program[line].do = "sem_wait" => done > 0)
  BY <1>1, LinePassed DEF SemWait
<1>6. \A i \in 1 .. Len(program) : program[i].do = "sem_wait" <=> i \in {13, 17}
  BY <1>2 DEF ReceivePoints
<1>7. /\ IsFiniteSet(Posted) /\ Cardinality(Posted) \in Nat
      /\ IsFiniteSet(Waited) /\ Cardinality(Waited) \in Nat
      /\ Cardinality(Posted) = done + Cardinality(Waited)
  BY <1>1, PostedFinite DEF SemInv
<1>8. \A h \in Posted : helper[h] = "exited" /\ (h = 1 \/ h = 2)
  BY ReceiveHelpers DEF Posted
<1>9. CASE line = 13 /\ done > 0
  <2>1. Posted # {}
    BY <1>1, <1>7, <1>9, FS_EmptySet
  <2>2. helper[1] = "exited" \/ helper[2] = "exited"
    BY <1>8, <2>1
  <2> QED
    BY <1>2, <1>3, <1>4, <1>5, <1>9, <2>2
<1>10. CASE line = 17 /\ done > 0
  <2>1. 13 \in Waited
    BY <1>2, <1>6, <1>10 DEF Waited, ReceivePoints
  <2>2. Cardinality(Waited) # 0
    BY <1>7, <2>1, FS_EmptySet
  <2>3. Cardinality(Posted) >= 2
    BY <1>1, <1>7, <1>10, <2>2
  <2>4. ASSUME NEW h \in {1, 2}, h \notin Posted PROVE FALSE
    <3>1. PICK g \in {1, 2} : Posted \in SUBSET {g}
      BY <1>8, <2>4
    <3>2. IsFiniteSet({g}) /\ Cardinality({g}) = 1
      BY FS_Singleton
    <3>3. Cardinality(Posted) <= 1
      BY <3>1, <3>2, FS_Subset
    <3> QED
      BY <1>7, <2>3, <3>3
  <2>5. helper[1] = "exited" /\ helper[2] = "exited"
    BY <2>4 DEF Posted
  <2> QED
    BY <1>2, <1>3, <1>4, <1>5, <1>10, <2>5
<1>11. CASE line \notin {13, 17}
  BY <1>1, <1>2, <1>3, <1>4, <1>5, <1>11
<1>12. (line = 13 \/ line = 17) /\ ~(done > 0) => line' = line
  BY <1>2, <1>5, <1>6 DEF ReceivePoints
<1> QED
  BY <1>1, <1>2, <1>3, <1>4, <1>9, <1>10, <1>11, <1>12

(* How many helpers have received, and the stages of the test. *)
LEMMA ReceiveCounts ==
  /\ Succeeds(1) \in {0, 1} /\ Succeeds(2) \in {0, 1}
  /\ \A h \in {1, 2} : Succeeds(h) = 1 <=> Result(h) = SUCCESS
  /\ \A i : Did(i) \in {0, 1} /\ (Did(i) = 1 <=> Past(i))
  BY DEF Succeeds, Did

(* A helper that receives takes the message that the main thread has just  *)
(* sent.                                                                   *)
LEMMA ReceiveHelperStep ==
  ASSUME ScriptInv, ReceiveTest, closed = 1, ReceiveHeld, ReceiveOrder,
         NEW h \in Helper, HelperDecides(h), ~failed'
  PROVE  ReceiveHeld' /\ ReceiveOrder'
<1>1. IInv /\ ScriptTypeOK /\ MainInv /\ HelperInv /\ JoinedInv
  BY DEF ScriptInv
<1>2. /\ ReceivePoints(program) /\ 1 \in Helper /\ 2 \in Helper /\ line \in Nat
  BY <1>1, ReceiveTestFacts, ProgramWellFormed
<1>3. /\ Move /\ ~MainDecides /\ line' = line /\ pc'[0] = pc[0]
      /\ helper[h] = "call" /\ Result(h) = GEN_ERROR
      /\ \A g \in Helper \ {h} : Result(g)' = Result(g) /\ Message(g)' = Message(g)
  BY HelperDecidesFrame DEF SameResult
<1>4. h \in {1, 2} /\ args[h].op = "receive" /\ line > 7
  BY <1>3, ReceiveHelpers
<1>5. Result(h)' = SUCCESS /\ Removes(Message(h)')
  BY <1>4, HelperDecided DEF SendOps
<1>6. GEN_ERROR # SUCCESS
  BY DEF GEN_ERROR, SUCCESS
<1>7. \A i : Past(i)' <=> Past(i)
  BY <1>3 DEF Past
<1>8. Past(1) /\ Past(2) /\ Past(3) /\ Past(5)
  BY <1>2, <1>4 DEF Past
<1>9. ~Past(22) /\ ~Past(23)
  <2>1. ASSUME line > 21 PROVE FALSE
    <3>1. 20 \in 1 .. line - 1 /\ 21 \in 1 .. line - 1
      BY <1>2, <2>1
    <3>2. helper[1] = "exited" /\ helper[2] = "exited"
      BY <1>1, <1>2, <3>1 DEF JoinedInv, ReceivePoints
    <3> QED
      BY <1>3, <1>4, <3>2
  <2> QED
    BY <1>2, <2>1 DEF Past
<1>10. PICK s : s = buffer.size /\ s \in Nat /\ s > 0 /\ buffer'.size = s - 1
  BY <1>1, <1>5, SizesType DEF Removes
<1>11. Message(h)' = Contents(buffer)[1]
  BY <1>5 DEF Removes
<1>12. PICK g \in {1, 2} : g # h /\ Result(g)' = Result(g) /\ Message(g)' = Message(g)
                           /\ ((h = 1 /\ g = 2) \/ (h = 2 /\ g = 1))
  <2>1. CASE h = 1
    BY <1>2, <1>3, <2>1
  <2>2. CASE h = 2
    BY <1>2, <1>3, <2>2
  <2> QED
    BY <1>4, <2>1, <2>2
<1>13. PICK c : c = Succeeds(g) /\ c \in {0, 1} /\ (c = 1 <=> Result(g) = SUCCESS)
  BY DEF Succeeds
<1>14. Succeeds(1) + Succeeds(2) = c
  <2>1. Succeeds(h) = 0
    BY <1>3, <1>6 DEF Succeeds
  <2> QED
    BY <1>12, <1>13, <2>1
<1>15. Succeeds(1)' + Succeeds(2)' = c + 1
  <2>1. Succeeds(h)' = 1 /\ Succeeds(g)' = Succeeds(g)
    BY <1>5, <1>12 DEF Succeeds
  <2> QED
    BY <1>12, <1>13, <2>1
<1>16. s + c = Did(12) + Did(16)
  <2>1. Did(1) = 1 /\ Did(2) = 1 /\ Did(3) = 1 /\ Did(5) = 1 /\ Did(22) = 0 /\ Did(23) = 0
    BY <1>8, <1>9 DEF Did
  <2>2. Did(12) \in Nat /\ Did(16) \in Nat /\ Succeeds(1) \in Nat /\ Succeeds(2) \in Nat
    BY ReceiveCounts
  <2>3. buffer.size + Succeeds(1) + Succeeds(2) + Did(3) + Did(5) + Did(23) =
          Did(1) + Did(2) + Did(12) + Did(16) + Did(22)
    BY DEF ReceiveHeld
  <2> QED
    BY <1>10, <1>13, <1>14, <2>1, <2>2, <2>3
<1>17. Past(12) => Did(12) = 1
  BY DEF Did
<1>18. Past(16) => Past(12)
  BY <1>1, PastOrder
<1>19. Past(12)
  <2>1. ASSUME ~Past(12) PROVE FALSE
    <3>1. Did(12) = 0 /\ Did(16) = 0
      BY <1>18, <2>1 DEF Did
    <3>2. s + c = 0
      BY <1>16, <3>1
    <3>3. s \in Nat /\ s > 0
      BY <1>10
    <3>4. c \in Nat
      BY <1>13
    <3> QED
      BY <3>2, <3>3, <3>4
  <2> QED
    BY <2>1
<1>20. CASE ~Past(16)
  <2>1. Did(16) = 0
    BY <1>20 DEF Did
  <2>2. s = 1 /\ c = 0
    BY <1>10, <1>13, <1>16, <1>17, <1>19, <2>1
  <2>3. Message(h)' = "Message1"
    BY <1>10, <1>11, <1>19, <1>20, <2>2 DEF ReceiveHeld
  <2>4. Result(g)' # SUCCESS
    BY <1>12, <1>13, <2>2
  <2>5. ReceiveOrder'
    BY <1>5, <1>12, <2>3, <2>4 DEF ReceiveOrder
  <2>6. buffer'.size = 0
    BY <1>10, <2>2
  <2>7. buffer'.size + Succeeds(1)' + Succeeds(2)' + Did(3)' + Did(5)' + Did(23)' =
          Did(1)' + Did(2)' + Did(12)' + Did(16)' + Did(22)'
    <3>1. Did(1)' = 1 /\ Did(2)' = 1 /\ Did(3)' = 1 /\ Did(5)' = 1 /\ Did(22)' = 0 /\ Did(23)' = 0
          /\ Did(12)' = 1 /\ Did(16)' = 0
      BY <1>7, <1>8, <1>9, <1>19, <1>20 DEF Did
    <3>2. Succeeds(1)' \in Nat /\ Succeeds(2)' \in Nat
      BY DEF Succeeds
    <3> QED
      BY <1>15, <2>2, <2>6, <3>1, <3>2
  <2>8. ~(buffer'.size > 0) /\ Past(3)' /\ Past(5)' /\ ~Past(16)' /\ ~Past(22)'
    BY <1>7, <1>8, <1>9, <1>20, <2>6
  <2> QED
    BY <2>5, <2>7, <2>8 DEF ReceiveHeld, Succeeds, Did
<1>21. CASE Past(16)
  <2>1. Did(16) = 1
    BY <1>21 DEF Did
  <2>2. s + c = 2
    BY <1>10, <1>13, <1>16, <1>17, <1>19, <2>1
  <2>3. Result(g) = SUCCESS
    <3>1. Result(1) = SUCCESS \/ Result(2) = SUCCESS
      BY <1>21 DEF ReceiveHeld
    <3> QED
      BY <1>3, <1>6, <1>12, <3>1
  <2>4. c = 1 /\ s = 1
    BY <1>10, <1>13, <2>2, <2>3
  <2>5. Message(h)' = "Message2"
    BY <1>9, <1>10, <1>11, <1>21, <2>4 DEF ReceiveHeld
  <2>6. Message(g)' = "Message1"
    BY <1>3, <1>6, <1>12, <2>3 DEF ReceiveOrder
  <2>7. ReceiveOrder'
    BY <1>5, <1>12, <2>3, <2>5, <2>6 DEF ReceiveOrder
  <2>8. buffer'.size = 0
    BY <1>10, <2>4
  <2>9. buffer'.size + Succeeds(1)' + Succeeds(2)' + Did(3)' + Did(5)' + Did(23)' =
          Did(1)' + Did(2)' + Did(12)' + Did(16)' + Did(22)'
    <3>1. Did(1)' = 1 /\ Did(2)' = 1 /\ Did(3)' = 1 /\ Did(5)' = 1 /\ Did(22)' = 0 /\ Did(23)' = 0
          /\ Did(12)' = 1 /\ Did(16)' = 1
      BY <1>7, <1>8, <1>9, <1>19, <1>21 DEF Did
    <3>2. Succeeds(1)' \in Nat /\ Succeeds(2)' \in Nat
      BY DEF Succeeds
    <3> QED
      BY <1>15, <2>4, <2>8, <3>1, <3>2
  <2>10. ~(buffer'.size > 0) /\ Past(3)' /\ Past(5)' /\ ~Past(22)'
         /\ (Result(1)' = SUCCESS \/ Result(2)' = SUCCESS)
    BY <1>5, <1>7, <1>8, <1>9, <1>12, <2>8
  <2> QED
    BY <2>7, <2>9, <2>10 DEF ReceiveHeld, Succeeds, Did
<1> QED
  BY <1>20, <1>21

(* Before there are helpers nobody has received, and one has when the main *)
(* thread has waited.                                                      *)
LEMMA ReceiveProgress ==
  ASSUME ScriptInv, ReceiveTest, closed = 1, ReceiveWaits
  PROVE  /\ line <= 7 => Result(1) # SUCCESS /\ Result(2) # SUCCESS
         /\ line > 13 => Result(1) = SUCCESS \/ Result(2) = SUCCESS
         /\ line > 21 => Result(1) = SUCCESS /\ Result(2) = SUCCESS
<1>1. ScriptTypeOK /\ JoinedInv
  BY DEF ScriptInv
<1>2. /\ ReceivePoints(program) /\ 1 \in Helper /\ 2 \in Helper /\ line \in Nat
  BY <1>1, ReceiveTestFacts, ProgramWellFormed
<1>3. GEN_ERROR # SUCCESS
  BY DEF GEN_ERROR, SUCCESS
<1>4. \A h \in Helper : helper[h] # "new" => args[h].op = "receive" /\ line > 7
  BY ReceiveHelpers
<1>5. \A h \in Helper : Result(h) = SUCCESS => helper[h] # "new"
  BY <1>3, ResultCreated
<1>6. line <= 7 => Result(1) # SUCCESS /\ Result(2) # SUCCESS
  BY <1>2, <1>4, <1>5
<1>7. \A h \in Helper : helper[h] = "exited" => Result(h) = SUCCESS
  BY <1>4, ExitedSucceeded
<1>8. line > 13 => helper[1] = "exited" \/ helper[2] = "exited"
  BY DEF ReceiveWaits
<1>9. line > 21 => helper[1] = "exited" /\ helper[2] = "exited"
  <2>1. line > 21 => 20 \in 1 .. line - 1 /\ 21 \in 1 .. line - 1
    BY <1>2
  <2> QED
    BY <1>1, <1>2, <2>1 DEF JoinedInv, ReceivePoints
<1> QED
  BY <1>2, <1>6, <1>7, <1>8, <1>9

(* A call of the main thread that is decided. *)
LEMMA ReceiveMainStep ==
  ASSUME ScriptInv, ReceiveTest, ReceiveWaits, closed = 1, closed' = 1, ReceiveHeld, ReceiveOrder,
         MainDecides, ~failed'
  PROVE  /\ ReceiveHeld' /\ ReceiveOrder'
         /\ line = 3 => data'[0] = "Message1"
         /\ line = 5 => data'[0] = "Message2"
         /\ line = 23 => data'[0] = NULL
<1>1. IInv /\ ScriptTypeOK /\ MainInv /\ HelperInv
  BY DEF ScriptInv
<1>2. ReceiveCalls(program) /\ line \in Nat /\ line >= 1 /\ 1 \in Helper /\ 2 \in Helper
  BY <1>1, ReceiveTestFacts, ProgramWellFormed
<1>3. Move /\ \A g \in Helper : Result(g)' = Result(g) /\ Message(g)' = Message(g)
  BY MainDecidesFrame DEF SameResult
<1>4. /\ line \in 1 .. Len(program) /\ program[line].do = "call"
      /\ \/ program[line].op \in {"close", "non_blocking_send", "non_blocking_receive"}
         \/ program[line].op \in SendOps /\ Adds(program[line].v)
         \/ program[line].op \in ReceiveOps /\ Removes(data'[0])
  BY MainDecided
<1>5. program[line].op # "close"
  <2>1. ASSUME program[line].op = "close" PROVE FALSE
    <3>1. op[0] = "close" /\ pc[0] = "body" /\ Outcome(0)
      BY <1>1, <1>4, <2>1 DEF MainDecides, Decides, MainInv
    <3>2. Closed(0)
      BY <3>1 DEF Outcome, Refused, FoundFull, FoundEmpty, Added, Removed, SendOps, ReceiveOps
    <3> QED
      BY <3>2 DEF Closed
  <2> QED
    BY <2>1
<1>6. \/ line \in {1, 12} /\ Adds("Message1")
      \/ line \in {2, 16} /\ Adds("Message2")
      \/ line = 22 /\ Adds(NULL)
      \/ line \in {3, 5, 23} /\ Removes(data'[0])
  BY <1>2, <1>4, <1>5 DEF ReceiveCalls, SendOps, ReceiveOps
<1>7. \A i \in Nat : Past(i) <=> i < line
  <2>1. pc[0] = "body"
    BY MainDecidesFrame
  <2> QED
    BY <1>2, <2>1 DEF Past
<1>8. \A i \in Nat : Past(i)' <=> i <= line
  BY <1>1, <1>2, <1>3, <1>7, PastStep
<1>9. ReceiveOrder'
  BY <1>2, <1>3 DEF ReceiveOrder
<1>10. PICK s, c : /\ s = buffer.size /\ s \in Nat /\ c \in Nat
                   /\ c = Succeeds(1) + Succeeds(2)
  <2>1. Succeeds(1) + Succeeds(2) \in Nat
    BY DEF Succeeds
  <2> QED
    BY <1>1, <2>1, SizesType
<1>11. Succeeds(1)' = Succeeds(1) /\ Succeeds(2)' = Succeeds(2)
       /\ Succeeds(1) \in Nat /\ Succeeds(2) \in Nat
  BY <1>2, <1>3 DEF Succeeds
<1>12. /\ line <= 7 => c = 0
       /\ line > 21 => c = 2
       /\ line > 13 => c >= 1
  <2>1. /\ line <= 7 => Succeeds(1) = 0 /\ Succeeds(2) = 0
        /\ line > 21 => Succeeds(1) = 1 /\ Succeeds(2) = 1
        /\ line > 13 => Succeeds(1) = 1 \/ Succeeds(2) = 1
    BY ReceiveProgress DEF Succeeds
  <2> QED
    BY <1>10, <1>11, <2>1
<1>13. \A i \in Nat : Did(i) = (IF i < line THEN 1 ELSE 0) /\ Did(i)' = (IF i <= line THEN 1 ELSE 0)
  BY <1>7, <1>8 DEF Did
<1>14. s + c + Did(3) + Did(5) + Did(23) = Did(1) + Did(2) + Did(12) + Did(16) + Did(22)
  <2>1. \A i \in Nat : Did(i) \in Nat
    BY <1>13
  <2>2. buffer.size + Succeeds(1) + Succeeds(2) + Did(3) + Did(5) + Did(23) =
          Did(1) + Did(2) + Did(12) + Did(16) + Did(22)
    BY DEF ReceiveHeld
  <2> QED
    BY <1>10, <1>11, <2>1, <2>2
<1>15. /\ line = 1 => s = 0
       /\ line = 2 => s = 1
       /\ line = 3 => s = 2
       /\ line = 5 => s = 1
       /\ line = 12 => s = 0 /\ c = 0
       /\ line = 16 => s = 0 /\ c = 1
       /\ line = 22 => s = 0
       /\ line = 23 => s = 1
  BY <1>10, <1>12, <1>13, <1>14
<1> DEFINE Total ==
      buffer'.size + Succeeds(1)' + Succeeds(2)' + Did(3)' + Did(5)' + Did(23)' =
        Did(1)' + Did(2)' + Did(12)' + Did(16)' + Did(22)'
<1>16. ASSUME NEW v, Adds(v), line \in {1, 2, 12, 16, 22}
       PROVE  /\ Total
              /\ buffer'.size = s + 1
              /\ \A i \in 1 .. s : Contents(buffer')[i] = Contents(buffer)[i]
              /\ \A i : i = s + 1 => Contents(buffer')[i] = v
  <2>1. /\ buffer'.size = s + 1
        /\ \A i \in 1 .. s : Contents(buffer')[i] = Contents(buffer)[i]
        /\ \A i : i = s + 1 => Contents(buffer')[i] = v
    BY <1>10, <1>16 DEF Adds
  <2>2. Total
    <3>1. Succeeds(1)' + Succeeds(2)' = c
      BY <1>10, <1>11
    <3>2. s + 1 + c + Did(3)' + Did(5)' + Did(23)' = Did(1)' + Did(2)' + Did(12)' + Did(16)' + Did(22)'
      BY <1>10, <1>13, <1>14, <1>16
    <3>3. \A i \in Nat : Did(i)' \in Nat
      BY <1>13
    <3> QED
      BY <1>10, <1>11, <2>1, <3>1, <3>2, <3>3
  <2> QED
    BY <2>1, <2>2
<1>17. ASSUME Removes(data'[0]), line \in {3, 5, 23}
       PROVE  /\ Total
              /\ buffer'.size = s - 1 /\ data'[0] = Contents(buffer)[1]
              /\ \A i \in 1 .. s - 1 : Contents(buffer')[i] = Contents(buffer)[i + 1]
  <2>1. /\ buffer'.size = s - 1 /\ data'[0] = Contents(buffer)[1]
        /\ \A i \in 1 .. s - 1 : Contents(buffer')[i] = Contents(buffer)[i + 1]
    BY <1>10, <1>17 DEF Removes
  <2>2. Total
    <3>1. Succeeds(1)' + Succeeds(2)' = c
      BY <1>10, <1>11
    <3>2. s - 1 + c + Did(3)' + Did(5)' + Did(23)' = Did(1)' + Did(2)' + Did(12)' + Did(16)' + Did(22)'
      BY <1>10, <1>13, <1>14, <1>17
    <3>3. \A i \in Nat : Did(i)' \in Nat
      BY <1>13
    <3> QED
      BY <1>10, <1>11, <2>1, <3>1, <3>2, <3>3
  <2> QED
    BY <2>1, <2>2
<1>18. Total => (buffer'.size + Succeeds(1)' + Succeeds(2)' + Did(3)' + Did(5)' + Did(23)' =
                   Did(1)' + Did(2)' + Did(12)' + Did(16)' + Did(22)')
  OBVIOUS
<1> HIDE DEF Total
<1> DEFINE Held ==
      /\ line >= 1 /\ line < 3 => Contents(buffer')[1] = "Message1"
      /\ line = 2 => Contents(buffer')[2] = "Message2"
      /\ line >= 3 /\ line < 5 => Contents(buffer')[1] = "Message2"
      /\ line = 12 => Contents(buffer')[1] = "Message1"
      /\ line >= 16 => Result(1)' = SUCCESS \/ Result(2)' = SUCCESS
      /\ line = 16 => Contents(buffer')[1] = "Message2"
      /\ line = 22 => Contents(buffer')[1] = NULL
<1>19. Total /\ Held => ReceiveHeld'
  <2> SUFFICES ASSUME Total, Held PROVE ReceiveHeld'
    OBVIOUS
  <2>1. /\ Past(1)' /\ ~Past(3)' => Contents(buffer')[1] = "Message1"
        /\ Past(2)' /\ ~Past(3)' => Contents(buffer')[2] = "Message2"
        /\ Past(3)' /\ ~Past(5)' => Contents(buffer')[1] = "Message2"
        /\ Past(12)' /\ ~Past(16)' /\ buffer'.size > 0 => Contents(buffer')[1] = "Message1"
        /\ Past(16)' => Result(1)' = SUCCESS \/ Result(2)' = SUCCESS
        /\ Past(16)' /\ ~Past(22)' /\ buffer'.size > 0 => Contents(buffer')[1] = "Message2"
        /\ Past(22)' /\ ~Past(23)' => Contents(buffer')[1] = NULL
    BY <1>2, <1>6, <1>8
  <2> QED
    BY <1>18, <2>1 DEF ReceiveHeld, Did, Succeeds
<1>20. line >= 16 => Result(1)' = SUCCESS \/ Result(2)' = SUCCESS
  <2>1. line >= 16 => Result(1) = SUCCESS \/ Result(2) = SUCCESS
    BY <1>2, ReceiveProgress
  <2> QED
    BY <1>2, <1>3, <2>1
<1>21. CASE line = 1 /\ Adds("Message1")
  <2>1. Total /\ Contents(buffer')[1] = "Message1"
    BY <1>15, <1>16, <1>21
  <2> QED
    BY <1>9, <1>19, <1>21, <2>1
<1>22. CASE line = 2 /\ Adds("Message2")
  <2>1. Total /\ Contents(buffer')[2] = "Message2" /\ Contents(buffer')[1] = Contents(buffer)[1]
    BY <1>15, <1>16, <1>22
  <2>2. Contents(buffer)[1] = "Message1"
    BY <1>7, <1>22 DEF ReceiveHeld
  <2> QED
    BY <1>9, <1>19, <1>22, <2>1, <2>2
<1>23. CASE line = 3 /\ Removes(data'[0])
  <2>1. Total /\ Contents(buffer')[1] = Contents(buffer)[2] /\ data'[0] = Contents(buffer)[1]
    BY <1>15, <1>17, <1>23
  <2>2. Contents(buffer)[1] = "Message1" /\ Contents(buffer)[2] = "Message2"
    BY <1>7, <1>23 DEF ReceiveHeld
  <2> QED
    BY <1>9, <1>19, <1>23, <2>1, <2>2
<1>24. CASE line = 5 /\ Removes(data'[0])
  <2>1. Total /\ data'[0] = Contents(buffer)[1]
    BY <1>17, <1>24
  <2>2. Contents(buffer)[1] = "Message2"
    BY <1>7, <1>24 DEF ReceiveHeld
  <2> QED
    BY <1>9, <1>19, <1>24, <2>1, <2>2
<1>25. CASE line = 12 /\ Adds("Message1")
  <2>1. Total /\ Contents(buffer')[1] = "Message1"
    BY <1>15, <1>16, <1>25
  <2> QED
    BY <1>9, <1>19, <1>25, <2>1
<1>26. CASE line = 16 /\ Adds("Message2")
  <2>1. Total /\ Contents(buffer')[1] = "Message2"
    BY <1>15, <1>16, <1>26
  <2> QED
    BY <1>9, <1>19, <1>20, <1>26, <2>1
<1>27. CASE line = 22 /\ Adds(NULL)
  <2>1. Total /\ Contents(buffer')[1] = NULL
    BY <1>15, <1>16, <1>27
  <2> QED
    BY <1>9, <1>19, <1>20, <1>27, <2>1
<1>28. CASE line = 23 /\ Removes(data'[0])
  <2>1. Total /\ data'[0] = Contents(buffer)[1]
    BY <1>17, <1>28
  <2>2. Contents(buffer)[1] = NULL
    BY <1>7, <1>28 DEF ReceiveHeld
  <2> QED
    BY <1>9, <1>19, <1>20, <1>28, <2>1, <2>2
<1> QED
  BY <1>6, <1>21, <1>22, <1>23, <1>24, <1>25, <1>26, <1>27, <1>28

(* Moves keep ReceiveInv. *)
LEMMA ReceiveInvStep ==
  ASSUME ScriptInv, Move, ~failed', ReceiveWaits, ReceiveInv
  PROVE  ReceiveInv'
<1> SUFFICES ASSUME closed' = 1, ReceiveTest
             PROVE  ReceiveHeld' /\ ReceiveOrder'
  BY TestKept DEF ReceiveInv, ReceiveTest
<1>1. closed = 1
  BY ClosedStays DEF ScriptInv, IInv, TypeOK
<1>2. ReceiveHeld /\ ReceiveOrder
  BY <1>1 DEF ReceiveInv
<1>3. CASE Quiet
  <2>1. ScriptTypeOK
    BY DEF ScriptInv
  <2>2. /\ ReceivePoints(program) /\ 1 \in Helper /\ 2 \in Helper
    BY <2>1, ReceiveTestFacts
  <2>3. buffer' = buffer /\ \A g \in Helper : Result(g)' = Result(g) /\ Message(g)' = Message(g)
    BY <1>1, <1>3, QuietStep DEF SameResult
  <2>4. \A i \in {1, 2, 3, 5, 12, 16, 22, 23} : i \in 1 .. Len(program) /\ program[i].do = "call"
    BY <2>2 DEF ReceivePoints
  <2>5. \A i \in {1, 2, 3, 5, 12, 16, 22, 23} : Past(i)' <=> Past(i)
    BY <1>3, <2>4, QuietPast DEF Quiet
  <2>6. \A i \in {1, 2, 3, 5, 12, 16, 22, 23} : Did(i)' = Did(i)
    BY <2>5 DEF Did
  <2>7. \A g \in {1, 2} : Succeeds(g)' = Succeeds(g) /\ Result(g)' = Result(g) /\ Message(g)' = Message(g)
    BY <2>2, <2>3 DEF Succeeds
  <2>8. buffer'.size + Succeeds(1)' + Succeeds(2)' + Did(3)' + Did(5)' + Did(23)' =
          Did(1)' + Did(2)' + Did(12)' + Did(16)' + Did(22)'
    BY <1>2, <2>3, <2>6, <2>7 DEF ReceiveHeld
  <2>9. /\ Past(1)' /\ ~Past(3)' => Contents(buffer')[1] = "Message1"
        /\ Past(2)' /\ ~Past(3)' => Contents(buffer')[2] = "Message2"
        /\ Past(3)' /\ ~Past(5)' => Contents(buffer')[1] = "Message2"
    BY <1>2, <2>3, <2>5 DEF ReceiveHeld
  <2>10. /\ Past(12)' /\ ~Past(16)' /\ buffer'.size > 0 => Contents(buffer')[1] = "Message1"
         /\ Past(16)' => Result(1)' = SUCCESS \/ Result(2)' = SUCCESS
         /\ Past(16)' /\ ~Past(22)' /\ buffer'.size > 0 => Contents(buffer')[1] = "Message2"
         /\ Past(22)' /\ ~Past(23)' => Contents(buffer')[1] = NULL
    BY <1>2, <2>3, <2>5, <2>7 DEF ReceiveHeld
  <2>11. ReceiveHeld'
    BY <2>8, <2>9, <2>10 DEF ReceiveHeld, Did, Succeeds
  <2>12. ReceiveOrder'
    BY <1>2, <2>7 DEF ReceiveOrder
  <2> QED
    BY <2>11, <2>12
<1>4. ASSUME NEW h \in Helper, HelperDecides(h)
      PROVE  ReceiveHeld' /\ ReceiveOrder'
  BY <1>1, <1>2, <1>4, ReceiveHelperStep
<1>5. CASE MainDecides
  BY <1>1, <1>2, <1>5, ReceiveMainStep
<1> QED
  BY <1>3, <1>4, <1>5 DEF Quiet

(* The main thread receives what it sent. *)
LEMMA ReceiveGotStep ==
  ASSUME ScriptInv, Move, ~failed', ReceiveWaits, ReceiveInv, ReceiveGot
  PROVE  ReceiveGot'
<1> SUFFICES ASSUME ReceiveTest, pc'[0] = "unlock"
             PROVE  /\ line' = 3 => data'[0] = "Message1"
                    /\ line' = 5 => data'[0] = "Message2"
                    /\ line' = 23 => data'[0] = NULL
  BY TestKept DEF ReceiveGot, ReceiveTest
<1>1. /\ IInv /\ ScriptTypeOK /\ MainInv /\ HelperInv /\ ClosedInv /\ closed \in {0, 1}
  BY DEF ScriptInv, IInv, TypeOK
<1>2. ReceiveCalls(program) /\ line \in Nat
  BY <1>1, ReceiveTestFacts, ProgramWellFormed
<1>3. CASE MainDecides
  <2>1. line' = line /\ pc[0] = "body" /\ ~failed
    BY <1>3, MainDecidesFrame DEF MainDecides
  <2>2. ASSUME line < 24 PROVE closed = 1
    <3>1. ASSUME NEW j \in 1 .. Len(program), Closes(program, j)
          PROVE  j = 24
      BY <1>2, <3>1 DEF ReceiveCalls, Closes
    <3>2. ~ClosedBefore(program, line)
      BY <1>2, <2>2, <3>1 DEF ClosedBefore
    <3> QED
      BY <1>1, <2>1, <3>2, ClosedBeforeCall
  <2>3. ASSUME line \in {3, 5, 23} PROVE closed = 1 /\ closed' = 1
    <3>1. closed = 1
      BY <1>2, <2>2, <2>3
    <3>2. line \in 1 .. Len(program) /\ program[line].do = "call"
      BY <1>3, <3>1, MainDecided
    <3>3. program[line].op # "close"
      BY <1>2, <2>3, <3>2 DEF ReceiveCalls
    <3> QED
      BY <1>3, <3>1, <3>3, MainDecided
  <2>4. ASSUME line \in {3, 5, 23}
        PROVE  /\ line = 3 => data'[0] = "Message1"
               /\ line = 5 => data'[0] = "Message2"
               /\ line = 23 => data'[0] = NULL
    <3>1. ReceiveHeld /\ ReceiveOrder /\ closed = 1 /\ closed' = 1
      BY <2>3, <2>4 DEF ReceiveInv
    <3> QED
      BY <1>3, <3>1, ReceiveMainStep
  <2> QED
    BY <2>1, <2>4
<1>4. CASE ~MainDecides
  <2>1. ~MainDestroys
    BY <1>1, MainIsThread DEF MainDestroys, channel_destroy, IInv, TypeOK
  <2>2. pc'[0] = pc[0] /\ data'[0] = data[0] /\ line' = line
    BY <1>1, <1>4, <2>1, MainStays
  <2> QED
    BY <2>2 DEF ReceiveGot
<1> QED
  BY <1>3, <1>4

(* At an assert of test_receive_correctness the channel is open, and the   *)
(* main thread is past the statements before.                              *)
LEMMA ReceiveAtAssert ==
  ASSUME ScriptInv, ~failed, ReceiveTest, ReceiveInv, line <= Len(program),
         program[line].do = "mu_assert"
  PROVE  closed = 1 /\ ReceiveHeld /\ ReceiveOrder /\ \A i \in Nat : Past(i) <=> i < line
<1>1. ScriptTypeOK /\ MainInv /\ ClosedInv /\ closed \in {0, 1}
  BY DEF ScriptInv, IInv, TypeOK
<1>2. ReceiveCalls(program) /\ ReceiveAsserts(program) /\ line \in Nat /\ line >= 1
  BY <1>1, ReceiveTestFacts, ProgramWellFormed
<1>3. line < 24
  BY <1>2 DEF ReceiveAsserts
<1>4. pc[0] = "idle"
  BY <1>1 DEF MainInv
<1>5. \A i \in Nat : Past(i) <=> i < line
  BY <1>4 DEF Past
<1>6. \A i \in 1 .. Len(program) : Closes(program, i) => i = 24
  BY <1>2 DEF ReceiveCalls, Closes
<1>7. closed = 1
  <2>1. ASSUME NEW i \in 1 .. Len(program), Past(i), Closes(program, i)
        PROVE  FALSE
    <3>1. i = 24
      BY <1>6, <2>1
    <3> QED
      BY <1>2, <1>3, <1>5, <2>1, <3>1
  <2> QED
    BY <1>1, <2>1 DEF ClosedInv
<1> QED
  BY <1>5, <1>7 DEF ReceiveInv

(* The helpers that there are at a statement of test_receive_correctness.  *)
LEMMA ReceiveCreated ==
  ASSUME ScriptInv, ReceiveTest, line > 8
  PROVE  Created = {1, 2}
<1>1. ScriptTypeOK /\ CreatedInv
  BY DEF ScriptInv
<1>2. /\ ReceivePoints(program) /\ ReceiveCreates(program) /\ line \in Nat
      /\ 1 \in Helper /\ 2 \in Helper
  BY <1>1, ReceiveTestFacts, ProgramWellFormed
<1>3. \A h \in Created : h = 1 \/ h = 2
  BY ReceiveHelpers DEF Created
<1>4. \A i \in 1 .. line - 1 : program[i].do = "pthread_create" => helper[program[i].h] # "new"
  BY <1>1 DEF CreatedInv
<1>5. program[7].do = "pthread_create" /\ program[8].do = "pthread_create"
  BY <1>2 DEF ReceivePoints
<1>6. program[7].h = 1 /\ program[8].h = 2
  <2>1. 7 \in 1 .. Len(program) /\ 8 \in 1 .. Len(program)
    BY <1>2 DEF ReceivePoints
  <2> QED
    BY <1>2, <1>5, <2>1 DEF ReceiveCreates
<1>7. 7 \in 1 .. line - 1 /\ 8 \in 1 .. line - 1
  BY <1>2
<1>8. helper[1] # "new" /\ helper[2] # "new"
  BY <1>4, <1>5, <1>6, <1>7
<1> QED
  BY <1>2, <1>3, <1>8 DEF Created

(* What a helper has stored is its result. *)
LEMMA OutIsResult ==
  ASSUME ScriptInv, closed = 1, NEW h \in Helper, helper[h] # "new" => args[h].op = "receive"
  PROVE  /\ out[h] = SUCCESS => Result(h) = SUCCESS
         /\ Result(h) # SUCCESS => out[h] = GEN_ERROR
<1>1. ScriptTypeOK /\ HelperInv
  BY DEF ScriptInv
<1>2. helper[h] \in {"post", "exited"} => Result(h) = SUCCESS
  BY ExitedSucceeded
<1>3. helper[h] \in {"new", "start", "call"} => out[h] = GEN_ERROR
  BY <1>1 DEF HelperInv
<1>4. helper[h] \in {"new", "start", "call", "post", "exited"}
  BY <1>1 DEF ScriptTypeOK
<1> QED
  BY <1>2, <1>3, <1>4 DEF GEN_ERROR, SUCCESS

(* Every assert of test_receive_correctness holds. *)
LEMMA ReceiveAssertsHold ==
  ASSUME ScriptInv, ~failed, ReceiveTest, ReceiveWaits, ReceiveInv,
         line <= Len(program), program[line].do = "mu_assert"
  PROVE  Holds
<1>1. ScriptTypeOK /\ IInv
  BY DEF ScriptInv
<1>2. /\ ReceiveAsserts(program) /\ line \in 1 .. Len(program) /\ line \in Nat
      /\ 1 \in Helper /\ 2 \in Helper
  BY <1>1, ReceiveTestFacts, ProgramWellFormed
<1>3. closed = 1 /\ ReceiveHeld /\ ReceiveOrder /\ \A i \in Nat : Past(i) <=> i < line
  BY ReceiveAtAssert
<1>4. \/ line = 4 /\ program[line] = mu_assert("size", 0, {1})
      \/ line \in {6, 10} /\ program[line] = mu_assert("size", 0, {0})
      \/ line = 11 /\ program[line] = mu_assert("out", GEN_ERROR, {2})
      \/ line = 14 /\ program[line] = mu_assert("out", SUCCESS, {1})
      \/ line = 15 /\ program[line] = mu_assert("data", "Message1", {1, 2})
      \/ line = 18 /\ program[line] = mu_assert("out", SUCCESS, {2})
      \/ line = 19 /\ program[line] = mu_assert("data", "Message2", {1, 2})
  BY <1>2 DEF ReceiveAsserts
<1>5. \A i \in Nat : Did(i) = IF i < line THEN 1 ELSE 0
  BY <1>3 DEF Did
<1>6. PICK s, a, b : /\ s = buffer.size /\ s \in Nat
                     /\ a = Succeeds(1) /\ a \in Nat /\ (Result(1) = SUCCESS <=> a = 1) /\ a <= 1
                     /\ b = Succeeds(2) /\ b \in Nat /\ (Result(2) = SUCCESS <=> b = 1) /\ b <= 1
  <2>1. /\ Succeeds(1) \in Nat /\ Succeeds(1) <= 1 /\ (Result(1) = SUCCESS <=> Succeeds(1) = 1)
        /\ Succeeds(2) \in Nat /\ Succeeds(2) <= 1 /\ (Result(2) = SUCCESS <=> Succeeds(2) = 1)
    BY DEF Succeeds
  <2> QED
    BY <1>1, <2>1, SizesType
<1>7. /\ line = 4 => s + a + b = 1
      /\ line \in {6, 10, 11} => s + a + b = 0
      /\ line \in {14, 15} => s + a + b = 1
  <2>1. s + a + b + Did(3) + Did(5) + Did(23) = Did(1) + Did(2) + Did(12) + Did(16) + Did(22)
    BY <1>3, <1>6 DEF ReceiveHeld
  <2>2. ASSUME line = 4
        PROVE  s + a + b = 1
    <3>1. Did(1) = 1 /\ Did(2) = 1 /\ Did(3) = 1 /\ Did(5) = 0 /\ Did(12) = 0 /\ Did(16) = 0
          /\ Did(22) = 0 /\ Did(23) = 0
      BY <1>5, <2>2
    <3>2. s + a + b + 1 + 0 + 0 = 1 + 1 + 0 + 0 + 0
      BY <2>1, <3>1
    <3> QED
      BY <1>6, <3>2
  <2>3. ASSUME line \in {6, 10, 11}
        PROVE  s + a + b = 0
    <3>1. Did(1) = 1 /\ Did(2) = 1 /\ Did(3) = 1 /\ Did(5) = 1 /\ Did(12) = 0 /\ Did(16) = 0
          /\ Did(22) = 0 /\ Did(23) = 0
      BY <1>5, <2>3
    <3>2. s + a + b + 1 + 1 + 0 = 1 + 1 + 0 + 0 + 0
      BY <2>1, <3>1
    <3> QED
      BY <1>6, <3>2
  <2>4. ASSUME line \in {14, 15}
        PROVE  s + a + b = 1
    <3>1. Did(1) = 1 /\ Did(2) = 1 /\ Did(3) = 1 /\ Did(5) = 1 /\ Did(12) = 1 /\ Did(16) = 0
          /\ Did(22) = 0 /\ Did(23) = 0
      BY <1>5, <2>4
    <3>2. s + a + b + 1 + 1 + 0 = 1 + 1 + 1 + 0 + 0
      BY <2>1, <3>1
    <3> QED
      BY <1>6, <3>2
  <2> QED
    BY <2>2, <2>3, <2>4
<1>8. \A h \in Helper : helper[h] # "new" => args[h].op = "receive"
  BY ReceiveHelpers
<1>9. /\ \A h \in {1, 2} : /\ out[h] = SUCCESS => Result(h) = SUCCESS
                           /\ Result(h) # SUCCESS => out[h] = GEN_ERROR
      /\ \A h \in {1, 2} : helper[h] = "exited" => out[h] = SUCCESS /\ Result(h) = SUCCESS /\ got[h] = Message(h)
  BY <1>2, <1>3, <1>8, OutIsResult, ExitedSucceeded
<1>10. /\ line > 13 => helper[1] = "exited" \/ helper[2] = "exited"
       /\ line > 17 => helper[1] = "exited" /\ helper[2] = "exited"
  BY DEF ReceiveWaits
<1>11. line > 8 => Created = {1, 2}
  BY ReceiveCreated
<1>12. CASE line \in {4, 6, 10}
  <2>1. (line = 4 => s = 1) /\ (line \in {6, 10} => s = 0)
    <3>1. line = 4 => a = 0 /\ b = 0
      <4>1. line = 4 => Result(1) # SUCCESS /\ Result(2) # SUCCESS
        BY <1>3, ReceiveProgress
      <4> QED
        BY <1>6, <4>1
    <3> QED
      BY <1>6, <1>7, <3>1
  <2>2. Tally("size", 0) = s
    BY <1>6, Tallies
  <2>3. line = 4 => program[line] = mu_assert("size", 0, {1}) /\ Tally("size", 0) \in {1}
    BY <1>4, <2>1, <2>2
  <2>4. line \in {6, 10} => program[line] = mu_assert("size", 0, {0}) /\ Tally("size", 0) \in {0}
    BY <1>4, <2>1, <2>2
  <2> QED
    BY <1>12, <2>3, <2>4, HoldsAt
<1>13. CASE line = 11
  <2>1. a = 0 /\ b = 0
    BY <1>6, <1>7, <1>13
  <2>2. out[1] = GEN_ERROR /\ out[2] = GEN_ERROR
    BY <1>6, <1>9, <2>1
  <2>3. OutOf(GEN_ERROR) = {1, 2}
    BY <1>11, <1>13, <2>2 DEF OutOf
  <2>4. Cardinality({1, 2}) = 2
    <3>1. 1 # 2
      OBVIOUS
    <3> QED
      BY <3>1, OneAndTwo
  <2>5. Tally("out", GEN_ERROR) \in {2}
    BY <2>3, <2>4, Tallies
  <2> QED
    BY <1>4, <1>13, <2>5, HoldsAt
<1>14. CASE line = 14 \/ line = 15
  <2>1. (a = 1 /\ b = 0 /\ helper[1] = "exited") \/ (a = 0 /\ b = 1 /\ helper[2] = "exited")
    BY <1>6, <1>7, <1>9, <1>10, <1>14
  <2>2. PICK h \in {1, 2} : \A g \in {1, 2} :
          /\ helper[h] = "exited"
          /\ Result(g) = SUCCESS <=> g = h
    BY <1>6, <2>1
  <2>3. Created = {1, 2}
    BY <1>11, <1>14
  <2>4. OutOf(SUCCESS) = {h}
    BY <1>9, <2>2, <2>3 DEF OutOf
  <2>5. got[h] = "Message1"
    BY <1>3, <1>9, <2>2 DEF ReceiveOrder
  <2>6. Cardinality({h}) = 1
    BY FS_Singleton
  <2>7. line = 14 => Tally("out", SUCCESS) \in {1}
    BY <2>4, <2>6, Tallies
  <2>8. h \in GotOf("Message1") /\ GotOf("Message1") \subseteq {1, 2}
    BY <2>3, <2>5 DEF GotOf
  <2>9. Cardinality(GotOf("Message1")) \in {1, 2}
    <3>1. GotOf("Message1") = {1} \/ GotOf("Message1") = {2} \/ GotOf("Message1") = {1, 2}
      BY <2>8
    <3>2. Cardinality({1}) = 1 /\ Cardinality({2}) = 1 /\ Cardinality({1, 2}) = 2
      <4>1. 1 # 2
        OBVIOUS
      <4> QED
        BY <4>1, OneAndTwo
    <3> QED
      BY <3>1, <3>2
  <2>10. Tally("data", "Message1") \in {1, 2}
    BY <2>9, Tallies
  <2> QED
    BY <1>4, <1>14, <2>7, <2>10, HoldsAt
<1>15. CASE line = 18 \/ line = 19
  <2>1. helper[1] = "exited" /\ helper[2] = "exited"
    BY <1>10, <1>15
  <2>2. /\ out[1] = SUCCESS /\ out[2] = SUCCESS
        /\ got[1] = "Message2" \/ got[2] = "Message2"
    BY <1>3, <1>9, <2>1 DEF ReceiveOrder
  <2>3. Created = {1, 2}
    BY <1>11, <1>15
  <2>4. OutOf(SUCCESS) = {1, 2}
    BY <2>2, <2>3 DEF OutOf
  <2>5. Cardinality({1}) = 1 /\ Cardinality({2}) = 1 /\ Cardinality({1, 2}) = 2
    <3>1. 1 # 2
      OBVIOUS
    <3> QED
      BY <3>1, OneAndTwo
  <2>6. Tally("out", SUCCESS) \in {2}
    BY <2>4, <2>5, Tallies
  <2>7. GotOf("Message2") = {1} \/ GotOf("Message2") = {2} \/ GotOf("Message2") = {1, 2}
    BY <2>2, <2>3 DEF GotOf
  <2>8. Tally("data", "Message2") \in {1, 2}
    BY <2>5, <2>7, Tallies
  <2> QED
    BY <1>4, <1>15, <2>6, <2>8, HoldsAt
<1> QED
  BY <1>4, <1>12, <1>13, <1>14, <1>15

-----------------------------------------------------------------------------
(***************************************************************************)
(* The asserts of the tests that load the channel come when all helpers    *)
(* have been joined, and say how many of them had which result.            *)
(***************************************************************************)
LoadAsserts ==
  LET n == test.senders
      m == test.receivers
      c == test.capacity
  IN  CASE test.name = "test_overall_send_receive" ->
             {mu_assert("out", SUCCESS, {2 * n}), mu_assert("data", "Message1", {n})}
        [] test.name = "test_non_blocking_send" -> {mu_assert("out", CHANNEL_FULL, {n - c})}
        [] test.name = "test_non_blocking_receive" ->
             OncePerMessage(n, m, c)
        [] test.name = "test_channel_close_with_send" -> {mu_assert("out", CLOSED_ERROR, {n - c})}
        [] test.name = "test_channel_close_with_receive" -> {mu_assert("out", CLOSED_ERROR, {m - c})}

(* Where the asserts are. *)
LEMMA LoadTestAsserts ==
  ASSUME ScriptTypeOK, test.name \in LoadTests, line \in 1 .. Len(program),
         program[line].do = "mu_assert"
  PROVE  /\ line > LastJoin /\ program[line] \in LoadAsserts
         /\ test.name \notin CloseTests => line < FirstClose
         /\ test.name \in CloseTests => line > FirstClose
<1>1. /\ test.senders \in Nat /\ test.receivers \in Nat /\ test.capacity \in Nat
      /\ Lines(test) /\ line \in Nat
  BY SettingsOfTest, ProgramWellFormed
<1>2. CASE test.name = "test_overall_send_receive"
  <2> DEFINE n == test.senders
             A == {mu_assert("out", SUCCESS, {2 * n}), mu_assert("data", "Message1", {n})}
  <2>1. AssertsOnly(program, 4 * n, 4 * n + 3, A)
    BY <1>1, <1>2, OverallSendReceiveFacts DEF Lines, program
  <2>2. LastJoin = 4 * n /\ FirstClose = 4 * n + 3 /\ LoadAsserts = A
    BY <1>2 DEF LastJoin, FirstClose, LoadAsserts
  <2>3. test.name \notin CloseTests
    BY <1>2 DEF CloseTests
  <2> HIDE DEF A
  <2> QED
    BY <2>1, <2>2, <2>3 DEF AssertsOnly
<1>3. CASE test.name = "test_non_blocking_send"
  <2> DEFINE n == test.senders
             A == {mu_assert("out", CHANNEL_FULL, {n - test.capacity})}
  <2>1. AssertsOnly(program, 2 * n, 2 * n + 2, A)
    BY <1>1, <1>3, NonBlockingSendFacts DEF Lines, program
  <2>2. LastJoin = 2 * n /\ FirstClose = 2 * n + 2 /\ LoadAsserts = A
    BY <1>3 DEF LastJoin, FirstClose, LoadAsserts
  <2>3. test.name \notin CloseTests
    BY <1>3 DEF CloseTests
  <2> HIDE DEF A
  <2> QED
    BY <2>1, <2>2, <2>3 DEF AssertsOnly
<1>4. CASE test.name = "test_non_blocking_receive"
  <2> DEFINE n == test.senders
             m == test.receivers
             c == test.capacity
             A == OncePerMessage(n, m, c)
  <2>1. AssertsOnly(program, c + 2 * n + 3 * m, c + 3 * n + 3 * m + 3, A)
    BY <1>1, <1>4, NonBlockingReceiveFacts DEF Lines, program
  <2>2. LastJoin = c + 2 * n + 3 * m /\ FirstClose = c + 3 * n + 3 * m + 3 /\ LoadAsserts = A
    BY <1>4 DEF LastJoin, FirstClose, LoadAsserts
  <2>3. test.name \notin CloseTests
    BY <1>4 DEF CloseTests
  <2> HIDE DEF A
  <2> QED
    BY <2>1, <2>2, <2>3 DEF AssertsOnly
<1>5. CASE test.name = "test_channel_close_with_send"
  <2> DEFINE n == test.senders
             c == test.capacity
             A == {mu_assert("out", CLOSED_ERROR, {n - c})}
  <2>1. AssertsOnly(program, 2 * n + c + 1, 2 * n + c + 3, A)
    BY <1>1, <1>5, CloseWithSendFacts DEF Lines, program
  <2>2. LastJoin = 2 * n + c + 1 /\ FirstClose = n + c + 1 /\ LoadAsserts = A
    BY <1>5 DEF LastJoin, FirstClose, LoadAsserts
  <2>3. test.name \in CloseTests
    BY <1>5 DEF CloseTests
  <2> HIDE DEF A
  <2>4. line > 2 * n + c + 1 /\ program[line] \in A
    BY <2>1 DEF AssertsOnly
  <2>5. line > n + c + 1
    BY <1>1, <2>4
  <2> QED
    BY <2>2, <2>3, <2>4, <2>5
<1>6. CASE test.name = "test_channel_close_with_receive"
  <2> DEFINE n == test.receivers
             c == test.capacity
             A == {mu_assert("out", CLOSED_ERROR, {n - c})}
  <2>1. AssertsOnly(program, 2 * n + 2 * c + 1, 2 * n + 2 * c + 3, A)
    BY <1>1, <1>6, CloseWithReceiveFacts DEF Lines, program
  <2>2. LastJoin = 2 * n + 2 * c + 1 /\ FirstClose = n + 2 * c + 1 /\ LoadAsserts = A
    BY <1>6 DEF LastJoin, FirstClose, LoadAsserts
  <2>3. test.name \in CloseTests
    BY <1>6 DEF CloseTests
  <2> HIDE DEF A
  <2>4. line > 2 * n + 2 * c + 1 /\ program[line] \in A
    BY <2>1 DEF AssertsOnly
  <2>5. line > n + 2 * c + 1
    BY <1>1, <2>4
  <2> QED
    BY <2>2, <2>3, <2>4, <2>5
<1> QED
  BY <1>2, <1>3, <1>4, <1>5, <1>6 DEF LoadTests

(* At those asserts the channel is closed in the tests that close it       *)
(* before, and every helper has stored its result.                         *)
LEMMA LoadAtAssert ==
  ASSUME ScriptInv, ~failed, test.name \in LoadTests, line \in 1 .. Len(program),
         program[line].do = "mu_assert"
  PROVE  /\ closed = IF test.name \in CloseTests THEN 0 ELSE 1
         /\ Created = 1 .. Helpers /\ program[line] \in LoadAsserts
         /\ \A h \in 1 .. Helpers :
              /\ h \in Helper /\ helper[h] = "exited"
              /\ Result(h) = out[h] /\ Message(h) = got[h]
              /\ Result(h) \in {SUCCESS, CLOSED_ERROR, CHANNEL_FULL}
         /\ \A x : OutOf(x) = {h \in 1 .. Helpers : Result(h) = x}
         /\ \A x : GotOf(x) = {h \in 1 .. Helpers : Message(h) = x}
<1>1. ScriptTypeOK /\ MainInv /\ ClosedInv /\ closed \in {0, 1}
  BY DEF ScriptInv, IInv, TypeOK
<1>2. /\ line > LastJoin /\ program[line] \in LoadAsserts
      /\ test.name \notin CloseTests => line < FirstClose
      /\ test.name \in CloseTests => line > FirstClose
  BY <1>1, LoadTestAsserts
<1>3. HelpersUntil(program, Helpers, LastJoin) /\ ClosedAt(program, FirstClose)
  BY <1>1, LoadTestHelpers, LoadTestCloses
<1>4. /\ Created = 1 .. Helpers
      /\ \A h \in 1 .. Helpers :
           /\ h \in Helper /\ helper[h] = "exited"
           /\ Result(h) = out[h] /\ Message(h) = got[h]
           /\ Result(h) \in {SUCCESS, CLOSED_ERROR, CHANNEL_FULL}
  BY <1>2, <1>3, AllJoined
<1>5. Len(program) \in Nat /\ line \in Nat
  BY <1>1, ProgramWellFormed
<1>6. pc[0] = "idle"
  BY <1>1 DEF MainInv
<1>7. ASSUME test.name \in CloseTests
      PROVE  closed = 0
  <2>1. Past(FirstClose) /\ Closes(program, FirstClose) /\ FirstClose \in 1 .. Len(program)
    BY <1>2, <1>3, <1>7 DEF Past, ClosedAt
  <2> QED
    BY <1>1, <1>7, <2>1 DEF ClosedInv
<1>8. ASSUME test.name \notin CloseTests
      PROVE  closed = 1
  <2>1. ASSUME NEW i \in 1 .. Len(program), Past(i), Closes(program, i)
        PROVE  FALSE
    <3>1. i < line
      BY <1>6, <2>1 DEF Past
    <3>2. i >= FirstClose /\ FirstClose \in 1 .. Len(program)
      BY <1>3, <2>1 DEF ClosedAt
    <3> QED
      BY <1>2, <1>5, <1>8, <3>1, <3>2
  <2>2. closed # 0
    BY <1>1, <2>1 DEF ClosedInv
  <2> QED
    BY <1>1, <1>8, <2>2
<1>9. ASSUME NEW x
      PROVE  /\ OutOf(x) = {h \in 1 .. Helpers : Result(h) = x}
             /\ GotOf(x) = {h \in 1 .. Helpers : Message(h) = x}
  BY <1>4 DEF OutOf, GotOf
<1> QED
  BY <1>2, <1>4, <1>7, <1>8, <1>9

(* Counting. *)
LEMMA CountTo ==
  ASSUME NEW n \in Nat
  PROVE  IsFiniteSet(1 .. n) /\ Cardinality(1 .. n) = n
<1>1. Cardinality(1 .. n) = IF 1 > n THEN 0 ELSE n - 1 + 1
  BY FS_Interval
<1>2. IsFiniteSet(1 .. n)
  BY FS_Interval
<1> QED
  BY <1>1, <1>2

(* The parts of a finite set count up to it. *)
LEMMA CountRest ==
  ASSUME NEW S, NEW T, NEW U, IsFiniteSet(U), S \cup T = U, S \cap T = {}
  PROVE  /\ Cardinality(S) + Cardinality(T) = Cardinality(U)
         /\ Cardinality(S) \in Nat /\ Cardinality(T) \in Nat
<1>1. IsFiniteSet(S) /\ IsFiniteSet(T)
  BY FS_Subset
<1>2. Cardinality(S) \in Nat /\ Cardinality(T) \in Nat
  BY <1>1, FS_CardinalityType
<1>3. Cardinality(U) = Cardinality(S) + Cardinality(T) - Cardinality(S \cap T)
  BY <1>1, FS_Union
<1>4. Cardinality(S \cap T) = 0
  BY FS_EmptySet
<1> QED
  BY <1>2, <1>3, <1>4

(* test_overall_send_receive: every call has succeeded. *)
LEMMA OverallAsserts ==
  ASSUME ScriptInv, ~failed, test.name = "test_overall_send_receive", Loaded,
         line \in 1 .. Len(program), program[line].do = "mu_assert"
  PROVE  Holds
<1>1. ScriptTypeOK /\ ResultInv /\ test.name \in LoadTests
  BY DEF ScriptInv, LoadTests
<1>2. PICK n : n = test.senders /\ n \in Nat /\ Helpers = 2 * n
  BY <1>1, SettingsOfTest DEF Helpers
<1>3. /\ closed = 1
      /\ Created = 1 .. 2 * n
      /\ \A h \in 1 .. 2 * n : /\ h \in Helper /\ helper[h] = "exited"
                               /\ Result(h) \in {SUCCESS, CLOSED_ERROR, CHANNEL_FULL}
  BY <1>1, <1>2, LoadAtAssert DEF CloseTests
<1>4. \A x : OutOf(x) = {h \in 1 .. 2 * n : Result(h) = x}
  BY <1>1, <1>2, LoadAtAssert
<1>5. \A x : GotOf(x) = {h \in 1 .. 2 * n : Message(h) = x}
  BY <1>1, <1>2, LoadAtAssert
<1>6. \A h \in 1 .. 2 * n : \/ h \in 1 .. n /\ args[h].op = "receive"
                            \/ h \in n + 1 .. 2 * n /\ args[h].op = "send"
  BY <1>2, <1>3, LoadTestCalls
<1>7. \A h \in 1 .. 2 * n : Result(h) = SUCCESS
  <2>1. \A h \in 1 .. 2 * n : Result(h) # CLOSED_ERROR
    BY <1>1, <1>3 DEF ResultInv
  <2>2. \A h \in 1 .. 2 * n : Result(h) # CHANNEL_FULL
    BY <1>1, <1>3, <1>6 DEF ResultInv
  <2> QED
    BY <1>3, <2>1, <2>2
<1>8. OutOf(SUCCESS) = 1 .. 2 * n
  BY <1>4, <1>7
<1>9. GotOf("Message1") = 1 .. n
  <2>1. ASSUME NEW h \in 1 .. n PROVE Message(h) = "Message1" /\ h \in 1 .. 2 * n
    <3>1. h \in 1 .. 2 * n /\ h \notin n + 1 .. 2 * n
      BY <1>2
    <3>2. h \in Took
      BY <1>3, <1>6, <1>7, <3>1 DEF Took, ReceiveOps
    <3>3. \A g \in Took : Message(g) \in {First} \cup Rest
      BY <1>1, <1>3 DEF Loaded, LoadInv
    <3>4. First = "Message1" /\ Rest = {"Message1"}
      BY DEF First, Rest
    <3> QED
      BY <3>1, <3>2, <3>3, <3>4
  <2>2. ASSUME NEW h \in 1 .. 2 * n, Message(h) = "Message1" PROVE h \in 1 .. n
    <3>1. Message(h) \in Value
      BY <2>2, ScriptAssumption
    <3>2. args[h].op \in ReceiveOps
      BY <1>1, <1>3, <3>1 DEF ResultInv
    <3> QED
      BY <1>6, <3>2 DEF ReceiveOps
  <2> QED
    BY <1>5, <2>1, <2>2
<1>10. Tally("out", SUCCESS) \in {2 * n} /\ Tally("data", "Message1") \in {n}
  <2>1. Cardinality(1 .. 2 * n) = 2 * n /\ Cardinality(1 .. n) = n
    <3>1. 2 * n \in Nat
      BY <1>2
    <3> QED
      BY <1>2, <3>1, CountTo
  <2> QED
    BY <1>8, <1>9, <2>1, Tallies
<1>11. program[line] \in LoadAsserts
  BY <1>1, LoadAtAssert
<1>12. \/ program[line] = mu_assert("out", SUCCESS, {2 * n})
       \/ program[line] = mu_assert("data", "Message1", {n})
  BY <1>2, <1>11 DEF LoadAsserts
<1> QED
  BY <1>10, <1>12, HoldsAt

(* test_non_blocking_send: as many sends succeed as the channel has slots. *)
LEMMA NonBlockingSendAsserts ==
  ASSUME ScriptInv, ~failed, test.name = "test_non_blocking_send", Loaded, CapacityInv, FullInv,
         line \in 1 .. Len(program), program[line].do = "mu_assert"
  PROVE  Holds
<1>1. ScriptTypeOK /\ ResultInv /\ IInv /\ test.name \in LoadTests
  BY DEF ScriptInv, LoadTests
<1>2. PICK n, c : /\ n = test.senders /\ n \in Nat /\ Helpers = n
                  /\ c = test.capacity /\ c \in Nat /\ n >= c
  BY <1>1, SettingsOfTest DEF Helpers
<1>3. /\ closed = 1
      /\ Created = 1 .. n
      /\ \A h \in 1 .. n : /\ h \in Helper /\ helper[h] = "exited"
                           /\ Result(h) \in {SUCCESS, CLOSED_ERROR, CHANNEL_FULL}
  BY <1>1, <1>2, LoadAtAssert DEF CloseTests
<1>4. OutOf(CHANNEL_FULL) = {h \in 1 .. n : Result(h) = CHANNEL_FULL}
  <2>1. \A x : OutOf(x) = {h \in 1 .. n : Result(h) = x}
    BY <1>1, <1>2, LoadAtAssert
  <2> QED
    BY <2>1
<1>5. \A h \in Helper : helper[h] # "new" => h \in 1 .. n /\ args[h].op = "non_blocking_send"
  BY <1>2, LoadTestCalls
<1>6. \A h \in 1 .. n : Result(h) # CLOSED_ERROR
  BY <1>1, <1>3 DEF ResultInv
<1>7. \A h \in Helper : Result(h) = SUCCESS => helper[h] # "new"
  BY ResultCreated DEF SUCCESS, GEN_ERROR
<1>8. Took = {}
  BY <1>5, <1>7 DEF Took, ReceiveOps
<1>9. Gave \cup OutOf(CHANNEL_FULL) = 1 .. n /\ Gave \cap OutOf(CHANNEL_FULL) = {}
  <2>1. Gave = {h \in 1 .. n : Result(h) = SUCCESS}
    <3>1. \A h \in 1 .. n : h \in Helper /\ args[h].op = "non_blocking_send"
      BY <1>3, <1>5
    <3>2. \A h \in Helper : Result(h) = SUCCESS => h \in 1 .. n
      BY <1>5, <1>7
    <3> QED
      BY <3>1, <3>2 DEF Gave, SendOps
  <2>2. SUCCESS # CHANNEL_FULL
    BY DEF SUCCESS, CHANNEL_FULL
  <2> QED
    BY <1>3, <1>4, <1>6, <2>1, <2>2
<1>10. PICK g, f : /\ g = Cardinality(Gave) /\ f = Cardinality(OutOf(CHANNEL_FULL))
                   /\ g \in Nat /\ f \in Nat /\ g + f = n
  <2>1. IsFiniteSet(1 .. n) /\ Cardinality(1 .. n) = n
    BY <1>2, CountTo
  <2>2. /\ Cardinality(Gave) + Cardinality(OutOf(CHANNEL_FULL)) = Cardinality(1 .. n)
        /\ Cardinality(Gave) \in Nat /\ Cardinality(OutOf(CHANNEL_FULL)) \in Nat
    BY <1>9, <2>1, CountRest, Zenon
  <2> QED
    BY <2>1, <2>2
<1>11. buffer.size = g
  <2>1. Cardinality(Took) = 0
    BY <1>8, FS_EmptySet
  <2>2. buffer.size + Cardinality(Took) = Cardinality(Gave) + Sent(Prefix)
    BY <1>1, <1>3 DEF Loaded, LoadInv
  <2>3. Sent(Prefix) = 0
    <3>1. Prefix = 0 /\ line > 0
      BY <1>1, ProgramWellFormed DEF Prefix
    <3> QED
      BY <3>1 DEF Sent
  <2>4. buffer.size \in Nat
    BY <1>1, SizesType
  <2> QED
    BY <1>10, <2>1, <2>2, <2>3, <2>4
<1>12. g <= c
  BY <1>1, <1>2, <1>3, <1>11, SizesType DEF CapacityInv
<1>13. f # 0 => g = c
  <2>1. f # 0 => OutOf(CHANNEL_FULL) # {}
    BY <1>10, FS_EmptySet
  <2>2. \A h \in 1 .. n : Result(h) = CHANNEL_FULL => buffer.size = buffer.capacity
    BY <1>3 DEF FullInv
  <2>3. f # 0 => buffer.size = buffer.capacity
    BY <1>4, <2>1, <2>2
  <2> QED
    BY <1>2, <1>3, <1>11, <2>3 DEF CapacityInv
<1>14. f = n - c
  BY <1>2, <1>10, <1>12, <1>13
<1>15. Tally("out", CHANNEL_FULL) \in {n - c}
  BY <1>10, <1>14, Tallies
<1>16. program[line] \in LoadAsserts
  BY <1>1, LoadAtAssert
<1>17. program[line] = mu_assert("out", CHANNEL_FULL, {n - c})
  BY <1>2, <1>16 DEF LoadAsserts
<1> QED
  BY <1>15, <1>17, HoldsAt

(* The tests that close the channel: as many calls succeed as it has       *)
(* slots, all others are told that it is closed.                           *)
LEMMA CloseAsserts ==
  ASSUME ScriptInv, ~failed, test.name \in CloseTests, CloseCountInv,
         line \in 1 .. Len(program), program[line].do = "mu_assert"
  PROVE  Holds
<1>1. ScriptTypeOK /\ ResultInv /\ test.name \in LoadTests
  BY DEF ScriptInv, LoadTests, CloseTests
<1>2. PICK n, c : /\ n = Helpers /\ n \in Nat /\ c = test.capacity /\ c \in Nat
                  /\ LoadAsserts = {mu_assert("out", CLOSED_ERROR, {n - c})}
  <2>1. /\ test.senders \in Nat /\ test.receivers \in Nat /\ test.capacity \in Nat
        /\ test.name = "test_channel_close_with_send" => test.receivers = 0
        /\ test.name = "test_channel_close_with_receive" => test.senders = 0
    BY <1>1, SettingsOfTest
  <2>2. CASE test.name = "test_channel_close_with_send"
    <3>1. Helpers = test.senders /\ Helpers \in Nat
      BY <2>1, <2>2 DEF Helpers
    <3>2. LoadAsserts = {mu_assert("out", CLOSED_ERROR, {test.senders - test.capacity})}
      BY <2>2 DEF LoadAsserts
    <3> QED
      BY <2>1, <3>1, <3>2
  <2>3. CASE test.name = "test_channel_close_with_receive"
    <3>1. Helpers = test.receivers /\ Helpers \in Nat
      BY <2>1, <2>3 DEF Helpers
    <3>2. LoadAsserts = {mu_assert("out", CLOSED_ERROR, {test.receivers - test.capacity})}
      BY <2>3 DEF LoadAsserts
    <3> QED
      BY <2>1, <3>1, <3>2
  <2> QED
    BY <2>2, <2>3 DEF CloseTests
<1>3. /\ closed = 0
      /\ Created = 1 .. n
      /\ \A h \in 1 .. n : /\ h \in Helper
                           /\ Result(h) \in {SUCCESS, CLOSED_ERROR, CHANNEL_FULL}
  BY <1>1, <1>2, LoadAtAssert
<1>4. OutOf(CLOSED_ERROR) = {h \in 1 .. n : Result(h) = CLOSED_ERROR}
  <2>1. \A x : OutOf(x) = {h \in 1 .. n : Result(h) = x}
    BY <1>1, <1>2, LoadAtAssert
  <2> QED
    BY <2>1
<1>5. \A h \in Helper : Result(h) # CHANNEL_FULL
  BY SuccessesOfClose
<1>6. \A h \in Helper : Result(h) = SUCCESS => h \in 1 .. n
  <2>1. \A h \in Helper : Result(h) = SUCCESS => h \in Created
    BY ResultCreated DEF Created, SUCCESS, GEN_ERROR
  <2> QED
    BY <1>3, <2>1
<1>7. Successes \cup OutOf(CLOSED_ERROR) = 1 .. n /\ Successes \cap OutOf(CLOSED_ERROR) = {}
  <2>1. Successes = {h \in 1 .. n : Result(h) = SUCCESS}
    BY <1>3, <1>6 DEF Successes
  <2>2. SUCCESS # CLOSED_ERROR
    BY DEF SUCCESS, CLOSED_ERROR
  <2> QED
    BY <1>3, <1>4, <1>5, <2>1, <2>2
<1>8. PICK f : f = Cardinality(OutOf(CLOSED_ERROR)) /\ f \in Nat /\ c + f = n
  <2>1. IsFiniteSet(1 .. n) /\ Cardinality(1 .. n) = n
    BY <1>2, CountTo
  <2>2. /\ Cardinality(Successes) + Cardinality(OutOf(CLOSED_ERROR)) = Cardinality(1 .. n)
        /\ Cardinality(Successes) \in Nat /\ Cardinality(OutOf(CLOSED_ERROR)) \in Nat
    BY <1>7, <2>1, CountRest, Zenon
  <2>3. Cardinality(Successes) = c
    BY <1>2, <1>3 DEF CloseCountInv
  <2> QED
    BY <2>1, <2>2, <2>3
<1>9. f = n - c
  BY <1>2, <1>8
<1>10. Tally("out", CLOSED_ERROR) \in {n - c}
  BY <1>8, <1>9, Tallies
<1>11. program[line] \in LoadAsserts
  BY <1>1, LoadAtAssert
<1>12. program[line] = mu_assert("out", CLOSED_ERROR, {n - c})
  BY <1>2, <1>11
<1> QED
  BY <1>10, <1>12, HoldsAt

(* test_non_blocking_receive: every message is received, and the receivers *)
(* that are left find the channel empty.                                   *)
LEMMA NonBlockingReceiveAsserts ==
  ASSUME ScriptInv, ~failed, test.name = "test_non_blocking_receive", Loaded, SettledInv, OnceInv,
         line \in 1 .. Len(program), program[line].do = "mu_assert"
  PROVE  Holds
<1>1. ScriptTypeOK /\ ResultInv /\ IInv /\ test.name \in LoadTests
  BY DEF ScriptInv, LoadTests
<1>2. PICK n, m, c : /\ n = test.senders /\ n \in Nat
                     /\ m = test.receivers /\ m \in Nat
                     /\ c = test.capacity /\ c \in Nat /\ m >= n + c /\ Helpers = n + m
                     /\ Prefix = c /\ First = "Message" /\ "Message" \notin Rest
  <2>1. Prefix = test.capacity /\ First = "Message" /\ "Message" \notin Rest
    BY DEF Prefix, First, Rest
  <2> QED
    BY <1>1, <2>1, SettingsOfTest DEF Helpers
<1>24. n \in Nat /\ m \in Nat /\ c \in Nat /\ m >= n + c
  BY <1>2
<1>3. /\ closed = 1
      /\ Created = 1 .. n + m
      /\ \A h \in 1 .. n + m : /\ h \in Helper /\ helper[h] = "exited"
                               /\ Result(h) \in {SUCCESS, CLOSED_ERROR, CHANNEL_FULL}
  BY <1>1, <1>2, LoadAtAssert DEF CloseTests
<1>4. \A x : OutOf(x) = {h \in 1 .. n + m : Result(h) = x}
  BY <1>1, <1>2, LoadAtAssert
<1>5. \A x : GotOf(x) = {h \in 1 .. n + m : Message(h) = x}
  BY <1>1, <1>2, LoadAtAssert
<1>6. \A h \in Helper : helper[h] # "new" =>
           \/ h \in 1 .. n /\ args[h].op = "send"
           \/ h \in n + 1 .. n + m /\ args[h].op = "non_blocking_receive"
  BY <1>2, LoadTestCalls
<1>7. \A h \in Helper : Result(h) = SUCCESS => helper[h] # "new"
  BY ResultCreated DEF SUCCESS, GEN_ERROR
<1>8. \A h \in 1 .. n + m : Result(h) # CLOSED_ERROR
  BY <1>1, <1>3 DEF ResultInv
<1>9. \A h \in 1 .. n : h \in 1 .. n + m /\ h \notin n + 1 .. n + m
  BY <1>2
<1>10. \A h \in 1 .. n + m : h \notin 1 .. n => h \in n + 1 .. n + m
  BY <1>2
<1>11. \A h \in n + 1 .. n + m : h \in 1 .. n + m /\ h \notin 1 .. n
  BY <1>2
<1>12. Gave = 1 .. n
  <2>1. ASSUME NEW h \in 1 .. n PROVE h \in Gave
    <3>1. h \in Helper /\ helper[h] # "new" /\ args[h].op = "send"
      BY <1>3, <1>6, <1>9
    <3>2. Result(h) # CHANNEL_FULL
      BY <1>1, <3>1 DEF ResultInv
    <3>3. Result(h) = SUCCESS
      BY <1>3, <1>8, <1>9, <3>2
    <3> QED
      BY <3>1, <3>3 DEF Gave, SendOps
  <2>2. ASSUME NEW h \in Gave PROVE h \in 1 .. n
    BY <1>6, <1>7 DEF Gave, SendOps
  <2> QED
    BY <2>1, <2>2
<1>13. Took \cup OutOf(CHANNEL_FULL) = n + 1 .. n + m /\ Took \cap OutOf(CHANNEL_FULL) = {}
  <2>1. Took \subseteq n + 1 .. n + m
    BY <1>6, <1>7 DEF Took, ReceiveOps
  <2>2. OutOf(CHANNEL_FULL) \subseteq n + 1 .. n + m
    <3>1. \A h \in OutOf(CHANNEL_FULL) : h \in 1 .. n + m /\ Result(h) = CHANNEL_FULL
      BY <1>4
    <3>2. \A h \in 1 .. n : Result(h) = SUCCESS
      BY <1>12 DEF Gave
    <3>3. \A h \in OutOf(CHANNEL_FULL) : h \notin 1 .. n
      BY <3>1, <3>2 DEF SUCCESS, CHANNEL_FULL
    <3> QED
      BY <1>10, <3>1, <3>3
  <2>3. ASSUME NEW h \in n + 1 .. n + m
        PROVE  h \in Took \/ h \in OutOf(CHANNEL_FULL)
    <3>1. h \in Helper /\ helper[h] # "new" /\ h \in 1 .. n + m /\ h \notin 1 .. n
      BY <1>3, <1>11
    <3>2. args[h].op = "non_blocking_receive"
      BY <1>6, <3>1
    <3>3. Result(h) = SUCCESS \/ Result(h) = CHANNEL_FULL
      BY <1>3, <1>8, <3>1
    <3> QED
      BY <1>4, <3>1, <3>2, <3>3 DEF Took, ReceiveOps
  <2>4. ASSUME NEW h \in Took, h \in OutOf(CHANNEL_FULL)
        PROVE  FALSE
    <3>1. Result(h) = SUCCESS /\ Result(h) = CHANNEL_FULL
      BY <1>4, <2>4 DEF Took
    <3> QED
      BY <3>1 DEF SUCCESS, CHANNEL_FULL
  <2> QED
    BY <2>1, <2>2, <2>3, <2>4
<1>14. PICK t, f : /\ t = Cardinality(Took) /\ f = Cardinality(OutOf(CHANNEL_FULL))
                   /\ t \in Nat /\ f \in Nat /\ t + f = m
  <2> DEFINE U == n + 1 .. n + m
  <2>1. IsFiniteSet(U) /\ Cardinality(U) = m
    <3>1. PICK a, b : a = n + 1 /\ b = n + m /\ a \in Int /\ b \in Int
      BY <1>24
    <3>2. IsFiniteSet(a .. b) /\ Cardinality(a .. b) = IF a > b THEN 0 ELSE b - a + 1
      BY <3>1, FS_Interval
    <3>3. Cardinality(a .. b) = m
      BY <1>24, <3>1, <3>2
    <3> QED
      BY <3>1, <3>2, <3>3
  <2>2. /\ Cardinality(Took) + Cardinality(OutOf(CHANNEL_FULL)) = Cardinality(U)
        /\ Cardinality(Took) \in Nat /\ Cardinality(OutOf(CHANNEL_FULL)) \in Nat
    BY <1>13, <2>1, CountRest, Zenon
  <2> HIDE DEF U
  <2> QED
    BY <2>1, <2>2
<1>15. PICK s : s = buffer.size /\ s \in Nat /\ s + t = n + c
  <2>1. buffer.size + Cardinality(Took) = Cardinality(Gave) + Sent(Prefix)
    BY <1>1, <1>3 DEF Loaded, LoadInv
  <2>2. Cardinality(Gave) = n
    BY <1>2, <1>12, CountTo
  <2>3. Sent(Prefix) = c
    <3>1. line > LastJoin /\ line \in Nat
      BY <1>1, LoadTestAsserts, ProgramWellFormed
    <3>2. LastJoin = c + 2 * n + 3 * m
      BY <1>2 DEF LastJoin
    <3>3. line > c
      BY <1>24, <3>1, <3>2
    <3> QED
      BY <1>2, <3>3 DEF Sent
  <2>4. buffer.size \in Nat
    BY <1>1, SizesType
  <2> QED
    BY <1>14, <2>1, <2>2, <2>3, <2>4
<1>16. f # 0 => t = n + c
  <2>1. f # 0 => OutOf(CHANNEL_FULL) # {}
    BY <1>14, FS_EmptySet
  <2>2. \A h \in 1 .. n + m : Result(h) = CHANNEL_FULL => Cardinality(Took) = test.capacity + test.senders
    BY <1>3 DEF SettledInv
  <2>3. f # 0 => Cardinality(Took) = test.capacity + test.senders
    BY <1>4, <2>1, <2>2
  <2> QED
    BY <1>2, <1>14, <2>3
<1>17. t = n + c /\ f = m - n - c
  <2>1. t \in Nat /\ f \in Nat /\ t + f = m /\ s \in Nat /\ s + t = n + c
    BY <1>14, <1>15
  <2> QED
    BY <1>16, <1>24, <2>1
<1>18. \A v \in Value : GotOf(v) = TookOf(v)
  <2>1. ASSUME NEW v \in Value, NEW h \in 1 .. n + m, Message(h) = v
        PROVE  h \in TookOf(v)
    BY <1>1, <1>3, <2>1 DEF ResultInv, TookOf, Took
  <2>2. ASSUME NEW v \in Value, NEW h \in TookOf(v)
        PROVE  h \in 1 .. n + m /\ Message(h) = v
    BY <1>3, <1>7 DEF TookOf, Took, Created
  <2> QED
    BY <1>5, <2>1, <2>2
<1>19. Cardinality(TookOf("Message")) = c
  <2>1. Cardinality(TookOf("Message")) = IF Cardinality(Took) <= c THEN Cardinality(Took) ELSE c
    BY <1>1, <1>2, <1>3 DEF Loaded, LoadInv
  <2>2. t = Cardinality(Took)
    BY <1>14
  <2> QED
    BY <1>17, <1>24, <2>1, <2>2
<1>20. ASSUME NEW h \in 1 .. n
       PROVE  Cardinality(TookOf(Messages[h])) = 1
  <2>1. PICK x : x = Messages[h]
    OBVIOUS
  <2>2. AtMostOnce(x) /\ Somewhere(x)
    BY <1>2, <1>3, <1>12, <2>1 DEF OnceInv, Gave
  <2>3. buffer.size = 0
    BY <1>15, <1>17, <1>24
  <2>4. TookOf(x) # {} /\ \A g, e \in TookOf(x) : g = e
    BY <2>2, <2>3 DEF AtMostOnce, Somewhere
  <2>5. PICK g : TookOf(x) = {g}
    BY <2>4
  <2> QED
    BY <2>1, <2>5, FS_Singleton
<1>21. /\ Tally("data", "Message") \in {c}
       /\ \A h \in 1 .. n : Tally("data", Messages[h]) \in {1}
       /\ Tally("out", CHANNEL_EMPTY) \in {m - n - c}
  <2>1. "Message" \in Value /\ CHANNEL_EMPTY = CHANNEL_FULL
    BY ScriptAssumption DEF CHANNEL_EMPTY, CHANNEL_FULL
  <2>2. GotOf("Message") = TookOf("Message")
    BY <1>18, <2>1
  <2>3. \A h \in 1 .. n : GotOf(Messages[h]) = TookOf(Messages[h])
    BY <1>1, <1>2, <1>18, SenderMessages
  <2> QED
    BY <1>14, <1>17, <1>19, <1>20, <2>1, <2>2, <2>3, Tallies
<1>22. program[line] \in LoadAsserts
  BY <1>1, LoadAtAssert
<1>23. \/ program[line] = mu_assert("data", "Message", {c})
       \/ \E h \in 1 .. n : program[line] = mu_assert("data", Messages[h], {1})
       \/ program[line] = mu_assert("out", CHANNEL_EMPTY, {m - n - c})
  <2>1. program[line] \in OncePerMessage(n, m, c)
    BY <1>2, <1>22 DEF LoadAsserts
  <2> QED
    BY <2>1, Zenon DEF OncePerMessage
<1>25. ASSUME NEW h \in 1 .. n, program[line] = mu_assert("data", Messages[h], {1})
       PROVE  Holds
  BY <1>21, <1>25, HoldsAt
<1> QED
  BY <1>21, <1>23, <1>25, HoldsAt

-----------------------------------------------------------------------------
(***************************************************************************)
(* No statement of a test fails.                                           *)
(***************************************************************************)
TestInv ==
  /\ ScriptInv /\ ~failed
  /\ Loaded /\ CapacityInv /\ FullInv /\ CloseCountInv /\ SettledInv /\ OnceInv
  /\ SendWaits /\ SendInv
  /\ ReceiveWaits /\ ReceiveInv /\ ReceiveGot

(* The tests of TestScripts. *)
LEMMA TestNames ==
  ASSUME ScriptTypeOK
  PROVE  test.name \in LoadTests \/ SendTest \/ ReceiveTest \/ test.name = "test_free"
<1>1. test \in Programs
  BY DEF ScriptTypeOK
<1> DEFINE P(p) == p.name \in LoadTests \cup {"test_send_correctness", "test_receive_correctness",
                                              "test_free"}
<1>2. P(test)
  BY <1>1, ProgramAssumption DEF LoadTests
<1> QED
  BY <1>2 DEF SendTest, ReceiveTest

(* test_free has three statements, and none is a mu_assert. *)
LEMMA FreeStatements ==
  ASSUME ScriptTypeOK, test.name = "test_free", NEW i \in 1 .. Len(program)
  PROVE  /\ program[i].do # "mu_assert"
         /\ program[i].do = "call" => program[i].data = Value \cup {Uninit}
<1>1. FreeLines(program)
  BY ProgramWellFormed DEF Lines, program
<1>2. i \in 1 .. 3
  BY <1>1, PartValid DEF FreeLines
<1>3. /\ program[1].do = "destroy" /\ program[3].do = "destroy"
      /\ program[2].do = "call" /\ program[2].data = Value \cup {Uninit}
  BY <1>1 DEF FreeLines, destroy, call
<1>4. i = 1 \/ i = 2 \/ i = 3
  BY <1>2
<1> QED
  BY <1>3, <1>4

(* Every mu_assert holds when the main thread gets there. *)
LEMMA EveryAssertHolds ==
  ASSUME TestInv, line \in 1 .. Len(program), program[line].do = "mu_assert"
  PROVE  Holds
<1>1. ScriptInv /\ ~failed /\ ScriptTypeOK
  BY DEF TestInv, ScriptInv
<1>2. line <= Len(program)
  BY <1>1, ProgramWellFormed
<1>3. CASE test.name \in LoadTests
  <2>1. CASE test.name \in CloseTests
    BY <1>1, <2>1, CloseAsserts DEF TestInv
  <2>2. CASE test.name = "test_overall_send_receive"
    BY <1>1, <2>2, OverallAsserts DEF TestInv
  <2>3. CASE test.name = "test_non_blocking_send"
    BY <1>1, <2>3, NonBlockingSendAsserts DEF TestInv
  <2>4. CASE test.name = "test_non_blocking_receive"
    BY <1>1, <2>4, NonBlockingReceiveAsserts DEF TestInv
  <2> QED
    BY <1>3, <2>1, <2>2, <2>3, <2>4 DEF LoadTests, CloseTests
<1>4. CASE SendTest
  <2>1. CASE line \in {5, 11, 17}
    BY <1>1, <1>2, <1>4, <2>1, SendOutAsserts DEF TestInv
  <2>2. CASE line \notin {5, 11, 17}
    BY <1>1, <1>2, <1>4, <2>2, SendBufferAsserts DEF TestInv
  <2> QED
    BY <2>1, <2>2
<1>5. CASE ReceiveTest
  BY <1>1, <1>2, <1>5, ReceiveAssertsHold DEF TestInv
<1>6. CASE test.name = "test_free"
  BY <1>1, <1>6, FreeStatements
<1> QED
  BY <1>1, <1>3, <1>4, <1>5, <1>6, TestNames

(* The messages that the main thread receives are those it expects. *)
LEMMA ExpectedMessage ==
  ASSUME TestInv, pc[0] = "unlock"
  PROVE  data[0] \in program[line].data
<1>1. ScriptTypeOK /\ MainInv
  BY DEF TestInv, ScriptInv
<1>2. data[0] \in Value \cup {Uninit}
  BY MainIsThread DEF TestInv, ScriptInv, IInv, TypeOK
<1>3. line \in 1 .. Len(program) /\ program[line].do = "call"
  BY <1>1, ProgramWellFormed DEF MainInv
<1>4. CASE test.name \in LoadTests
  <2>1. program[line].data = Value \cup {Uninit}
    BY <1>1, <1>3, <1>4, LoadTestFacts DEF Loads
  <2> QED
    BY <1>2, <2>1
<1>5. CASE SendTest
  <2>1. SendCorrectnessLines(program) /\ SendCalls(program)
    BY <1>1, <1>5, SendTestFacts, ProgramWellFormed DEF Lines, SendTest, program
  <2>2. line \in {18, 22, 23, 24, 25, 29}
    BY <1>3, <2>1 DEF SendCalls
  <2>3. \A i \in {18, 22, 23, 24, 25, 29} : program[i].data = Value \cup {Uninit}
    BY <2>1 DEF SendCorrectnessLines, call
  <2> QED
    BY <1>2, <2>2, <2>3
<1>6. CASE ReceiveTest
  <2>1. ReceiveCalls(program)
    BY <1>1, <1>6, ReceiveTestFacts
  <2>2. /\ line = 3 => data[0] = "Message1"
        /\ line = 5 => data[0] = "Message2"
        /\ line = 23 => data[0] = NULL
    BY <1>6 DEF TestInv, ReceiveGot
  <2>3. \/ program[line].data = Value \cup {Uninit}
        \/ line = 3 /\ program[line].data = {"Message1"}
        \/ line = 5 /\ program[line].data = {"Message2"}
        \/ line = 23 /\ program[line].data = {NULL}
    BY <1>3, <2>1 DEF ReceiveCalls
  <2> QED
    BY <1>2, <2>2, <2>3
<1>7. CASE test.name = "test_free"
  <2>1. program[line].data = Value \cup {Uninit}
    BY <1>1, <1>3, <1>7, FreeStatements
  <2> QED
    BY <1>2, <2>1
<1> QED
  BY <1>1, <1>4, <1>5, <1>6, <1>7, TestNames

(* Every call of the main thread returns what it expects. *)
LEMMA ExpectedReturn ==
  ASSUME TestInv, pc[0] \in {"unlock", "return"}
  PROVE  status[0] \in program[line].returns /\ data[0] \in program[line].data
<1> USE MainIsThread
<1>1. IInv /\ ScriptTypeOK /\ MainInv /\ MainReturnInv
  BY DEF TestInv, ScriptInv
<1>2. status[0] \in Statuses
  BY <1>1 DEF IInv, TypeOK
<1>3. line \in 1 .. Len(program) /\ WellFormed(program)
  BY <1>1, ProgramWellFormed DEF MainInv
<1>4. CASE pc[0] = "unlock"
  <2>1. program[line].do = "call"
    BY <1>1, <1>4 DEF MainInv
  <2>2. \/ program[line].returns = Statuses
        \/ program[line].returns = {CLOSED_ERROR} /\ ClosedBefore(program, line)
        \/ /\ program[line].returns = {SUCCESS} /\ program[line].op = "close"
           /\ ~ClosedBefore(program, line)
    BY <1>3, <2>1 DEF WellFormed, ExpectedReturns
  <2>3. IF ClosedBefore(program, line) THEN status[0] = CLOSED_ERROR
        ELSE program[line].op = "close" => status[0] = SUCCESS
    BY <1>1, <1>4 DEF MainReturnInv
  <2>4. status[0] \in program[line].returns
    BY <1>2, <2>2, <2>3
  <2> QED
    BY <1>4, <2>4, ExpectedMessage
<1>5. CASE pc[0] = "return"
  <2>1. program[line].do = "destroy"
    BY <1>1, <1>5 DEF MainInv
  <2>2. /\ \/ program[line].returns = Statuses
           \/ program[line].returns = {DESTROY_ERROR} /\ ~ClosedBefore(program, line)
           \/ program[line].returns = {SUCCESS} /\ ClosedBefore(program, line)
        /\ program[line].data = {Uninit}
    BY <1>3, <2>1 DEF WellFormed, ExpectedReturns, ValidStatements
  <2>3. status[0] = IF ClosedBefore(program, line) THEN SUCCESS ELSE DESTROY_ERROR
    BY <1>1, <1>5 DEF MainReturnInv
  <2>4. data[0] = Uninit
    BY <1>1, <1>5 DEF IInv, CallInv
  <2>5. status[0] \in program[line].returns
    BY <1>2, <2>2, <2>3
  <2> QED
    BY <2>2, <2>4, <2>5
<1> QED
  BY <1>4, <1>5

(* No step leaves the test. *)
LEMMA NoFailure ==
  ASSUME TestInv, Move
  PROVE  ~failed'
<1>1. ~failed /\ ScriptTypeOK /\ HelperInv
  BY DEF TestInv, ScriptInv
<1>2. CASE Create \/ Join \/ SemWait \/ Usleep
  BY <1>2 DEF Create, Join, SemWait, Usleep, Advance
<1>3. CASE Assert
  <2>1. line <= Len(program) /\ program[line].do = "mu_assert"
    BY <1>3 DEF Assert, At, program
  <2>2. line \in 1 .. Len(program)
    BY <1>1, <2>1, ProgramWellFormed
  <2>3. Tally(statement.what, statement.x) \in statement.allowed
    BY <2>1, <2>2, EveryAssertHolds DEF Holds, statement, program
  <2> QED
    BY <1>3, <2>3 DEF Assert, Advance
<1>4. CASE MainReturns
  BY <1>4, ExpectedReturn DEF MainReturns, Ends, Advance
<1>5. CASE MainCalls \/ MainDestroys \/ MainUnderway \/ MainDecides \/ Woken
  BY <1>1, <1>5 DEF MainCalls, MainDestroys, MainUnderway, MainDecides, Woken, scriptVars
<1>6. ASSUME NEW h \in Helper, HelperMove(h)
      PROVE  ~failed'
  BY <1>1, <1>6 DEF HelperMove, HelperCall, HelperUnderway, HelperDecides, HelperReturns, HelperPost,
     scriptVars
<1> QED
  BY <1>2, <1>3, <1>4, <1>5, <1>6, MoveSplit DEF MainMove

(* At the beginning nobody has done anything. *)
LEMMA TestInvInit == ScriptInit => TestInv
<1> SUFFICES ASSUME ScriptInit PROVE TestInv
  OBVIOUS
<1> USE MainIsThread
<1>1. /\ ScriptInv /\ ScriptTypeOK /\ ~failed /\ closed = 1
      /\ line = 1 /\ pc[0] = "idle" /\ test \in Programs
  BY ScriptInitInv DEF ScriptInit, ScriptInv
<1>2. \A h \in Helper : Result(h) = GEN_ERROR
  BY DEF ScriptInit, Result
<1>3. /\ buffer.size = 0 /\ buffer.next = 0 /\ buffer.capacity = test.capacity
  <2>1. test.capacity \in Nat
    BY ProgramType DEF ScriptInit
  <2>2. buffer = buffer_create(test.capacity)
    BY DEF ScriptInit
  <2>3. buffer.size = 0 /\ buffer.capacity = test.capacity
    BY <2>1, <2>2, CreateLemma
  <2>4. buffer.next = 0
    BY <2>2 DEF buffer_create
  <2> QED
    BY <2>3, <2>4
<1>4. Loaded
  <2>1. PICK k, v, W : k = Prefix /\ v = First /\ W = Rest
    OBVIOUS
  <2>2. test.name \in LoadTests => LoadInv(k, v, W)
    BY <1>1, <2>1, LoadTestFacts, LoadInvInit
  <2> QED
    BY <2>1, <2>2 DEF Loaded
<1>5. CapacityInv /\ FullInv /\ CloseCountInv
  BY <1>1, <1>2, <1>3 DEF CapacityInv, FullInv, CloseCountInv, GEN_ERROR, CHANNEL_FULL
<1>6. SettledInv
  <2> SUFFICES ASSUME test.name = "test_non_blocking_receive"
               PROVE  SettledInv
    BY DEF SettledInv
  <2>1. /\ test.senders \in Nat /\ test.receivers \in Nat /\ test.capacity \in Nat
        /\ test.capacity > 0
        /\ ReceivesOneByOne(program, test.senders, test.receivers, test.capacity)
        /\ line <= test.capacity + test.senders + 1
    BY <1>1, OneByOne
  <2>2. \A h \in Helper : ~Undecided(h)
    BY <1>1, <2>1, NoReceiverYet
  <2>3. ~ReceiveNext
    <3> SUFFICES ASSUME ReceiveNext PROVE FALSE
      OBVIOUS
    <3>1. line \in 1 .. Len(program)
      BY <1>1, ProgramWellFormed DEF ReceiveNext
    <3>2. line \in test.capacity + test.senders + 1 ..
                     test.capacity + test.senders + 2 * test.receivers
      BY <2>1, <3>1 DEF ReceiveNext, ReceivesOneByOne, ReceiveOps
    <3> QED
      BY <1>1, <2>1, <3>2
  <2> QED
    BY <1>2, <2>2, <2>3 DEF SettledInv, GEN_ERROR, CHANNEL_FULL
<1>11. OnceInv
  <2> SUFFICES ASSUME test.name = "test_non_blocking_receive", NEW h \in 1 .. test.senders
               PROVE  AtMostOnce(Messages[h]) /\ ~Somewhere(Messages[h]) /\ Result(h) # SUCCESS
    BY DEF OnceInv
  <2>1. h \in Helper
    BY <1>1, SenderMessages
  <2>2. \A x : TookOf(x) = {}
    BY <1>2 DEF TookOf, Took, GEN_ERROR, SUCCESS
  <2> QED
    BY <1>2, <1>3, <2>1, <2>2 DEF AtMostOnce, Somewhere, GEN_ERROR, SUCCESS
<1>7. \A i \in Nat : i >= 1 => ~Past(i) /\ Did(i) = 0
  BY <1>1 DEF Past, Did
<1>8. SendWaits /\ ReceiveWaits /\ ReceiveGot
  BY <1>1 DEF SendWaits, ReceiveWaits, ReceiveGot
<1>9. SendInv
  <2> SUFFICES ASSUME SendTest PROVE SendHeld
    BY DEF SendInv
  <2>1. 1 \in Helper /\ 2 \in Helper /\ 3 \in Helper
    BY <1>1, SendTestFacts
  <2>2. Result(1) # SUCCESS /\ Result(2) # SUCCESS /\ Result(3) # SUCCESS
    BY <1>2, <2>1 DEF GEN_ERROR, SUCCESS
  <2>3. Succeeds(1) = 0 /\ Succeeds(2) = 0 /\ Succeeds(3) = 0
    BY <2>2 DEF Succeeds
  <2>4. /\ Did(18) = 0 /\ Did(22) = 0 /\ Did(23) = 0 /\ Did(24) = 0 /\ Did(25) = 0
        /\ ~Past(24) /\ ~Past(25)
    BY <1>7
  <2>5. buffer.size + Did(18) + Did(22) + Did(23) =
          Succeeds(1) + Succeeds(2) + Succeeds(3) + Did(24) + Did(25)
    BY <1>3, <2>3, <2>4
  <2> QED
    BY <1>3, <2>2, <2>4, <2>5 DEF SendHeld
<1>10. ReceiveInv
  <2> SUFFICES ASSUME ReceiveTest PROVE ReceiveHeld /\ ReceiveOrder
    BY DEF ReceiveInv
  <2>1. 1 \in Helper /\ 2 \in Helper
    BY <1>1, ReceiveTestFacts
  <2>2. Result(1) # SUCCESS /\ Result(2) # SUCCESS
    BY <1>2, <2>1 DEF GEN_ERROR, SUCCESS
  <2>3. Succeeds(1) = 0 /\ Succeeds(2) = 0
    BY <2>2 DEF Succeeds
  <2>4. /\ Did(1) = 0 /\ Did(2) = 0 /\ Did(3) = 0 /\ Did(5) = 0 /\ Did(12) = 0
        /\ Did(16) = 0 /\ Did(22) = 0 /\ Did(23) = 0
        /\ ~Past(1) /\ ~Past(2) /\ ~Past(3) /\ ~Past(12) /\ ~Past(16) /\ ~Past(22)
    BY <1>7
  <2>5. buffer.size + Succeeds(1) + Succeeds(2) + Did(3) + Did(5) + Did(23) =
          Did(1) + Did(2) + Did(12) + Did(16) + Did(22)
    BY <1>3, <2>3, <2>4
  <2> QED
    BY <2>2, <2>4, <2>5 DEF ReceiveHeld, ReceiveOrder
<1> QED
  BY <1>1, <1>4, <1>5, <1>6, <1>8, <1>9, <1>10, <1>11 DEF TestInv

(* Every step keeps the invariant. *)
LEMMA TestInvStep ==
  ASSUME TestInv, [ScriptNext]_allVars
  PROVE  TestInv'
<1>1. /\ ScriptInv /\ ~failed
      /\ Loaded /\ CapacityInv /\ FullInv /\ CloseCountInv /\ SettledInv /\ OnceInv
      /\ SendWaits /\ SendInv /\ ReceiveWaits /\ ReceiveInv /\ ReceiveGot
  BY DEF TestInv
<1>2. ScriptInv' /\ Move
  BY <1>1, NextScriptInv
<1>3. ~failed'
  BY <1>2, NoFailure
<1>4. Loaded' /\ CapacityInv' /\ CloseCountInv' /\ SettledInv'
  BY <1>1, <1>2, <1>3, LoadedStep, CapacityInvStep, CloseCountStep, SettledInvStep
<1>5. FullInv' /\ OnceInv'
  BY <1>1, <1>2, <1>3, FullInvStep, OnceInvStep
<1>6. SendWaits' /\ SendInv'
  BY <1>1, <1>2, <1>3, SendWaitsStep, SendInvStep
<1>7. ReceiveWaits' /\ ReceiveInv' /\ ReceiveGot'
  BY <1>1, <1>2, <1>3, ReceiveWaitsStep, ReceiveInvStep, ReceiveGotStep
<1> QED
  BY <1>2, <1>3, <1>4, <1>5, <1>6, <1>7 DEF TestInv

(* Every mu_assert of the tests holds, with any number of helpers and any  *)
(* capacity that ProgramAssumption allows the test: in whatever order the  *)
(* helpers run and whichever of them a signal wakes, no test is left       *)
(* before its end.  Only test_non_blocking_receive needs its usleep to be  *)
(* long enough.                                                            *)
THEOREM AssertsAlwaysHold == ScriptSpec => []AssertsHold
<1>1. TestInv /\ [ScriptNext]_allVars => TestInv'
  BY TestInvStep
<1>2. TestInv => AssertsHold
  BY DEF TestInv, AssertsHold
<1> QED
  BY <1>1, <1>2, TestInvInit, PTL DEF ScriptSpec
=============================================================================
