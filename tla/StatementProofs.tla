-------------------------- MODULE StatementProofs --------------------------
(***************************************************************************)
(* The tests of test.c as sequences of statements: which statement stands  *)
(* where, for any number of helpers and any capacity.                      *)
(***************************************************************************)
EXTENDS TestScripts, SequenceTheorems, FiniteSetTheorems, TLAPS

-----------------------------------------------------------------------------
(***************************************************************************)
(* The statements of the tests, one by one.                                *)
(***************************************************************************)

(* A call with the argument that its operation takes. *)
Operation(o, v) ==
  \/ o \in SendOps /\ v \in Value
  \/ o \in ReceiveOps \cup {"close"} /\ v = Uninit

Statement ==
  [do : {"pthread_create"}, h : Helper, op : SendOps, v : Value, sem : BOOLEAN]
  \cup [do : {"pthread_create"}, h : Helper, op : ReceiveOps, v : {Uninit}, sem : BOOLEAN]
  \cup [do : {"pthread_join"}, h : Helper]
  \cup [do : {"sem_wait", "usleep"}]
  \cup [do : {"call"}, op : SendOps, v : Value, returns : SUBSET Statuses,
        data : SUBSET (Value \cup {Uninit})]
  \cup [do : {"call"}, op : ReceiveOps \cup {"close"}, v : {Uninit}, returns : SUBSET Statuses,
        data : SUBSET (Value \cup {Uninit})]
  \cup [do : {"destroy"}, returns : SUBSET Statuses, data : {{Uninit}}]
  \cup [do : {"mu_assert"}, what : {"out", "data", "size", "slot"}, x : Value \cup Int,
        allowed : SUBSET (Value \cup Int)]

(* a is a sequence of n statements. *)
Part(a, n) == n \in Nat /\ a \in Seq(Statement) /\ Len(a) = n

(* s consists of two parts; where the statements of these are in s.        *)
Parts2(s, a, k, b, l) == s = a \o b /\ Part(a, k) /\ Part(b, l)

Joined2(s, a, k, b, l) ==
  \A i \in 1 .. k + l : s[i] = IF i <= k THEN a[i] ELSE b[i - k]

(* Where the statements of two parts are in the whole. *)
LEMMA TwoParts ==
  ASSUME NEW s, NEW a, NEW k, NEW b, NEW l, Parts2(s, a, k, b, l)
  PROVE  Part(s, k + l) /\ Joined2(s, a, k, b, l)
<1>1. k \in Nat /\ l \in Nat
  BY DEF Part, Parts2
<1>2. a \in Seq(Statement) /\ b \in Seq(Statement)
  BY DEF Part, Parts2
<1>3. s = a \o b
  BY DEF Parts2
<1>4. s \in Seq(Statement)
  BY <1>2, <1>3
<1>5. Len(s) = Len(a) + Len(b)
  BY <1>2, <1>3
<1>6. Part(s, k + l)
  BY <1>1, <1>4, <1>5 DEF Part, Parts2
<1>7. \A i \in 1 .. Len(a) + Len(b) : s[i] = IF i <= Len(a) THEN a[i] ELSE b[i - Len(a)]
  BY <1>2, <1>3
<1>8. Joined2(s, a, k, b, l)
  BY <1>1, <1>7 DEF Part, Parts2, Joined2
<1> QED
  BY <1>6, <1>8

Parts3(s, a, k, b, l, c, m) ==
  s = a \o b \o c /\ Part(a, k) /\ Part(b, l) /\ Part(c, m)

Joined3(s, a, k, b, l, c, m) ==
  \A i \in 1 .. k + l + m :
    s[i] = IF i <= k THEN a[i]
           ELSE IF i <= k + l THEN b[i - k]
           ELSE c[i - (k + l)]

(* Three parts in a row. *)
LEMMA ThreeParts ==
  ASSUME NEW s, NEW a, NEW k, NEW b, NEW l, NEW c, NEW m,
         Parts3(s, a, k, b, l, c, m)
  PROVE  Part(s, k + l + m) /\ Joined3(s, a, k, b, l, c, m)
<1> DEFINE q == a \o b
<1>1. k \in Nat /\ l \in Nat /\ m \in Nat
  BY DEF Part, Parts3
<1>2. Parts2(q, a, k, b, l)
  BY DEF Parts2, Parts3
<1>3. s = q \o c /\ Part(c, m)
  BY DEF Parts3
<1> HIDE DEF q
<1>4. Part(q, k + l) /\ Joined2(q, a, k, b, l)
  BY <1>2, TwoParts
<1>5. Parts2(s, q, k + l, c, m)
  BY <1>3, <1>4 DEF Parts2
<1>6. /\ Part(s, k + l + m)
      /\ Joined2(s, q, k + l, c, m)
  BY <1>5, TwoParts
<1> QED
  BY <1>1, <1>4, <1>6 DEF Joined2, Joined2, Joined3

Parts4(s, a, k, b, l, c, m, d, n) ==
  s = a \o b \o c \o d /\ Part(a, k) /\ Part(b, l) /\ Part(c, m) /\ Part(d, n)

Joined4(s, a, k, b, l, c, m, d, n) ==
  \A i \in 1 .. k + l + m + n :
    s[i] = IF i <= k THEN a[i]
           ELSE IF i <= k + l THEN b[i - k]
           ELSE IF i <= k + l + m THEN c[i - (k + l)]
           ELSE d[i - (k + l + m)]

(* Four parts in a row. *)
LEMMA FourParts ==
  ASSUME NEW s, NEW a, NEW k, NEW b, NEW l, NEW c, NEW m, NEW d, NEW n,
         Parts4(s, a, k, b, l, c, m, d, n)
  PROVE  Part(s, k + l + m + n) /\ Joined4(s, a, k, b, l, c, m, d, n)
<1> DEFINE q == a \o b \o c
<1>1. k \in Nat /\ l \in Nat /\ m \in Nat /\ n \in Nat
  BY DEF Part, Parts4
<1>2. Parts3(q, a, k, b, l, c, m)
  BY DEF Parts3, Parts4
<1>3. s = q \o d /\ Part(d, n)
  BY DEF Parts4
<1> HIDE DEF q
<1>4. Part(q, k + l + m) /\ Joined3(q, a, k, b, l, c, m)
  BY <1>2, ThreeParts
<1>5. Parts2(s, q, k + l + m, d, n)
  BY <1>3, <1>4 DEF Parts2
<1>6. /\ Part(s, k + l + m + n)
      /\ Joined2(s, q, k + l + m, d, n)
  BY <1>5, TwoParts
<1> QED
  BY <1>1, <1>4, <1>6 DEF Joined2, Joined3, Joined4

Parts5(s, a, k, b, l, c, m, d, n, e, o) ==
  s = a \o b \o c \o d \o e /\ Part(a, k) /\ Part(b, l) /\ Part(c, m) /\ Part(d, n) /\ Part(e, o)

Joined5(s, a, k, b, l, c, m, d, n, e, o) ==
  \A i \in 1 .. k + l + m + n + o :
    s[i] = IF i <= k THEN a[i]
           ELSE IF i <= k + l THEN b[i - k]
           ELSE IF i <= k + l + m THEN c[i - (k + l)]
           ELSE IF i <= k + l + m + n THEN d[i - (k + l + m)]
           ELSE e[i - (k + l + m + n)]

(* Five parts in a row. *)
LEMMA FiveParts ==
  ASSUME NEW s, NEW a, NEW k, NEW b, NEW l, NEW c, NEW m, NEW d, NEW n, NEW e, NEW o,
         Parts5(s, a, k, b, l, c, m, d, n, e, o)
  PROVE  Part(s, k + l + m + n + o) /\ Joined5(s, a, k, b, l, c, m, d, n, e, o)
<1> DEFINE q == a \o b \o c \o d
<1>1. k \in Nat /\ l \in Nat /\ m \in Nat /\ n \in Nat /\ o \in Nat
  BY DEF Part, Parts5
<1>2. Parts4(q, a, k, b, l, c, m, d, n)
  BY DEF Parts4, Parts5
<1>3. s = q \o e /\ Part(e, o)
  BY DEF Parts5
<1> HIDE DEF q
<1>4. Part(q, k + l + m + n) /\ Joined4(q, a, k, b, l, c, m, d, n)
  BY <1>2, FourParts
<1>5. Parts2(s, q, k + l + m + n, e, o)
  BY <1>3, <1>4 DEF Parts2
<1>6. /\ Part(s, k + l + m + n + o)
      /\ Joined2(s, q, k + l + m + n, e, o)
  BY <1>5, TwoParts
<1> QED
  BY <1>1, <1>4, <1>6 DEF Joined2, Joined4, Joined5

Parts6(s, a, k, b, l, c, m, d, n, e, o, f, u) ==
  s = a \o b \o c \o d \o e \o f /\ Part(a, k) /\ Part(b, l) /\ Part(c, m) /\ Part(d, n) /\ Part(e, o) /\ Part(f, u)

Joined6(s, a, k, b, l, c, m, d, n, e, o, f, u) ==
  \A i \in 1 .. k + l + m + n + o + u :
    s[i] = IF i <= k THEN a[i]
           ELSE IF i <= k + l THEN b[i - k]
           ELSE IF i <= k + l + m THEN c[i - (k + l)]
           ELSE IF i <= k + l + m + n THEN d[i - (k + l + m)]
           ELSE IF i <= k + l + m + n + o THEN e[i - (k + l + m + n)]
           ELSE f[i - (k + l + m + n + o)]

(* Six parts in a row. *)
LEMMA SixParts ==
  ASSUME NEW s, NEW a, NEW k, NEW b, NEW l, NEW c, NEW m, NEW d, NEW n, NEW e, NEW o, NEW f, NEW u,
         Parts6(s, a, k, b, l, c, m, d, n, e, o, f, u)
  PROVE  Part(s, k + l + m + n + o + u) /\ Joined6(s, a, k, b, l, c, m, d, n, e, o, f, u)
<1> DEFINE q == a \o b \o c \o d \o e
<1>1. k \in Nat /\ l \in Nat /\ m \in Nat /\ n \in Nat /\ o \in Nat /\ u \in Nat
  BY DEF Part, Parts6
<1>2. Parts5(q, a, k, b, l, c, m, d, n, e, o)
  BY DEF Parts5, Parts6
<1>3. s = q \o f /\ Part(f, u)
  BY DEF Parts6
<1> HIDE DEF q
<1>4. Part(q, k + l + m + n + o) /\ Joined5(q, a, k, b, l, c, m, d, n, e, o)
  BY <1>2, FiveParts
<1>5. Parts2(s, q, k + l + m + n + o, f, u)
  BY <1>3, <1>4 DEF Parts2
<1>6. /\ Part(s, k + l + m + n + o + u)
      /\ Joined2(s, q, k + l + m + n + o, f, u)
  BY <1>5, TwoParts
<1> QED
  BY <1>1, <1>4, <1>6 DEF Joined2, Joined5, Joined6

Parts7(s, a, k, b, l, c, m, d, n, e, o, f, u, g, w) ==
  s = a \o b \o c \o d \o e \o f \o g /\ Part(a, k) /\ Part(b, l) /\ Part(c, m) /\ Part(d, n) /\ Part(e, o) /\ Part(f, u) /\ Part(g, w)

Joined7(s, a, k, b, l, c, m, d, n, e, o, f, u, g, w) ==
  \A i \in 1 .. k + l + m + n + o + u + w :
    s[i] = IF i <= k THEN a[i]
           ELSE IF i <= k + l THEN b[i - k]
           ELSE IF i <= k + l + m THEN c[i - (k + l)]
           ELSE IF i <= k + l + m + n THEN d[i - (k + l + m)]
           ELSE IF i <= k + l + m + n + o THEN e[i - (k + l + m + n)]
           ELSE IF i <= k + l + m + n + o + u THEN f[i - (k + l + m + n + o)]
           ELSE g[i - (k + l + m + n + o + u)]

(* Seven parts in a row. *)
LEMMA SevenParts ==
  ASSUME NEW s, NEW a, NEW k, NEW b, NEW l, NEW c, NEW m, NEW d, NEW n, NEW e, NEW o, NEW f, NEW u, NEW g, NEW w,
         Parts7(s, a, k, b, l, c, m, d, n, e, o, f, u, g, w)
  PROVE  Part(s, k + l + m + n + o + u + w) /\ Joined7(s, a, k, b, l, c, m, d, n, e, o, f, u, g, w)
<1> DEFINE q == a \o b \o c \o d \o e \o f
<1>1. k \in Nat /\ l \in Nat /\ m \in Nat /\ n \in Nat /\ o \in Nat /\ u \in Nat /\ w \in Nat
  BY DEF Part, Parts7
<1>2. Parts6(q, a, k, b, l, c, m, d, n, e, o, f, u)
  BY DEF Parts6, Parts7
<1>3. s = q \o g /\ Part(g, w)
  BY DEF Parts7
<1> HIDE DEF q
<1>4. Part(q, k + l + m + n + o + u) /\ Joined6(q, a, k, b, l, c, m, d, n, e, o, f, u)
  BY <1>2, SixParts
<1>5. Parts2(s, q, k + l + m + n + o + u, g, w)
  BY <1>3, <1>4 DEF Parts2
<1>6. /\ Part(s, k + l + m + n + o + u + w)
      /\ Joined2(s, q, k + l + m + n + o + u, g, w)
  BY <1>5, TwoParts
<1> QED
  BY <1>1, <1>4, <1>6 DEF Joined2, Joined6, Joined7

(* The parts that several tests have. *)
LEMMA PartsOfTests ==
  ASSUME NEW n \in Nat, 1 .. n \subseteq Helper
  PROVE  Part(joins(n), n) /\ \A i \in 1 .. n : joins(n)[i] = pthread_join(i)
<1>1. joins(n) \in Seq(Statement)
  BY DEF joins, Statement, pthread_join
<1>2. Len(joins(n)) = n /\ \A i \in 1 .. n : joins(n)[i] = pthread_join(i)
  BY DEF joins
<1> QED
  BY <1>1, <1>2 DEF Part

(* Several pthread_creates are a part. *)
LEMMA CreatesPart ==
  ASSUME NEW n \in Nat, 1 .. n \subseteq Helper,
         NEW o, NEW v, Operation(o, v), o # "close", NEW sem \in BOOLEAN
  PROVE  Part([h \in 1 .. n |-> pthread_create(h, o, v, sem)], n)
<1>1. \A h \in 1 .. n : pthread_create(h, o, v, sem) \in Statement
  BY DEF Statement, pthread_create, Operation
<1> QED
  BY <1>1 DEF Part

(* The operations and messages of test.c. *)
LEMMA NamesOfTests ==
  /\ "Message" \in Value /\ "Message1" \in Value /\ "Message2" \in Value /\ "Message3" \in Value
  /\ NULL \in Value
  /\ "send" \in SendOps /\ "non_blocking_send" \in SendOps
  /\ "receive" \in ReceiveOps /\ "non_blocking_receive" \in ReceiveOps
  /\ Operation("send", "Message1") /\ Operation("non_blocking_send", "Message1")
  /\ Operation("receive", Uninit) /\ Operation("non_blocking_receive", Uninit)
  /\ TRUE \in BOOLEAN /\ FALSE \in BOOLEAN
  BY ScriptAssumption DEF SendOps, ReceiveOps, NULL, Operation

(* Each sender of test_non_blocking_receive has a message of its own. *)
LEMMA MessagesDiffer ==
  ASSUME NEW i \in 1 .. 3
  PROVE  /\ Messages[i] \in {"Message1", "Message2", "Message3"}
         /\ Messages[i] # "Message" /\ Messages[i] \in Value
         /\ \A j \in 1 .. 3 : Messages[i] = Messages[j] => i = j
<1>1. Messages[1] = "Message1" /\ Messages[2] = "Message2" /\ Messages[3] = "Message3"
  BY DEF Messages
<1> QED
  BY <1>1, NamesOfTests

(* So are several sends, *)
LEMMA SendsPart ==
  ASSUME NEW n \in Nat, NEW v \in Value
  PROVE  Part(sends(n, v), n) /\ \A i \in 1 .. n : sends(n, v)[i] = call("send", v, Statuses)
<1>1. call("send", v, Statuses) \in Statement
  BY DEF Statement, call, SendOps, LockedOps
<1> QED
  BY <1>1 DEF Part, sends

(* and several sem_waits. *)
LEMMA SemWaitsPart ==
  ASSUME NEW n \in Nat
  PROVE  Part(sem_waits(n), n) /\ \A i \in 1 .. n : sem_waits(n)[i] = sem_wait
<1>1. sem_wait \in Statement
  BY DEF Statement, sem_wait
<1> QED
  BY <1>1 DEF Part, sem_waits

(* Closing and destroying the channel is a part of two statements. *)
LEMMA CleanupPart ==
  /\ Part(cleanup, 2)
  /\ cleanup[1] = call("close", Uninit, Statuses) /\ cleanup[2] = destroy(Statuses)
<1>1. call("close", Uninit, Statuses) \in Statement /\ destroy(Statuses) \in Statement
  BY DEF Statement, call, destroy, LockedOps
<1> QED
  BY <1>1 DEF Part, cleanup

(* What the tests do with a closed channel is a part of four. *)
LEMMA ClosedForPart ==
  ASSUME NEW o, NEW q, NEW v, Operation(o, v), Operation(q, v)
  PROVE  /\ Part(closed_for(o, q, v), 4)
         /\ closed_for(o, q, v)[1] = call(o, v, {CLOSED_ERROR})
         /\ closed_for(o, q, v)[2] = call(q, v, {CLOSED_ERROR})
         /\ closed_for(o, q, v)[3] = call("close", Uninit, {CLOSED_ERROR})
         /\ closed_for(o, q, v)[4] = destroy(Statuses)
<1>1. /\ call(o, v, {CLOSED_ERROR}) \in Statement /\ call(q, v, {CLOSED_ERROR}) \in Statement
      /\ call("close", Uninit, {CLOSED_ERROR}) \in Statement /\ destroy(Statuses) \in Statement
  BY DEF Statement, call, destroy, Operation, Statuses
<1> QED
  BY <1>1 DEF Part, closed_for

(* A part of one statement. *)
LEMMA OnePart ==
  ASSUME NEW st \in Statement
  PROVE  Part(<<st>>, 1) /\ <<st>>[1] = st
  BY DEF Part

(* The asserts of the tests are statements. *)
LEMMA AssertStatement ==
  ASSUME NEW what \in {"out", "data", "size", "slot"}, NEW x \in Value \cup Int,
         NEW n \in Int
  PROVE  mu_assert(what, x, {n}) \in Statement
  BY DEF Statement, mu_assert

-----------------------------------------------------------------------------
(***************************************************************************)
(* The lines of each test, by the numbers of its senders and receivers and *)
(* the capacity of its channel.                                            *)
(***************************************************************************)
NonBlockingSendLines(s, n, c) ==
  /\ Part(s, 2 * n + 3)
  /\ \A i \in 1 .. n : s[i] = pthread_create(i, "non_blocking_send", "Message1", FALSE)
  /\ \A i \in n + 1 .. 2 * n : s[i] = pthread_join(i - n)
  /\ s[2 * n + 1] = mu_assert("out", CHANNEL_FULL, {n - c})
  /\ s[2 * n + 2] = call("close", Uninit, Statuses)
  /\ s[2 * n + 3] = destroy(Statuses)

(* These are the lines of test_non_blocking_send. *)
LEMMA NonBlockingSendLayout ==
  ASSUME NEW n \in Nat, NEW c \in Nat, 1 .. n \subseteq Helper
  PROVE  NonBlockingSendLines(test_non_blocking_send(n, c), n, c)
<1> DEFINE s == test_non_blocking_send(n, c)
           a == [h \in 1 .. n |-> pthread_create(h, "non_blocking_send", "Message1", FALSE)]
           b == <<mu_assert("out", CHANNEL_FULL, {n - c})>>
<1>1. Part(a, n)
  BY CreatesPart, NamesOfTests
<1>2. Part(joins(n), n) /\ \A i \in 1 .. n : joins(n)[i] = pthread_join(i)
  BY PartsOfTests
<1>3. Part(b, 1) /\ b[1] = mu_assert("out", CHANNEL_FULL, {n - c})
  <2>1. mu_assert("out", CHANNEL_FULL, {n - c}) \in Statement
    BY AssertStatement DEF CHANNEL_FULL
  <2> QED
    BY <2>1, OnePart
<1>4. Parts4(s, a, n, joins(n), n, b, 1, cleanup, 2)
  BY <1>1, <1>2, <1>3, CleanupPart DEF Parts4, test_non_blocking_send
<1>5. \A i \in 1 .. n : a[i] = pthread_create(i, "non_blocking_send", "Message1", FALSE)
  OBVIOUS
<1> HIDE DEF s, a, b
<1>6. /\ Part(s, n + n + 1 + 2)
      /\ Joined4(s, a, n, joins(n), n, b, 1, cleanup, 2)
  BY <1>4, FourParts
<1>7. Part(s, 2 * n + 3)
  <2>1. n + n + 1 + 2 = 2 * n + 3
    OBVIOUS
  <2> QED
    BY <1>6, <2>1
<1>8. \A i \in 1 .. n : s[i] = a[i]
  BY <1>6 DEF Joined4
<1>9. \A i \in n + 1 .. 2 * n : s[i] = joins(n)[i - n]
  BY <1>6 DEF Joined4
<1>10. s[2 * n + 1] = b[1]
  BY <1>6 DEF Joined4
<1>11. s[2 * n + 2] = cleanup[1]
  BY <1>6 DEF Joined4
<1>12. s[2 * n + 3] = cleanup[2]
  BY <1>6 DEF Joined4
<1>13. \A i \in n + 1 .. 2 * n : s[i] = pthread_join(i - n)
  BY <1>9, <1>2
<1> QED
  BY <1>3, <1>5, <1>7, <1>8, <1>10, <1>11, <1>12, <1>13, CleanupPart DEF NonBlockingSendLines, s

OverallSendReceiveLines(s, n) ==
  /\ Part(s, 4 * n + 4)
  /\ \A i \in 1 .. n : s[i] = pthread_create(i, "receive", Uninit, FALSE)
  /\ \A i \in n + 1 .. 2 * n : s[i] = pthread_create(i, "send", "Message1", FALSE)
  /\ \A i \in 2 * n + 1 .. 4 * n : s[i] = pthread_join(i - 2 * n)
  /\ s[4 * n + 1] = mu_assert("out", SUCCESS, {2 * n})
  /\ s[4 * n + 2] = mu_assert("data", "Message1", {n})
  /\ s[4 * n + 3] = call("close", Uninit, Statuses)
  /\ s[4 * n + 4] = destroy(Statuses)

(* These are the lines of test_overall_send_receive. *)
LEMMA OverallSendReceiveLayout ==
  ASSUME NEW n \in Nat, 1 .. 2 * n \subseteq Helper
  PROVE  OverallSendReceiveLines(test_overall_send_receive(n), n)
<1> DEFINE s == test_overall_send_receive(n)
           a == [h \in 1 .. n |-> pthread_create(h, "receive", Uninit, FALSE)]
           b == [h \in 1 .. n |-> pthread_create(n + h, "send", "Message1", FALSE)]
           c == joins(2 * n)
           x == mu_assert("out", SUCCESS, {2 * n})
           y == mu_assert("data", "Message1", {n})
           d == <<x, y>>
<1>1. Part(a, n)
  <2>1. 1 .. n \subseteq Helper
    OBVIOUS
  <2> QED
    BY <2>1, CreatesPart, NamesOfTests
<1>2. Part(b, n)
  <2> DEFINE create(h) == pthread_create(n + h, "send", "Message1", FALSE)
  <2>1. ASSUME NEW h \in 1 .. n
        PROVE  create(h) \in Statement
    <3>1. n + h \in Helper
      OBVIOUS
    <3> QED
      BY <3>1, NamesOfTests DEF Statement, pthread_create
  <2>2. b = [h \in 1 .. n |-> create(h)]
    OBVIOUS
  <2> HIDE DEF create, b
  <2> QED
    BY <2>1, <2>2 DEF Part
<1>3. Part(c, 2 * n) /\ \A i \in 1 .. 2 * n : c[i] = pthread_join(i)
  BY PartsOfTests
<1>4. Part(d, 2) /\ d[1] = x /\ d[2] = y
  <2>1. x \in Statement /\ y \in Statement
    <3>1. 2 * n \in Int /\ n \in Int /\ SUCCESS \in Int
      BY DEF SUCCESS
    <3> QED
      BY <3>1, AssertStatement, NamesOfTests
  <2> HIDE DEF x, y
  <2> QED
    BY <2>1 DEF Part
<1>5. s = a \o b \o c \o d \o cleanup
  BY DEF test_overall_send_receive
<1>6. \A i \in 1 .. n : a[i] = pthread_create(i, "receive", Uninit, FALSE)
  OBVIOUS
<1>7. \A i \in 1 .. n : b[i] = pthread_create(n + i, "send", "Message1", FALSE)
  OBVIOUS
<1> HIDE DEF s, a, b, c, d
<1>8. Parts5(s, a, n, b, n, c, 2 * n, d, 2, cleanup, 2)
  BY <1>1, <1>2, <1>3, <1>4, <1>5, CleanupPart DEF Parts5
<1>9. /\ Part(s, n + n + 2 * n + 2 + 2)
      /\ Joined5(s, a, n, b, n, c, 2 * n, d, 2, cleanup, 2)
  BY <1>8, FiveParts
<1>10. Part(s, 4 * n + 4)
  <2>1. n + n + 2 * n + 2 + 2 = 4 * n + 4
    OBVIOUS
  <2> QED
    BY <1>9, <2>1
<1>11. \A i \in 1 .. n : s[i] = a[i]
  BY <1>9 DEF Joined5
<1>12. \A i \in n + 1 .. 2 * n : s[i] = b[i - n]
  BY <1>9 DEF Joined5
<1>13. \A i \in 2 * n + 1 .. 4 * n : s[i] = c[i - 2 * n]
  BY <1>9 DEF Joined5
<1>14. s[4 * n + 1] = d[1]
  BY <1>9 DEF Joined5
<1>15. s[4 * n + 2] = d[2]
  BY <1>9 DEF Joined5
<1>16. s[4 * n + 3] = cleanup[1]
  BY <1>9 DEF Joined5
<1>17. s[4 * n + 4] = cleanup[2]
  BY <1>9 DEF Joined5
<1>18. \A i \in n + 1 .. 2 * n : s[i] = pthread_create(i, "send", "Message1", FALSE)
  <2> SUFFICES ASSUME NEW i \in n + 1 .. 2 * n
               PROVE  s[i] = pthread_create(i, "send", "Message1", FALSE)
    OBVIOUS
  <2> DEFINE j == i - n
  <2>1. j \in 1 .. n /\ n + j = i
    OBVIOUS
  <2>2. s[i] = b[j]
    BY <1>12
  <2> HIDE DEF j
  <2>3. b[j] = pthread_create(n + j, "send", "Message1", FALSE)
    BY <1>7, <2>1
  <2> QED
    BY <2>1, <2>2, <2>3
<1>19. \A i \in 2 * n + 1 .. 4 * n : s[i] = pthread_join(i - 2 * n)
  BY <1>3, <1>13
<1> QED
  BY <1>4, <1>6, <1>10, <1>11, <1>14, <1>15, <1>16, <1>17, <1>18, <1>19, CleanupPart
     DEF OverallSendReceiveLines, s

CloseWithSendLines(s, n, c) ==
  /\ Part(s, 2 * n + c + 6)
  /\ \A i \in 1 .. n : s[i] = pthread_create(i, "send", "Message1", TRUE)
  /\ \A i \in n + 1 .. n + c : s[i] = sem_wait
  /\ s[n + c + 1] = call("close", Uninit, {SUCCESS})
  /\ \A i \in n + c + 2 .. 2 * n + c + 1 : s[i] = pthread_join(i - (n + c + 1))
  /\ s[2 * n + c + 2] = mu_assert("out", CLOSED_ERROR, {n - c})
  /\ s[2 * n + c + 3] = call("send", "Message1", {CLOSED_ERROR})
  /\ s[2 * n + c + 4] = call("non_blocking_send", "Message1", {CLOSED_ERROR})
  /\ s[2 * n + c + 5] = call("close", Uninit, {CLOSED_ERROR})
  /\ s[2 * n + c + 6] = destroy(Statuses)

(* These are the lines of test_channel_close_with_send. *)
LEMMA CloseWithSendLayout ==
  ASSUME NEW n \in Nat, NEW c \in Nat, 1 .. n \subseteq Helper
  PROVE  CloseWithSendLines(test_channel_close_with_send(n, c), n, c)
<1> DEFINE s == test_channel_close_with_send(n, c)
           a == [h \in 1 .. n |-> pthread_create(h, "send", "Message1", TRUE)]
           b == sem_waits(c)
           d == <<call("close", Uninit, {SUCCESS})>>
           e == joins(n)
           f == <<mu_assert("out", CLOSED_ERROR, {n - c})>>
           g == closed_for("send", "non_blocking_send", "Message1")
<1>1. Part(a, n)
  BY CreatesPart, NamesOfTests
<1>2. Part(b, c) /\ \A i \in 1 .. c : b[i] = sem_wait
  BY SemWaitsPart
<1>3. Part(d, 1) /\ d[1] = call("close", Uninit, {SUCCESS})
  <2>1. call("close", Uninit, {SUCCESS}) \in Statement
    BY DEF Statement, call, LockedOps, Statuses
  <2> QED
    BY <2>1, OnePart
<1>4. Part(e, n) /\ \A i \in 1 .. n : e[i] = pthread_join(i)
  BY PartsOfTests
<1>5. Part(f, 1) /\ f[1] = mu_assert("out", CLOSED_ERROR, {n - c})
  <2>1. mu_assert("out", CLOSED_ERROR, {n - c}) \in Statement
    BY AssertStatement DEF CLOSED_ERROR
  <2> QED
    BY <2>1, OnePart
<1>6. /\ Part(g, 4)
      /\ g[1] = call("send", "Message1", {CLOSED_ERROR})
      /\ g[2] = call("non_blocking_send", "Message1", {CLOSED_ERROR})
      /\ g[3] = call("close", Uninit, {CLOSED_ERROR})
      /\ g[4] = destroy(Statuses)
  BY ClosedForPart, NamesOfTests
<1>7. s = a \o b \o d \o e \o f \o g
  BY DEF test_channel_close_with_send
<1>8. \A i \in 1 .. n : a[i] = pthread_create(i, "send", "Message1", TRUE)
  OBVIOUS
<1> HIDE DEF s, a, b, d, e, f, g
<1>9. Parts6(s, a, n, b, c, d, 1, e, n, f, 1, g, 4)
  BY <1>1, <1>2, <1>3, <1>4, <1>5, <1>6, <1>7 DEF Parts6
<1>10. /\ Part(s, n + c + 1 + n + 1 + 4)
       /\ Joined6(s, a, n, b, c, d, 1, e, n, f, 1, g, 4)
  BY <1>9, SixParts
<1>11. Part(s, 2 * n + c + 6)
  <2>1. n + c + 1 + n + 1 + 4 = 2 * n + c + 6
    OBVIOUS
  <2> QED
    BY <1>10, <2>1
<1>12. \A i \in 1 .. n : s[i] = a[i]
  BY <1>10 DEF Joined6
<1>13. \A i \in n + 1 .. n + c : s[i] = b[i - n]
  BY <1>10 DEF Joined6
<1>14. s[n + c + 1] = d[1]
  BY <1>10 DEF Joined6
<1>15. \A i \in n + c + 2 .. 2 * n + c + 1 : s[i] = e[i - (n + c + 1)]
  BY <1>10 DEF Joined6
<1>16. s[2 * n + c + 2] = f[1]
  BY <1>10 DEF Joined6
<1>17. s[2 * n + c + 3] = g[1]
  BY <1>10 DEF Joined6
<1>18. s[2 * n + c + 4] = g[2]
  BY <1>10 DEF Joined6
<1>19. s[2 * n + c + 5] = g[3]
  BY <1>10 DEF Joined6
<1>20. s[2 * n + c + 6] = g[4]
  BY <1>10 DEF Joined6
<1>21. \A i \in n + 1 .. n + c : s[i] = sem_wait
  BY <1>2, <1>13
<1>22. \A i \in n + c + 2 .. 2 * n + c + 1 : s[i] = pthread_join(i - (n + c + 1))
  BY <1>4, <1>15
<1> QED
  BY <1>3, <1>5, <1>6, <1>8, <1>11, <1>12, <1>14, <1>16, <1>17, <1>18, <1>19, <1>20, <1>21, <1>22
     DEF CloseWithSendLines, s

CloseWithReceiveLines(s, n, c) ==
  /\ Part(s, 2 * n + 2 * c + 6)
  /\ \A i \in 1 .. c : s[i] = call("send", "Message1", Statuses)
  /\ \A i \in c + 1 .. c + n : s[i] = pthread_create(i - c, "receive", Uninit, TRUE)
  /\ \A i \in c + n + 1 .. n + 2 * c : s[i] = sem_wait
  /\ s[n + 2 * c + 1] = call("close", Uninit, {SUCCESS})
  /\ \A i \in n + 2 * c + 2 .. 2 * n + 2 * c + 1 : s[i] = pthread_join(i - (n + 2 * c + 1))
  /\ s[2 * n + 2 * c + 2] = mu_assert("out", CLOSED_ERROR, {n - c})
  /\ s[2 * n + 2 * c + 3] = call("receive", Uninit, {CLOSED_ERROR})
  /\ s[2 * n + 2 * c + 4] = call("non_blocking_receive", Uninit, {CLOSED_ERROR})
  /\ s[2 * n + 2 * c + 5] = call("close", Uninit, {CLOSED_ERROR})
  /\ s[2 * n + 2 * c + 6] = destroy(Statuses)

(* These are the lines of test_channel_close_with_receive. *)
LEMMA CloseWithReceiveLayout ==
  ASSUME NEW n \in Nat, NEW c \in Nat, 1 .. n \subseteq Helper
  PROVE  CloseWithReceiveLines(test_channel_close_with_receive(n, c), n, c)
<1> DEFINE s == test_channel_close_with_receive(n, c)
           x == sends(c, "Message1")
           a == [h \in 1 .. n |-> pthread_create(h, "receive", Uninit, TRUE)]
           b == sem_waits(c)
           d == <<call("close", Uninit, {SUCCESS})>>
           e == joins(n)
           f == <<mu_assert("out", CLOSED_ERROR, {n - c})>>
           g == closed_for("receive", "non_blocking_receive", Uninit)
<1>1. Part(x, c) /\ \A i \in 1 .. c : x[i] = call("send", "Message1", Statuses)
  BY SendsPart, NamesOfTests
<1>2. Part(a, n)
  BY CreatesPart, NamesOfTests
<1>3. Part(b, c) /\ \A i \in 1 .. c : b[i] = sem_wait
  BY SemWaitsPart
<1>4. Part(d, 1) /\ d[1] = call("close", Uninit, {SUCCESS})
  <2>1. call("close", Uninit, {SUCCESS}) \in Statement
    BY DEF Statement, call, LockedOps, Statuses
  <2> QED
    BY <2>1, OnePart
<1>5. Part(e, n) /\ \A i \in 1 .. n : e[i] = pthread_join(i)
  BY PartsOfTests
<1>6. Part(f, 1) /\ f[1] = mu_assert("out", CLOSED_ERROR, {n - c})
  <2>1. mu_assert("out", CLOSED_ERROR, {n - c}) \in Statement
    BY AssertStatement DEF CLOSED_ERROR
  <2> QED
    BY <2>1, OnePart
<1>7. /\ Part(g, 4)
      /\ g[1] = call("receive", Uninit, {CLOSED_ERROR})
      /\ g[2] = call("non_blocking_receive", Uninit, {CLOSED_ERROR})
      /\ g[3] = call("close", Uninit, {CLOSED_ERROR})
      /\ g[4] = destroy(Statuses)
  BY ClosedForPart, NamesOfTests
<1>8. s = x \o a \o b \o d \o e \o f \o g
  BY DEF test_channel_close_with_receive
<1>9. \A i \in 1 .. n : a[i] = pthread_create(i, "receive", Uninit, TRUE)
  OBVIOUS
<1> HIDE DEF s, x, a, b, d, e, f, g
<1>10. Parts7(s, x, c, a, n, b, c, d, 1, e, n, f, 1, g, 4)
  BY <1>1, <1>2, <1>3, <1>4, <1>5, <1>6, <1>7, <1>8 DEF Parts7
<1>11. /\ Part(s, c + n + c + 1 + n + 1 + 4)
       /\ Joined7(s, x, c, a, n, b, c, d, 1, e, n, f, 1, g, 4)
  BY <1>10, SevenParts
<1>12. Part(s, 2 * n + 2 * c + 6)
  <2>1. c + n + c + 1 + n + 1 + 4 = 2 * n + 2 * c + 6
    OBVIOUS
  <2> QED
    BY <1>11, <2>1
<1>13. \A i \in 1 .. c : s[i] = x[i]
  BY <1>11 DEF Joined7
<1>14. \A i \in c + 1 .. c + n : s[i] = a[i - c]
  BY <1>11 DEF Joined7
<1>15. \A i \in c + n + 1 .. n + 2 * c : s[i] = b[i - (c + n)]
  BY <1>11 DEF Joined7
<1>16. s[n + 2 * c + 1] = d[1]
  BY <1>11 DEF Joined7
<1>17. \A i \in n + 2 * c + 2 .. 2 * n + 2 * c + 1 : s[i] = e[i - (n + 2 * c + 1)]
  BY <1>11 DEF Joined7
<1>18. s[2 * n + 2 * c + 2] = f[1]
  BY <1>11 DEF Joined7
<1>19. s[2 * n + 2 * c + 3] = g[1]
  BY <1>11 DEF Joined7
<1>20. s[2 * n + 2 * c + 4] = g[2]
  BY <1>11 DEF Joined7
<1>21. s[2 * n + 2 * c + 5] = g[3]
  BY <1>11 DEF Joined7
<1>22. s[2 * n + 2 * c + 6] = g[4]
  BY <1>11 DEF Joined7
<1>23. \A i \in 1 .. c : s[i] = call("send", "Message1", Statuses)
  BY <1>1, <1>13
<1>24. ASSUME NEW i \in c + 1 .. c + n
       PROVE  s[i] = pthread_create(i - c, "receive", Uninit, TRUE)
  <2>1. s[i] = a[i - c]
    BY <1>14
  <2>2. i - c \in 1 .. n
    OBVIOUS
  <2> QED
    BY <1>9, <2>1, <2>2
<1>25. \A i \in c + n + 1 .. n + 2 * c : s[i] = sem_wait
  BY <1>3, <1>15
<1>26. \A i \in n + 2 * c + 2 .. 2 * n + 2 * c + 1 : s[i] = pthread_join(i - (n + 2 * c + 1))
  BY <1>5, <1>17
<1> QED
  BY <1>4, <1>6, <1>7, <1>12, <1>16, <1>18, <1>19, <1>20, <1>21, <1>22, <1>23, <1>24, <1>25, <1>26
     DEF CloseWithReceiveLines, s

NonBlockingReceiveLines(s, m, n, c) ==
  /\ m <= 3 /\ Part(s, c + 3 * m + 3 * n + 4)
  /\ \A i \in 1 .. c : s[i] = call("send", "Message", Statuses)
  /\ \A i \in c + 1 .. c + m : s[i] = pthread_create(i - c, "send", Messages[i - c], FALSE)
  /\ \A k \in 1 .. n :
       /\ s[c + m + (2 * k - 1)] = pthread_create(m + k, "non_blocking_receive", Uninit, FALSE)
       /\ s[c + m + 2 * k] = usleep
  /\ \A i \in c + m + 2 * n + 1 .. c + 2 * m + 3 * n :
       s[i] = pthread_join(i - (c + m + 2 * n))
  /\ s[c + 2 * m + 3 * n + 1] = mu_assert("data", "Message", {c})
  /\ \A k \in 1 .. m : s[c + 2 * m + 3 * n + 1 + k] = mu_assert("data", Messages[k], {1})
  /\ s[c + 3 * m + 3 * n + 2] = mu_assert("out", CHANNEL_EMPTY, {n - m - c})
  /\ s[c + 3 * m + 3 * n + 3] = call("close", Uninit, Statuses)
  /\ s[c + 3 * m + 3 * n + 4] = destroy(Statuses)

(* These are the lines of test_non_blocking_receive. *)
LEMMA NonBlockingReceiveLayout ==
  ASSUME NEW m \in Nat, NEW n \in Nat, NEW c \in Nat, 1 .. m + n \subseteq Helper, m <= 3
  PROVE  NonBlockingReceiveLines(test_non_blocking_receive(m, n, c), m, n, c)
<1> DEFINE s == test_non_blocking_receive(m, n, c)
           a == sends(c, "Message")
           sender(h) == pthread_create(h, "send", Messages[h], FALSE)
           b == [h \in 1 .. m |-> sender(h)]
           create(h) == pthread_create(h, "non_blocking_receive", Uninit, FALSE)
           d == [k \in 1 .. 2 * n |-> IF k % 2 = 0 THEN usleep ELSE create(m + (k + 1) \div 2)]
           e == joins(m + n)
           x == mu_assert("data", "Message", {c})
           f == <<x>>
           once(h) == mu_assert("data", Messages[h], {1})
           g == [h \in 1 .. m |-> once(h)]
           z == mu_assert("out", CHANNEL_EMPTY, {n - m - c})
           w == <<z>>
           q == a \o b \o d \o e \o f \o g
<1>1. Part(a, c) /\ \A i \in 1 .. c : a[i] = call("send", "Message", Statuses)
  BY SendsPart, NamesOfTests
<1>2. Part(b, m)
  <2>1. ASSUME NEW h \in 1 .. m
        PROVE  sender(h) \in Statement
    <3>1. h \in Helper /\ h \in 1 .. 3
      OBVIOUS
    <3>2. Messages[h] \in Value
      BY <3>1, MessagesDiffer
    <3> QED
      BY <3>1, <3>2, NamesOfTests DEF pthread_create, Statement
  <2> HIDE DEF sender
  <2> QED
    BY <2>1 DEF Part
<1>3. Part(d, 2 * n)
  <2>1. usleep \in Statement
    BY DEF usleep, Statement
  <2>2. \A h \in Helper : create(h) \in Statement
    BY NamesOfTests DEF pthread_create, Statement
  <2> HIDE DEF create
  <2>3. ASSUME NEW k \in 1 .. 2 * n
        PROVE  m + (k + 1) \div 2 \in Helper \/ k % 2 = 0
    OBVIOUS
  <2> QED
    BY <2>1, <2>2, <2>3 DEF Part
<1>4. Part(e, m + n) /\ \A i \in 1 .. m + n : e[i] = pthread_join(i)
  BY PartsOfTests
<1>5. /\ Part(f, 1) /\ f[1] = x
      /\ Part(w, 1) /\ w[1] = z
  <2>1. x \in Statement /\ z \in Statement
    <3>1. c \in Int /\ n - m - c \in Int /\ CHANNEL_EMPTY \in Int
      BY DEF CHANNEL_EMPTY
    <3> QED
      BY <3>1, AssertStatement, NamesOfTests
  <2> HIDE DEF x, z
  <2> QED
    BY <2>1, OnePart
<1>25. Part(g, m) /\ \A i \in 1 .. m : g[i] = once(i)
  <2>1. ASSUME NEW h \in 1 .. m
        PROVE  once(h) \in Statement
    <3>1. Messages[h] \in Value
      BY MessagesDiffer
    <3> QED
      BY <3>1, AssertStatement
  <2> HIDE DEF once
  <2> QED
    BY <2>1 DEF Part
<1>6. s = q \o w \o cleanup
  BY DEF test_non_blocking_receive
<1>7. \A i \in 1 .. m : b[i] = pthread_create(i, "send", Messages[i], FALSE)
  OBVIOUS
<1>8. ASSUME NEW k \in 1 .. n
      PROVE  d[2 * k - 1] = create(m + k) /\ d[2 * k] = usleep
  <2>1. 2 * k \in 1 .. 2 * n /\ 2 * k - 1 \in 1 .. 2 * n
    OBVIOUS
  <2>2. (2 * k) % 2 = 0 /\ (2 * k - 1) % 2 # 0 /\ (2 * k - 1 + 1) \div 2 = k
    OBVIOUS
  <2> HIDE DEF create
  <2> QED
    BY <2>1, <2>2
<1> DEFINE K == c + m + 2 * n + (m + n) + 1 + m
<1>9. Parts6(q, a, c, b, m, d, 2 * n, e, m + n, f, 1, g, m)
  <2> HIDE DEF s, a, b, d, e, f, g, create, once
  <2> QED
    BY <1>1, <1>2, <1>3, <1>4, <1>5, <1>25 DEF Parts6
<1> HIDE DEF s, a, b, d, e, f, g, w, q, create, once
<1>10. /\ Part(q, K)
       /\ Joined6(q, a, c, b, m, d, 2 * n, e, m + n, f, 1, g, m)
  BY <1>9, SixParts
<1>26. Parts3(s, q, K, w, 1, cleanup, 2)
  BY <1>5, <1>6, <1>10, CleanupPart DEF Parts3
<1>27. Part(s, K + 1 + 2) /\ Joined3(s, q, K, w, 1, cleanup, 2)
  <2> HIDE DEF K
  <2> QED
    BY <1>26, ThreeParts
<1>11. Part(s, c + 3 * m + 3 * n + 4)
  <2>1. K + 1 + 2 = c + 3 * m + 3 * n + 4
    OBVIOUS
  <2> HIDE DEF K
  <2> QED
    BY <1>27, <2>1
<1>28. \A i \in 1 .. K : s[i] = q[i]
  BY <1>27 DEF Joined3
<1>12. \A i \in 1 .. c : s[i] = a[i]
  BY <1>10, <1>28 DEF Joined6
<1>13. \A i \in c + 1 .. c + m : s[i] = b[i - c]
  BY <1>10, <1>28 DEF Joined6
<1>14. \A i \in c + m + 1 .. c + m + 2 * n : s[i] = d[i - (c + m)]
  BY <1>10, <1>28 DEF Joined6
<1>15. \A i \in c + m + 2 * n + 1 .. c + 2 * m + 3 * n : s[i] = e[i - (c + m + 2 * n)]
  BY <1>10, <1>28 DEF Joined6
<1>16. s[c + 2 * m + 3 * n + 1] = f[1]
  BY <1>10, <1>28 DEF Joined6
<1>17. ASSUME NEW k \in 1 .. m
       PROVE  s[c + 2 * m + 3 * n + 1 + k] = g[k]
  <2> DEFINE i == c + 2 * m + 3 * n + 1 + k
  <2>1. i \in 1 .. K /\ i > c + m + 2 * n + (m + n) + 1 /\ i - (c + m + 2 * n + (m + n) + 1) = k
    OBVIOUS
  <2>2. s[i] = q[i]
    BY <1>28, <2>1
  <2>3. q[i] = g[i - (c + m + 2 * n + (m + n) + 1)]
    BY <1>10, <2>1 DEF Joined6
  <2> QED
    BY <2>1, <2>2, <2>3
<1>18. s[c + 3 * m + 3 * n + 2] = w[1]
  <2>1. K \in Nat /\ K + 1 = c + 3 * m + 3 * n + 2
    OBVIOUS
  <2> HIDE DEF K
  <2>2. s[K + 1] = w[1]
    <3>1. PICK i : i = K + 1
      OBVIOUS
    <3>2. i \in 1 .. K + 1 + 2 /\ ~(i <= K) /\ i <= K + 1 /\ i - K = 1
      BY <2>1, <3>1
    <3>3. s[i] = w[i - K]
      BY <1>27, <3>2 DEF Joined3
    <3> QED
      BY <3>1, <3>2, <3>3
  <2> QED
    BY <2>1, <2>2
<1>19. s[c + 3 * m + 3 * n + 3] = cleanup[1]
  BY <1>27 DEF Joined3
<1>20. s[c + 3 * m + 3 * n + 4] = cleanup[2]
  BY <1>27 DEF Joined3
<1>21. \A i \in 1 .. c : s[i] = call("send", "Message", Statuses)
  BY <1>1, <1>12
<1>22. ASSUME NEW i \in c + 1 .. c + m
       PROVE  s[i] = pthread_create(i - c, "send", Messages[i - c], FALSE)
  <2>1. s[i] = b[i - c]
    BY <1>13
  <2>2. i - c \in 1 .. m
    OBVIOUS
  <2> QED
    BY <1>7, <2>1, <2>2
<1>23. ASSUME NEW k \in 1 .. n
       PROVE  s[c + m + (2 * k - 1)] = create(m + k) /\ s[c + m + 2 * k] = usleep
  <2>1. s[c + m + (2 * k - 1)] = d[2 * k - 1]
    BY <1>14
  <2>2. s[c + m + 2 * k] = d[2 * k]
    BY <1>14
  <2> QED
    BY <1>8, <2>1, <2>2
<1>24. \A i \in c + m + 2 * n + 1 .. c + 2 * m + 3 * n : s[i] = pthread_join(i - (c + m + 2 * n))
  BY <1>4, <1>15
<1>29. \A k \in 1 .. m : s[c + 2 * m + 3 * n + 1 + k] = once(k)
  BY <1>17, <1>25
<1> QED
  BY <1>5, <1>11, <1>16, <1>18, <1>19, <1>20, <1>21, <1>22, <1>23, <1>24, <1>29, CleanupPart
     DEF NonBlockingReceiveLines, s, create, once

SendCorrectnessLines(s) ==
  /\ Part(s, 30)
  /\ s[1] = pthread_create(1, "send", "Message1", TRUE)
  /\ s[2] = sem_wait
  /\ s[3] = mu_assert("size", 0, {1})
  /\ s[4] = mu_assert("slot", 0, {"Message1"})
  /\ s[5] = mu_assert("out", SUCCESS, {1})
  /\ s[6] = pthread_create(2, "send", "Message2", TRUE)
  /\ s[7] = sem_wait
  /\ s[8] = mu_assert("size", 0, {2})
  /\ s[9] = mu_assert("slot", 0, {"Message1"})
  /\ s[10] = mu_assert("slot", 1, {"Message2"})
  /\ s[11] = mu_assert("out", SUCCESS, {2})
  /\ s[12] = pthread_create(3, "send", "Message3", TRUE)
  /\ s[13] = usleep
  /\ s[14] = mu_assert("size", 0, {2})
  /\ s[15] = mu_assert("slot", 0, {"Message1"})
  /\ s[16] = mu_assert("slot", 1, {"Message2"})
  /\ s[17] = mu_assert("out", GEN_ERROR, {1})
  /\ s[18] = call("receive", Uninit, Statuses)
  /\ s[19] = pthread_join(1)
  /\ s[20] = pthread_join(2)
  /\ s[21] = pthread_join(3)
  /\ s[22] = call("receive", Uninit, Statuses)
  /\ s[23] = call("receive", Uninit, Statuses)
  /\ s[24] = call("send", NULL, Statuses)
  /\ s[25] = call("send", NULL, Statuses)
  /\ s[26] = mu_assert("size", 0, {2})
  /\ s[27] = mu_assert("slot", 0, {NULL})
  /\ s[28] = mu_assert("slot", 1, {NULL})
  /\ s[29] = call("close", Uninit, Statuses)
  /\ s[30] = destroy(Statuses)

(* These are the lines of test_send_correctness. *)
LEMMA SendCorrectnessLayout ==
  ASSUME 1 .. 3 \subseteq Helper
  PROVE  SendCorrectnessLines(test_send_correctness)
<1> DEFINE s == test_send_correctness
           a == <<pthread_create(1, "send", "Message1", TRUE), sem_wait,
                  mu_assert("size", 0, {1}), mu_assert("slot", 0, {"Message1"}),
                  mu_assert("out", SUCCESS, {1}),
                  pthread_create(2, "send", "Message2", TRUE), sem_wait,
                  mu_assert("size", 0, {2}), mu_assert("slot", 0, {"Message1"}),
                  mu_assert("slot", 1, {"Message2"}), mu_assert("out", SUCCESS, {2}),
                  pthread_create(3, "send", "Message3", TRUE), usleep,
                  mu_assert("size", 0, {2}), mu_assert("slot", 0, {"Message1"}),
                  mu_assert("slot", 1, {"Message2"}), mu_assert("out", GEN_ERROR, {1}),
                  call("receive", Uninit, Statuses)>>
           b == joins(3)
           c == [k \in 1 .. 2 |-> call("receive", Uninit, Statuses)]
           d == sends(2, NULL)
           e == <<mu_assert("size", 0, {2}), mu_assert("slot", 0, {NULL}),
                  mu_assert("slot", 1, {NULL})>>
<1>1. Part(a, 18)
  BY ScriptAssumption DEF Part, Statement, pthread_create, SendOps, ReceiveOps, LockedOps,
     mu_assert, call, sem_wait, usleep, SUCCESS, GEN_ERROR
<1>2. Part(b, 3) /\ \A i \in 1 .. 3 : b[i] = pthread_join(i)
  BY PartsOfTests
<1>3. Part(c, 2)
  <2>1. call("receive", Uninit, Statuses) \in Statement
    BY DEF Statement, call, LockedOps, ReceiveOps
  <2> QED
    BY <2>1 DEF Part
<1>4. Part(d, 2) /\ \A i \in 1 .. 2 : d[i] = call("send", NULL, Statuses)
  BY SendsPart, NamesOfTests
<1>5. Part(e, 3)
  BY ScriptAssumption DEF Part, Statement, mu_assert, NULL
<1>6. s = a \o b \o c \o d \o e \o cleanup
  BY DEF test_send_correctness
<1>7. /\ a[1] = pthread_create(1, "send", "Message1", TRUE)
      /\ a[2] = sem_wait
      /\ a[3] = mu_assert("size", 0, {1})
      /\ a[4] = mu_assert("slot", 0, {"Message1"})
      /\ a[5] = mu_assert("out", SUCCESS, {1})
      /\ a[6] = pthread_create(2, "send", "Message2", TRUE)
      /\ a[7] = sem_wait
      /\ a[8] = mu_assert("size", 0, {2})
      /\ a[9] = mu_assert("slot", 0, {"Message1"})
      /\ a[10] = mu_assert("slot", 1, {"Message2"})
      /\ a[11] = mu_assert("out", SUCCESS, {2})
      /\ a[12] = pthread_create(3, "send", "Message3", TRUE)
      /\ a[13] = usleep
      /\ a[14] = mu_assert("size", 0, {2})
      /\ a[15] = mu_assert("slot", 0, {"Message1"})
      /\ a[16] = mu_assert("slot", 1, {"Message2"})
      /\ a[17] = mu_assert("out", GEN_ERROR, {1})
      /\ a[18] = call("receive", Uninit, Statuses)
  OBVIOUS
<1>8. c[1] = call("receive", Uninit, Statuses) /\ c[2] = call("receive", Uninit, Statuses)
  OBVIOUS
<1>9. /\ e[1] = mu_assert("size", 0, {2}) /\ e[2] = mu_assert("slot", 0, {NULL})
      /\ e[3] = mu_assert("slot", 1, {NULL})
  OBVIOUS
<1> HIDE DEF s, a, b, c, d, e
<1>10. Parts6(s, a, 18, b, 3, c, 2, d, 2, e, 3, cleanup, 2)
  BY <1>1, <1>2, <1>3, <1>4, <1>5, <1>6, CleanupPart DEF Parts6
<1>11. /\ Part(s, 18 + 3 + 2 + 2 + 3 + 2)
       /\ Joined6(s, a, 18, b, 3, c, 2, d, 2, e, 3, cleanup, 2)
  BY <1>10, SixParts
<1>12. Part(s, 30)
  BY <1>11
<1>13. \A i \in 1 .. 18 : s[i] = a[i]
  BY <1>11 DEF Joined6
<1>14. s[19] = b[1] /\ s[20] = b[2] /\ s[21] = b[3]
  BY <1>11 DEF Joined6
<1>15. s[22] = c[1] /\ s[23] = c[2]
  BY <1>11 DEF Joined6
<1>16. s[24] = d[1] /\ s[25] = d[2]
  BY <1>11 DEF Joined6
<1>17. s[26] = e[1] /\ s[27] = e[2] /\ s[28] = e[3]
  BY <1>11 DEF Joined6
<1>18. s[29] = cleanup[1] /\ s[30] = cleanup[2]
  BY <1>11 DEF Joined6
<1>19. s[1] = pthread_create(1, "send", "Message1", TRUE)
  BY <1>7, <1>13 DEF pthread_create
<1>20. s[6] = pthread_create(2, "send", "Message2", TRUE)
  BY <1>7, <1>13 DEF pthread_create
<1>21. s[12] = pthread_create(3, "send", "Message3", TRUE)
  BY <1>7, <1>13 DEF pthread_create
<1>22. /\ s[2] = sem_wait
       /\ s[3] = mu_assert("size", 0, {1})
       /\ s[4] = mu_assert("slot", 0, {"Message1"})
       /\ s[5] = mu_assert("out", SUCCESS, {1})
  BY <1>7, <1>13
<1>23. /\ s[7] = sem_wait
       /\ s[8] = mu_assert("size", 0, {2})
       /\ s[9] = mu_assert("slot", 0, {"Message1"})
       /\ s[10] = mu_assert("slot", 1, {"Message2"})
       /\ s[11] = mu_assert("out", SUCCESS, {2})
  BY <1>7, <1>13
<1>24. /\ s[13] = usleep
       /\ s[14] = mu_assert("size", 0, {2})
       /\ s[15] = mu_assert("slot", 0, {"Message1"})
       /\ s[16] = mu_assert("slot", 1, {"Message2"})
       /\ s[17] = mu_assert("out", GEN_ERROR, {1})
       /\ s[18] = call("receive", Uninit, Statuses)
  BY <1>7, <1>13
<1>25. /\ s[19] = pthread_join(1)
       /\ s[20] = pthread_join(2)
       /\ s[21] = pthread_join(3)
       /\ s[22] = call("receive", Uninit, Statuses)
       /\ s[23] = call("receive", Uninit, Statuses)
       /\ s[24] = call("send", NULL, Statuses)
       /\ s[25] = call("send", NULL, Statuses)
  BY <1>2, <1>4, <1>8, <1>14, <1>15, <1>16
<1>26. /\ s[26] = mu_assert("size", 0, {2})
       /\ s[27] = mu_assert("slot", 0, {NULL})
       /\ s[28] = mu_assert("slot", 1, {NULL})
       /\ s[29] = call("close", Uninit, Statuses)
       /\ s[30] = destroy(Statuses)
  BY <1>9, <1>17, <1>18, CleanupPart
<1> QED
  BY <1>12, <1>19, <1>20, <1>21, <1>22, <1>23, <1>24, <1>25, <1>26 DEF SendCorrectnessLines, s

ReceiveCorrectnessLines(s) ==
  /\ Part(s, 25)
  /\ s[1] = call("send", "Message1", Statuses)
  /\ s[2] = call("send", "Message2", Statuses)
  /\ s[3] = receive("Message1")
  /\ s[4] = mu_assert("size", 0, {1})
  /\ s[5] = receive("Message2")
  /\ s[6] = mu_assert("size", 0, {0})
  /\ s[7] = pthread_create(1, "receive", Uninit, TRUE)
  /\ s[8] = pthread_create(2, "receive", Uninit, TRUE)
  /\ s[9] = usleep
  /\ s[10] = mu_assert("size", 0, {0})
  /\ s[11] = mu_assert("out", GEN_ERROR, {2})
  /\ s[12] = call("send", "Message1", Statuses)
  /\ s[13] = sem_wait
  /\ s[14] = mu_assert("out", SUCCESS, {1})
  /\ s[15] = mu_assert("data", "Message1", {1, 2})
  /\ s[16] = call("send", "Message2", Statuses)
  /\ s[17] = sem_wait
  /\ s[18] = mu_assert("out", SUCCESS, {2})
  /\ s[19] = mu_assert("data", "Message2", {1, 2})
  /\ s[20] = pthread_join(1)
  /\ s[21] = pthread_join(2)
  /\ s[22] = call("send", NULL, Statuses)
  /\ s[23] = receive(NULL)
  /\ s[24] = call("close", Uninit, Statuses)
  /\ s[25] = destroy(Statuses)

(* These are the lines of test_receive_correctness. *)
LEMMA ReceiveCorrectnessLayout ==
  ASSUME 1 .. 2 \subseteq Helper
  PROVE  ReceiveCorrectnessLines(test_receive_correctness)
<1> DEFINE s == test_receive_correctness
           a == <<call("send", "Message1", Statuses), call("send", "Message2", Statuses),
                  receive("Message1"), mu_assert("size", 0, {1}), receive("Message2"),
                  mu_assert("size", 0, {0}), pthread_create(1, "receive", Uninit, TRUE),
                  pthread_create(2, "receive", Uninit, TRUE), usleep,
                  mu_assert("size", 0, {0}), mu_assert("out", GEN_ERROR, {2}),
                  call("send", "Message1", Statuses), sem_wait,
                  mu_assert("out", SUCCESS, {1}), mu_assert("data", "Message1", {1, 2}),
                  call("send", "Message2", Statuses), sem_wait,
                  mu_assert("out", SUCCESS, {2}), mu_assert("data", "Message2", {1, 2})>>
           b == joins(2)
           c == sends(1, NULL)
           d == <<receive(NULL)>>
<1>1. Part(a, 19)
  BY ScriptAssumption DEF Part, Statement, pthread_create, SendOps, ReceiveOps, LockedOps,
     mu_assert, call, receive, sem_wait, usleep, SUCCESS, GEN_ERROR
<1>2. Part(b, 2) /\ \A i \in 1 .. 2 : b[i] = pthread_join(i)
  BY PartsOfTests
<1>3. Part(c, 1) /\ \A i \in 1 .. 1 : c[i] = call("send", NULL, Statuses)
  BY SendsPart, NamesOfTests
<1>4. Part(d, 1) /\ d[1] = receive(NULL)
  <2>1. receive(NULL) \in Statement
    BY NamesOfTests DEF Statement, receive, LockedOps, ReceiveOps
  <2> QED
    BY <2>1, OnePart
<1>5. s = a \o b \o c \o d \o cleanup
  BY DEF test_receive_correctness
<1>6. /\ a[1] = call("send", "Message1", Statuses)
      /\ a[2] = call("send", "Message2", Statuses)
      /\ a[3] = receive("Message1")
      /\ a[4] = mu_assert("size", 0, {1})
      /\ a[5] = receive("Message2")
      /\ a[6] = mu_assert("size", 0, {0})
      /\ a[7] = pthread_create(1, "receive", Uninit, TRUE)
      /\ a[8] = pthread_create(2, "receive", Uninit, TRUE)
      /\ a[9] = usleep
      /\ a[10] = mu_assert("size", 0, {0})
      /\ a[11] = mu_assert("out", GEN_ERROR, {2})
      /\ a[12] = call("send", "Message1", Statuses)
      /\ a[13] = sem_wait
      /\ a[14] = mu_assert("out", SUCCESS, {1})
      /\ a[15] = mu_assert("data", "Message1", {1, 2})
      /\ a[16] = call("send", "Message2", Statuses)
      /\ a[17] = sem_wait
      /\ a[18] = mu_assert("out", SUCCESS, {2})
      /\ a[19] = mu_assert("data", "Message2", {1, 2})
  OBVIOUS
<1> HIDE DEF s, a, b, c, d
<1>7. Parts5(s, a, 19, b, 2, c, 1, d, 1, cleanup, 2)
  BY <1>1, <1>2, <1>3, <1>4, <1>5, CleanupPart DEF Parts5
<1>8. /\ Part(s, 19 + 2 + 1 + 1 + 2)
      /\ Joined5(s, a, 19, b, 2, c, 1, d, 1, cleanup, 2)
  BY <1>7, FiveParts
<1>9. Part(s, 25)
  BY <1>8
<1>10. \A i \in 1 .. 19 : s[i] = a[i]
  BY <1>8 DEF Joined5
<1>11. s[20] = b[1] /\ s[21] = b[2]
  BY <1>8 DEF Joined5
<1>12. s[22] = c[1] /\ s[23] = d[1]
  BY <1>8 DEF Joined5
<1>13. s[24] = cleanup[1] /\ s[25] = cleanup[2]
  BY <1>8 DEF Joined5
<1>14. s[7] = pthread_create(1, "receive", Uninit, TRUE)
  BY <1>6, <1>10 DEF pthread_create
<1>15. s[8] = pthread_create(2, "receive", Uninit, TRUE)
  BY <1>6, <1>10 DEF pthread_create
<1>16. /\ s[1] = call("send", "Message1", Statuses)
       /\ s[2] = call("send", "Message2", Statuses)
       /\ s[3] = receive("Message1")
       /\ s[4] = mu_assert("size", 0, {1})
       /\ s[5] = receive("Message2")
       /\ s[6] = mu_assert("size", 0, {0})
  BY <1>6, <1>10
<1>17. /\ s[9] = usleep
       /\ s[10] = mu_assert("size", 0, {0})
       /\ s[11] = mu_assert("out", GEN_ERROR, {2})
       /\ s[12] = call("send", "Message1", Statuses)
       /\ s[13] = sem_wait
       /\ s[14] = mu_assert("out", SUCCESS, {1})
  BY <1>6, <1>10
<1>18. /\ s[15] = mu_assert("data", "Message1", {1, 2})
       /\ s[16] = call("send", "Message2", Statuses)
       /\ s[17] = sem_wait
       /\ s[18] = mu_assert("out", SUCCESS, {2})
       /\ s[19] = mu_assert("data", "Message2", {1, 2})
  BY <1>6, <1>10
<1>19. /\ s[20] = pthread_join(1)
       /\ s[21] = pthread_join(2)
       /\ s[22] = call("send", NULL, Statuses)
       /\ s[23] = receive(NULL)
       /\ s[24] = call("close", Uninit, Statuses)
       /\ s[25] = destroy(Statuses)
  BY <1>2, <1>3, <1>4, <1>11, <1>12, <1>13, CleanupPart
<1> QED
  BY <1>9, <1>14, <1>15, <1>16, <1>17, <1>18, <1>19 DEF ReceiveCorrectnessLines, s

FreeLines(s) ==
  /\ Part(s, 3)
  /\ s[1] = destroy({DESTROY_ERROR})
  /\ s[2] = call("close", Uninit, {SUCCESS})
  /\ s[3] = destroy({SUCCESS})

(* These are the lines of test_free. *)
LEMMA FreeLayout == FreeLines(test_free)
<1>1. /\ destroy({DESTROY_ERROR}) \in Statement /\ destroy({SUCCESS}) \in Statement
      /\ call("close", Uninit, {SUCCESS}) \in Statement
  BY DEF Statement, call, destroy, LockedOps, Statuses
<1> QED
  BY <1>1 DEF FreeLines, Part, test_free

-----------------------------------------------------------------------------
(***************************************************************************)
(* What the tests have in common: who is created, joined and destroyed     *)
(* when, and what the calls of the main thread may return.                 *)
(***************************************************************************)

(* Statement i creates helper h, statement i closes the channel, and one   *)
(* before i does.                                                          *)
Creates(s, i, h) == s[i].do = "pthread_create" /\ s[i].h = h
Closes(s, i) == s[i].do = "call" /\ s[i].op = "close"
ClosedBefore(s, i) == \E j \in 1 .. Len(s) : j < i /\ Closes(s, j)

ValidStatements(s) ==
  \A i \in 1 .. Len(s) :
    /\ s[i].do \in {"pthread_create", "pthread_join", "sem_wait", "usleep", "call", "destroy",
                    "mu_assert"}
    /\ s[i].do = "pthread_create" =>
         /\ s[i].h \in Helper /\ s[i].sem \in BOOLEAN
         /\ s[i].op \in SendOps \cup ReceiveOps /\ Operation(s[i].op, s[i].v)
    /\ s[i].do = "pthread_join" => s[i].h \in Helper
    /\ s[i].do = "call" => Operation(s[i].op, s[i].v)
    /\ s[i].do = "destroy" => s[i].data = {Uninit}

CreatedOnce(s) ==
  \A i, j \in 1 .. Len(s) :
    s[i].do = "pthread_create" /\ s[j].do = "pthread_create" /\ s[i].h = s[j].h => i = j

JoinedBeforeDestroy(s) ==
  \A i, j \in 1 .. Len(s) :
    s[i].do = "destroy" /\ s[j].do = "pthread_create" =>
      j < i /\ \E k \in 1 .. Len(s) : k < i /\ s[k].do = "pthread_join" /\ s[k].h = s[j].h

ExpectedReturns(s) ==
  \A i \in 1 .. Len(s) :
    /\ s[i].do = "call" =>
         \/ s[i].returns = Statuses
         \/ s[i].returns = {CLOSED_ERROR} /\ ClosedBefore(s, i)
         \/ s[i].returns = {SUCCESS} /\ s[i].op = "close" /\ ~ClosedBefore(s, i)
    /\ s[i].do = "destroy" =>
         \/ s[i].returns = Statuses
         \/ s[i].returns = {DESTROY_ERROR} /\ ~ClosedBefore(s, i)
         \/ s[i].returns = {SUCCESS} /\ ClosedBefore(s, i)

WellFormed(s) ==
  /\ Len(s) \in Nat
  /\ ValidStatements(s) /\ CreatedOnce(s) /\ JoinedBeforeDestroy(s) /\ ExpectedReturns(s)

(* The statements of a sequence of statements are valid. *)
LEMMA PartValid ==
  ASSUME NEW s, NEW n, Part(s, n)
  PROVE  Len(s) = n /\ n \in Nat /\ ValidStatements(s)
<1>1. Len(s) = n /\ n \in Nat /\ s \in Seq(Statement)
  BY DEF Part
<1>2. ASSUME NEW st \in Statement
      PROVE  /\ st.do \in {"pthread_create", "pthread_join", "sem_wait", "usleep", "call",
                           "destroy", "mu_assert"}
             /\ st.do = "pthread_create" =>
                  /\ st.h \in Helper /\ st.sem \in BOOLEAN
                  /\ st.op \in SendOps \cup ReceiveOps /\ Operation(st.op, st.v)
             /\ st.do = "pthread_join" => st.h \in Helper
             /\ st.do = "call" => Operation(st.op, st.v)
             /\ st.do = "destroy" => st.data = {Uninit}
  BY DEF Statement, Operation
<1>3. \A i \in 1 .. Len(s) : s[i] \in Statement
  BY <1>1
<1> QED
  BY <1>1, <1>2, <1>3 DEF ValidStatements

(* test_non_blocking_send is well formed. *)
LEMMA NonBlockingSendWellFormed ==
  ASSUME NEW n \in Nat, NEW c \in Nat, 1 .. n \subseteq Helper, NEW s, NonBlockingSendLines(s, n, c)
  PROVE  WellFormed(s)
<1>1. Len(s) = 2 * n + 3 /\ ValidStatements(s)
  BY PartValid DEF NonBlockingSendLines
<1>2. ASSUME NEW i \in 1 .. n
      PROVE  s[i].do = "pthread_create" /\ s[i].h = i
  <2>1. s[i] = pthread_create(i, "non_blocking_send", "Message1", FALSE)
    BY DEF NonBlockingSendLines
  <2> QED
    BY <2>1 DEF pthread_create
<1>3. ASSUME NEW i \in n + 1 .. 2 * n
      PROVE  s[i].do = "pthread_join" /\ s[i].h = i - n
  <2>1. s[i] = pthread_join(i - n)
    BY DEF NonBlockingSendLines
  <2> QED
    BY <2>1 DEF pthread_join
<1>4. s[2 * n + 1].do = "mu_assert"
  BY DEF mu_assert, NonBlockingSendLines
<1>5. s[2 * n + 2].do = "call" /\ s[2 * n + 2].returns = Statuses
  BY DEF call, NonBlockingSendLines
<1>6. s[2 * n + 3].do = "destroy" /\ s[2 * n + 3].returns = Statuses
  BY DEF destroy, NonBlockingSendLines
<1>7. ASSUME NEW i \in 1 .. Len(s), s[i].do = "pthread_create"
      PROVE  i \in 1 .. n
  <2>1. i \notin n + 1 .. 2 * n
    BY <1>3, <1>7
  <2>2. i # 2 * n + 1 /\ i # 2 * n + 2 /\ i # 2 * n + 3
    BY <1>4, <1>5, <1>6, <1>7
  <2> QED
    BY <1>1, <2>1, <2>2
<1>8. \A i \in 1 .. Len(s) : s[i].do = "destroy" => i = 2 * n + 3
  BY <1>1, <1>2, <1>3, <1>4, <1>5
<1>9. \A i \in 1 .. Len(s) : s[i].do = "call" => s[i].returns = Statuses
  BY <1>1, <1>2, <1>3, <1>4, <1>5, <1>6
<1>10. CreatedOnce(s)
  BY <1>2, <1>7 DEF CreatedOnce
<1>11. JoinedBeforeDestroy(s)
  <2> SUFFICES ASSUME NEW i \in 1 .. Len(s), NEW j \in 1 .. Len(s),
                      s[i].do = "destroy", s[j].do = "pthread_create"
               PROVE  j < i /\ \E k \in 1 .. Len(s) :
                                  k < i /\ s[k].do = "pthread_join" /\ s[k].h = s[j].h
    BY DEF JoinedBeforeDestroy
  <2>1. i = 2 * n + 3 /\ j \in 1 .. n
    BY <1>7, <1>8
  <2>2. n + j \in n + 1 .. 2 * n
    BY <2>1
  <2>3. s[n + j].do = "pthread_join" /\ s[n + j].h = s[j].h
    BY <1>2, <1>3, <2>1, <2>2
  <2> QED
    BY <1>1, <2>1, <2>2, <2>3
<1>12. ExpectedReturns(s)
  BY <1>6, <1>8, <1>9 DEF ExpectedReturns
<1> QED
  BY <1>1, <1>10, <1>11, <1>12 DEF WellFormed
(* test_overall_send_receive is well formed. *)
LEMMA OverallSendReceiveWellFormed ==
  ASSUME NEW n \in Nat, NEW s, OverallSendReceiveLines(s, n)
  PROVE  WellFormed(s)
<1>1. Len(s) = 4 * n + 4 /\ ValidStatements(s)
  BY PartValid DEF OverallSendReceiveLines
<1>2. ASSUME NEW i \in 1 .. 2 * n
      PROVE  s[i].do = "pthread_create" /\ s[i].h = i
  <2>1. CASE i \in 1 .. n
    <3>1. s[i] = pthread_create(i, "receive", Uninit, FALSE)
      BY <2>1 DEF OverallSendReceiveLines
    <3> QED
      BY <3>1 DEF pthread_create
  <2>2. CASE i \in n + 1 .. 2 * n
    <3>1. s[i] = pthread_create(i, "send", "Message1", FALSE)
      BY <2>2 DEF OverallSendReceiveLines
    <3> QED
      BY <3>1 DEF pthread_create
  <2> QED
    BY <2>1, <2>2
<1>3. ASSUME NEW i \in 2 * n + 1 .. 4 * n
      PROVE  s[i].do = "pthread_join" /\ s[i].h = i - 2 * n
  <2>1. s[i] = pthread_join(i - 2 * n)
    BY DEF OverallSendReceiveLines
  <2> QED
    BY <2>1 DEF pthread_join
<1>4. s[4 * n + 1].do = "mu_assert" /\ s[4 * n + 2].do = "mu_assert"
  BY DEF mu_assert, OverallSendReceiveLines
<1>5. s[4 * n + 3].do = "call" /\ s[4 * n + 3].returns = Statuses
  BY DEF call, OverallSendReceiveLines
<1>6. s[4 * n + 4].do = "destroy" /\ s[4 * n + 4].returns = Statuses
  BY DEF destroy, OverallSendReceiveLines
<1>7. ASSUME NEW i \in 1 .. Len(s), s[i].do = "pthread_create"
      PROVE  i \in 1 .. 2 * n
  <2>1. i \notin 2 * n + 1 .. 4 * n
    BY <1>3, <1>7
  <2>2. i \notin 4 * n + 1 .. 4 * n + 4
    BY <1>4, <1>5, <1>6, <1>7
  <2> QED
    BY <1>1, <2>1, <2>2
<1>8. \A i \in 1 .. Len(s) : s[i].do = "destroy" => i = 4 * n + 4
  BY <1>1, <1>2, <1>3, <1>4, <1>5
<1>9. \A i \in 1 .. Len(s) : s[i].do = "call" => s[i].returns = Statuses
  BY <1>1, <1>2, <1>3, <1>4, <1>5, <1>6
<1>10. CreatedOnce(s)
  BY <1>2, <1>7 DEF CreatedOnce
<1>11. JoinedBeforeDestroy(s)
  <2> SUFFICES ASSUME NEW i \in 1 .. Len(s), NEW j \in 1 .. Len(s),
                      s[i].do = "destroy", s[j].do = "pthread_create"
               PROVE  j < i /\ \E k \in 1 .. Len(s) :
                                  k < i /\ s[k].do = "pthread_join" /\ s[k].h = s[j].h
    BY DEF JoinedBeforeDestroy
  <2>1. i = 4 * n + 4 /\ j \in 1 .. 2 * n
    BY <1>7, <1>8
  <2>2. 2 * n + j \in 2 * n + 1 .. 4 * n
    BY <2>1
  <2>3. s[2 * n + j].do = "pthread_join" /\ s[2 * n + j].h = s[j].h
    BY <1>2, <1>3, <2>1, <2>2
  <2> QED
    BY <1>1, <2>1, <2>2, <2>3
<1>12. ExpectedReturns(s)
  BY <1>6, <1>8, <1>9 DEF ExpectedReturns
<1> QED
  BY <1>1, <1>10, <1>11, <1>12 DEF WellFormed

(* test_channel_close_with_send is well formed. *)
LEMMA CloseWithSendWellFormed ==
  ASSUME NEW n \in Nat, NEW c \in Nat, NEW s, CloseWithSendLines(s, n, c)
  PROVE  WellFormed(s)
<1>1. Len(s) = 2 * n + c + 6 /\ ValidStatements(s)
  BY PartValid DEF CloseWithSendLines
<1>2. ASSUME NEW i \in 1 .. n
      PROVE  s[i].do = "pthread_create" /\ s[i].h = i
  <2>1. s[i] = pthread_create(i, "send", "Message1", TRUE)
    BY DEF CloseWithSendLines
  <2> QED
    BY <2>1 DEF pthread_create
<1>3. ASSUME NEW i \in n + 1 .. n + c
      PROVE  s[i].do = "sem_wait"
  <2>1. s[i] = sem_wait
    BY DEF CloseWithSendLines
  <2> QED
    BY <2>1 DEF sem_wait
<1>4. LET i == n + c + 1
      IN  s[i].do = "call" /\ s[i].op = "close" /\ s[i].returns = {SUCCESS}
  BY DEF call, CloseWithSendLines
<1>5. ASSUME NEW i \in n + c + 2 .. 2 * n + c + 1
      PROVE  s[i].do = "pthread_join" /\ s[i].h = i - (n + c + 1)
  <2>1. s[i] = pthread_join(i - (n + c + 1))
    BY DEF CloseWithSendLines
  <2> QED
    BY <2>1 DEF pthread_join
<1>6. s[2 * n + c + 2].do = "mu_assert"
  BY DEF mu_assert, CloseWithSendLines
<1>7. ASSUME NEW i \in 2 * n + c + 3 .. 2 * n + c + 5
      PROVE  s[i].do = "call" /\ s[i].returns = {CLOSED_ERROR}
  BY DEF call, CloseWithSendLines
<1>8. s[2 * n + c + 6].do = "destroy" /\ s[2 * n + c + 6].returns = Statuses
  BY DEF destroy, CloseWithSendLines
<1>9. ASSUME NEW i \in 1 .. Len(s), s[i].do = "pthread_create"
      PROVE  i \in 1 .. n
  <2>1. i \notin n + 1 .. n + c
    BY <1>3, <1>9
  <2>2. i \notin n + c + 2 .. 2 * n + c + 1
    BY <1>5, <1>9
  <2>3. i # n + c + 1 /\ i # 2 * n + c + 2 /\ i # 2 * n + c + 6
    BY <1>4, <1>6, <1>8, <1>9
  <2>4. i \notin 2 * n + c + 3 .. 2 * n + c + 5
    BY <1>7, <1>9
  <2> QED
    BY <1>1, <2>1, <2>2, <2>3, <2>4
<1>10. \A i \in 1 .. Len(s) : s[i].do = "destroy" => i = 2 * n + c + 6
  BY <1>1, <1>2, <1>3, <1>4, <1>5, <1>6, <1>7
<1>11. ASSUME NEW i \in 1 .. Len(s), s[i].do = "call"
       PROVE  i = n + c + 1 \/ i \in 2 * n + c + 3 .. 2 * n + c + 5
  <2>1. i \notin 1 .. n /\ i \notin n + 1 .. n + c
    BY <1>2, <1>3, <1>11
  <2>2. i \notin n + c + 2 .. 2 * n + c + 1
    BY <1>5, <1>11
  <2>3. i # 2 * n + c + 2 /\ i # 2 * n + c + 6
    BY <1>6, <1>8, <1>11
  <2> QED
    BY <1>1, <2>1, <2>2, <2>3
<1>12. CreatedOnce(s)
  BY <1>2, <1>9 DEF CreatedOnce
<1>13. JoinedBeforeDestroy(s)
  <2> SUFFICES ASSUME NEW i \in 1 .. Len(s), NEW j \in 1 .. Len(s),
                      s[i].do = "destroy", s[j].do = "pthread_create"
               PROVE  j < i /\ \E k \in 1 .. Len(s) :
                                  k < i /\ s[k].do = "pthread_join" /\ s[k].h = s[j].h
    BY DEF JoinedBeforeDestroy
  <2>1. i = 2 * n + c + 6 /\ j \in 1 .. n
    BY <1>9, <1>10
  <2>2. n + c + 1 + j \in n + c + 2 .. 2 * n + c + 1
    BY <2>1
  <2>3. s[n + c + 1 + j].do = "pthread_join" /\ s[n + c + 1 + j].h = s[j].h
    BY <1>2, <1>5, <2>1, <2>2
  <2> QED
    BY <1>1, <2>1, <2>2, <2>3
<1>14. ExpectedReturns(s)
  <2>1. ~ClosedBefore(s, n + c + 1)
    BY <1>11 DEF ClosedBefore, Closes
  <2>2. \A i \in 1 .. Len(s) : i > n + c + 1 => ClosedBefore(s, i)
    BY <1>1, <1>4 DEF ClosedBefore, Closes
  <2>3. ASSUME NEW i \in 1 .. Len(s), s[i].do = "call"
        PROVE  \/ s[i].returns = {CLOSED_ERROR} /\ ClosedBefore(s, i)
               \/ s[i].returns = {SUCCESS} /\ s[i].op = "close" /\ ~ClosedBefore(s, i)
    <3>1. CASE i = n + c + 1
      BY <1>4, <2>1, <3>1
    <3>2. CASE i \in 2 * n + c + 3 .. 2 * n + c + 5
      BY <1>7, <2>2, <3>2
    <3> QED
      BY <1>11, <2>3, <3>1, <3>2
  <2> QED
    BY <1>8, <1>10, <2>3 DEF ExpectedReturns
<1> QED
  BY <1>1, <1>12, <1>13, <1>14 DEF WellFormed

(* test_channel_close_with_receive is well formed. *)
LEMMA CloseWithReceiveWellFormed ==
  ASSUME NEW n \in Nat, NEW c \in Nat, NEW s, CloseWithReceiveLines(s, n, c)
  PROVE  WellFormed(s)
<1>1. Len(s) = 2 * n + 2 * c + 6 /\ ValidStatements(s)
  BY PartValid DEF CloseWithReceiveLines
<1>2. ASSUME NEW i \in 1 .. c
      PROVE  s[i].do = "call" /\ s[i].op = "send" /\ s[i].returns = Statuses
  <2>1. s[i] = call("send", "Message1", Statuses)
    BY DEF CloseWithReceiveLines
  <2> QED
    BY <2>1 DEF call
<1>3. ASSUME NEW i \in c + 1 .. c + n
      PROVE  s[i].do = "pthread_create" /\ s[i].h = i - c
  <2>1. s[i] = pthread_create(i - c, "receive", Uninit, TRUE)
    BY DEF CloseWithReceiveLines
  <2> QED
    BY <2>1 DEF pthread_create
<1>4. ASSUME NEW i \in c + n + 1 .. n + 2 * c
      PROVE  s[i].do = "sem_wait"
  <2>1. s[i] = sem_wait
    BY DEF CloseWithReceiveLines
  <2> QED
    BY <2>1 DEF sem_wait
<1>5. LET i == n + 2 * c + 1
      IN  s[i].do = "call" /\ s[i].op = "close" /\ s[i].returns = {SUCCESS}
  BY DEF call, CloseWithReceiveLines
<1>6. ASSUME NEW i \in n + 2 * c + 2 .. 2 * n + 2 * c + 1
      PROVE  s[i].do = "pthread_join" /\ s[i].h = i - (n + 2 * c + 1)
  <2>1. s[i] = pthread_join(i - (n + 2 * c + 1))
    BY DEF CloseWithReceiveLines
  <2> QED
    BY <2>1 DEF pthread_join
<1>7. s[2 * n + 2 * c + 2].do = "mu_assert"
  BY DEF mu_assert, CloseWithReceiveLines
<1>8. ASSUME NEW i \in 2 * n + 2 * c + 3 .. 2 * n + 2 * c + 5
      PROVE  s[i].do = "call" /\ s[i].returns = {CLOSED_ERROR}
  BY DEF call, CloseWithReceiveLines
<1>9. s[2 * n + 2 * c + 6].do = "destroy" /\ s[2 * n + 2 * c + 6].returns = Statuses
  BY DEF destroy, CloseWithReceiveLines
<1>10. ASSUME NEW i \in 1 .. Len(s), s[i].do = "pthread_create"
       PROVE  i \in c + 1 .. c + n
  <2>1. i \notin 1 .. c /\ i \notin c + n + 1 .. n + 2 * c
    BY <1>2, <1>4, <1>10
  <2>2. i \notin n + 2 * c + 2 .. 2 * n + 2 * c + 1
    BY <1>6, <1>10
  <2>3. i # n + 2 * c + 1 /\ i # 2 * n + 2 * c + 2 /\ i # 2 * n + 2 * c + 6
    BY <1>5, <1>7, <1>9, <1>10
  <2>4. i \notin 2 * n + 2 * c + 3 .. 2 * n + 2 * c + 5
    BY <1>8, <1>10
  <2> QED
    BY <1>1, <2>1, <2>2, <2>3, <2>4
<1>11. ASSUME NEW i \in 1 .. Len(s), s[i].do = "destroy"
       PROVE  i = 2 * n + 2 * c + 6
  <2>1. i \notin 1 .. c /\ i \notin c + 1 .. c + n /\ i \notin c + n + 1 .. n + 2 * c
    BY <1>2, <1>3, <1>4, <1>11
  <2>2. i \notin n + 2 * c + 2 .. 2 * n + 2 * c + 1
    BY <1>6, <1>11
  <2>3. i # n + 2 * c + 1 /\ i # 2 * n + 2 * c + 2
    BY <1>5, <1>7, <1>11
  <2>4. i \notin 2 * n + 2 * c + 3 .. 2 * n + 2 * c + 5
    BY <1>8, <1>11
  <2> QED
    BY <1>1, <2>1, <2>2, <2>3, <2>4
<1>12. ASSUME NEW i \in 1 .. Len(s), s[i].do = "call"
       PROVE  i \in 1 .. c \/ i = n + 2 * c + 1 \/ i \in 2 * n + 2 * c + 3 .. 2 * n + 2 * c + 5
  <2>1. i \notin c + 1 .. c + n /\ i \notin c + n + 1 .. n + 2 * c
    BY <1>3, <1>4, <1>12
  <2>2. i \notin n + 2 * c + 2 .. 2 * n + 2 * c + 1
    BY <1>6, <1>12
  <2>3. i # 2 * n + 2 * c + 2 /\ i # 2 * n + 2 * c + 6
    BY <1>7, <1>9, <1>12
  <2> QED
    BY <1>1, <2>1, <2>2, <2>3
<1>13. CreatedOnce(s)
  BY <1>3, <1>10 DEF CreatedOnce
<1>14. JoinedBeforeDestroy(s)
  <2> SUFFICES ASSUME NEW i \in 1 .. Len(s), NEW j \in 1 .. Len(s),
                      s[i].do = "destroy", s[j].do = "pthread_create"
               PROVE  j < i /\ \E k \in 1 .. Len(s) :
                                  k < i /\ s[k].do = "pthread_join" /\ s[k].h = s[j].h
    BY DEF JoinedBeforeDestroy
  <2>1. i = 2 * n + 2 * c + 6 /\ j \in c + 1 .. c + n
    BY <1>10, <1>11
  <2> DEFINE k == n + c + 1 + j
  <2>2. k \in n + 2 * c + 2 .. 2 * n + 2 * c + 1
    BY <2>1
  <2>3. s[k].do = "pthread_join" /\ s[k].h = s[j].h
    <3>1. s[k].do = "pthread_join" /\ s[k].h = k - (n + 2 * c + 1)
      BY <1>6, <2>2
    <3> QED
      BY <1>3, <2>1, <3>1
  <2> QED
    BY <1>1, <2>1, <2>2, <2>3
<1>15. ExpectedReturns(s)
  <2>1. ~ClosedBefore(s, n + 2 * c + 1)
    BY <1>2, <1>12 DEF ClosedBefore, Closes
  <2>2. \A i \in 1 .. Len(s) : i > n + 2 * c + 1 => ClosedBefore(s, i)
    BY <1>1, <1>5 DEF ClosedBefore, Closes
  <2>3. ASSUME NEW i \in 1 .. Len(s), s[i].do = "call"
        PROVE  \/ s[i].returns = Statuses
               \/ s[i].returns = {CLOSED_ERROR} /\ ClosedBefore(s, i)
               \/ s[i].returns = {SUCCESS} /\ s[i].op = "close" /\ ~ClosedBefore(s, i)
    <3>1. CASE i = n + 2 * c + 1
      BY <1>5, <2>1, <3>1
    <3>2. CASE i \in 2 * n + 2 * c + 3 .. 2 * n + 2 * c + 5
      BY <1>8, <2>2, <3>2
    <3>3. CASE i \in 1 .. c
      BY <1>2, <3>3
    <3> QED
      BY <1>12, <2>3, <3>1, <3>2, <3>3
  <2> QED
    BY <1>9, <1>11, <2>3 DEF ExpectedReturns
<1> QED
  BY <1>1, <1>13, <1>14, <1>15 DEF WellFormed

(* test_non_blocking_receive is well formed. *)
LEMMA NonBlockingReceiveWellFormed ==
  ASSUME NEW m \in Nat, NEW n \in Nat, NEW c \in Nat, NEW s, NonBlockingReceiveLines(s, m, n, c)
  PROVE  WellFormed(s)
<1>1. Len(s) = c + 3 * m + 3 * n + 4 /\ ValidStatements(s)
  BY PartValid DEF NonBlockingReceiveLines
<1>2. ASSUME NEW i \in 1 .. c
      PROVE  s[i].do = "call" /\ s[i].returns = Statuses
  <2>1. s[i] = call("send", "Message", Statuses)
    BY DEF NonBlockingReceiveLines
  <2> QED
    BY <2>1 DEF call
<1>3. ASSUME NEW i \in c + 1 .. c + m
      PROVE  s[i].do = "pthread_create" /\ s[i].h = i - c
  <2>1. s[i] = pthread_create(i - c, "send", Messages[i - c], FALSE)
    BY DEF NonBlockingReceiveLines
  <2> QED
    BY <2>1 DEF pthread_create
<1>4. ASSUME NEW k \in 1 .. n
      PROVE  /\ s[c + m + (2 * k - 1)].do = "pthread_create"
             /\ s[c + m + (2 * k - 1)].h = m + k
             /\ s[c + m + 2 * k].do = "usleep"
  <2>1. /\ s[c + m + (2 * k - 1)] = pthread_create(m + k, "non_blocking_receive", Uninit, FALSE)
        /\ s[c + m + 2 * k] = usleep
    BY DEF NonBlockingReceiveLines
  <2> QED
    BY <2>1 DEF pthread_create, usleep
<1>16. ASSUME NEW k \in 1 .. n, NEW i, i = c + m + (2 * k - 1)
       PROVE  s[i].do = "pthread_create" /\ s[i].h = m + k
  BY <1>4, <1>16
<1>5. ASSUME NEW i \in c + m + 1 .. c + m + 2 * n
      PROVE  \E k \in 1 .. n : i = c + m + (2 * k - 1) \/ i = c + m + 2 * k
  <2> DEFINE k == (i - c - m + 1) \div 2
  <2>1. k \in 1 .. n /\ (i = c + m + (2 * k - 1) \/ i = c + m + 2 * k)
    OBVIOUS
  <2> QED
    BY <2>1
<1>6. ASSUME NEW i \in c + m + 2 * n + 1 .. c + 2 * m + 3 * n
      PROVE  s[i].do = "pthread_join" /\ s[i].h = i - (c + m + 2 * n)
  <2>1. s[i] = pthread_join(i - (c + m + 2 * n))
    BY DEF NonBlockingReceiveLines
  <2> QED
    BY <2>1 DEF pthread_join
<1>7. ASSUME NEW i \in c + 2 * m + 3 * n + 1 .. c + 3 * m + 3 * n + 2
      PROVE  s[i].do = "mu_assert"
  <2>1. CASE i = c + 2 * m + 3 * n + 1 \/ i = c + 3 * m + 3 * n + 2
    BY <2>1 DEF mu_assert, NonBlockingReceiveLines
  <2>2. CASE i \in c + 2 * m + 3 * n + 2 .. c + 2 * m + 3 * n + 1 + m
    <3> DEFINE k == i - (c + 2 * m + 3 * n + 1)
    <3>1. k \in 1 .. m /\ c + 2 * m + 3 * n + 1 + k = i
      BY <2>2
    <3> HIDE DEF k
    <3>2. s[i] = mu_assert("data", Messages[k], {1})
      BY <3>1 DEF NonBlockingReceiveLines
    <3> QED
      BY <3>2 DEF mu_assert
  <2> QED
    BY <2>1, <2>2
<1>8. LET i == c + 3 * m + 3 * n + 3
      IN  s[i].do = "call" /\ s[i].returns = Statuses
  BY DEF call, NonBlockingReceiveLines
<1>9. LET i == c + 3 * m + 3 * n + 4
      IN  s[i].do = "destroy" /\ s[i].returns = Statuses
  BY DEF destroy, NonBlockingReceiveLines
<1>10. ASSUME NEW i \in 1 .. Len(s), s[i].do = "pthread_create"
       PROVE  i \in c + 1 .. c + m \/ \E k \in 1 .. n : i = c + m + (2 * k - 1)
  <2>1. i \notin 1 .. c
    BY <1>2, <1>10
  <2>2. \A k \in 1 .. n : i # c + m + 2 * k
    BY <1>4, <1>10
  <2>3. i \notin c + m + 2 * n + 1 .. c + 2 * m + 3 * n
    BY <1>6, <1>10
  <2>4. i \notin c + 2 * m + 3 * n + 1 .. c + 3 * m + 3 * n + 2
    BY <1>7, <1>10
  <2>5. i # c + 3 * m + 3 * n + 3 /\ i # c + 3 * m + 3 * n + 4
    BY <1>8, <1>9, <1>10
  <2>6. i \in c + 1 .. c + m \/ i \in c + m + 1 .. c + m + 2 * n
    BY <1>1, <2>1, <2>3, <2>4, <2>5
  <2> QED
    BY <1>5, <2>2, <2>6
<1>11. ASSUME NEW i \in 1 .. Len(s), s[i].do = "destroy"
       PROVE  i = c + 3 * m + 3 * n + 4
  <2>1. i \notin 1 .. c /\ i \notin c + 1 .. c + m
    BY <1>2, <1>3, <1>11
  <2>2. i \notin c + m + 1 .. c + m + 2 * n
    <3> SUFFICES ASSUME i \in c + m + 1 .. c + m + 2 * n PROVE FALSE
      OBVIOUS
    <3>1. PICK k \in 1 .. n : i = c + m + 2 * k \/ i = c + m + (2 * k - 1)
      BY <1>5
    <3>2. s[i].do = "pthread_create" \/ s[i].do = "usleep"
      BY <1>4, <3>1
    <3> QED
      BY <1>11, <3>2
  <2>3. i \notin c + m + 2 * n + 1 .. c + 2 * m + 3 * n
    BY <1>6, <1>11
  <2>4. i \notin c + 2 * m + 3 * n + 1 .. c + 3 * m + 3 * n + 2
    BY <1>7, <1>11
  <2>5. i # c + 3 * m + 3 * n + 3
    BY <1>8, <1>11
  <2> QED
    BY <1>1, <2>1, <2>2, <2>3, <2>4, <2>5
<1>12. ASSUME NEW i \in 1 .. Len(s), s[i].do = "call"
       PROVE  s[i].returns = Statuses
  <2>1. i \notin c + 1 .. c + m
    BY <1>3, <1>12
  <2>2. i \notin c + m + 1 .. c + m + 2 * n
    <3> SUFFICES ASSUME i \in c + m + 1 .. c + m + 2 * n PROVE FALSE
      OBVIOUS
    <3>1. PICK k \in 1 .. n : i = c + m + 2 * k \/ i = c + m + (2 * k - 1)
      BY <1>5
    <3>2. s[i].do = "pthread_create" \/ s[i].do = "usleep"
      BY <1>4, <3>1
    <3> QED
      BY <1>12, <3>2
  <2>3. i \notin c + m + 2 * n + 1 .. c + 2 * m + 3 * n
    BY <1>6, <1>12
  <2>4. i \notin c + 2 * m + 3 * n + 1 .. c + 3 * m + 3 * n + 2
    BY <1>7, <1>12
  <2>5. i # c + 3 * m + 3 * n + 4
    BY <1>9, <1>12
  <2>6. i \in 1 .. c \/ i = c + 3 * m + 3 * n + 3
    BY <1>1, <2>1, <2>2, <2>3, <2>4, <2>5
  <2> QED
    BY <1>2, <1>8, <2>6
<1>13. CreatedOnce(s)
  <2> SUFFICES ASSUME NEW i \in 1 .. Len(s), NEW j \in 1 .. Len(s),
                      s[i].do = "pthread_create", s[j].do = "pthread_create", s[i].h = s[j].h
               PROVE  i = j
    BY DEF CreatedOnce
  <2>1. CASE i \in c + 1 .. c + m
    <3>1. s[i].h = i - c
      BY <1>3, <2>1
    <3>2. ASSUME NEW k \in 1 .. n, j = c + m + (2 * k - 1)
          PROVE  FALSE
      <4>1. s[j].h = m + k
        BY <1>16, <3>2
      <4>2. i - c = m + k
        BY <3>1, <4>1
      <4>3. i - c <= m /\ i - c >= 1
        BY <2>1
      <4> QED
        BY <4>2, <4>3
    <3>3. j \in c + 1 .. c + m
      BY <1>10, <3>2
    <3>4. s[j].h = j - c
      BY <1>3, <3>3
    <3>5. i - c = j - c
      BY <3>1, <3>4
    <3> QED
      BY <2>1, <3>3, <3>5
  <2>2. ASSUME NEW k \in 1 .. n, i = c + m + (2 * k - 1)
        PROVE  i = j
    <3>1. s[i].h = m + k
      BY <1>16, <2>2
    <3>2. j \notin c + 1 .. c + m
      <4> SUFFICES ASSUME j \in c + 1 .. c + m PROVE FALSE
        OBVIOUS
      <4>1. s[j].h = j - c
        BY <1>3
      <4>2. j - c = m + k
        BY <3>1, <4>1
      <4> QED
        BY <4>2
    <3>3. PICK l \in 1 .. n : j = c + m + (2 * l - 1)
      BY <1>10, <3>2
    <3>4. s[j].h = m + l
      BY <1>16, <3>3
    <3> QED
      BY <2>2, <3>1, <3>3, <3>4
  <2> QED
    BY <1>10, <2>1, <2>2
<1>14. JoinedBeforeDestroy(s)
  <2> SUFFICES ASSUME NEW i \in 1 .. Len(s), NEW j \in 1 .. Len(s),
                      s[i].do = "destroy", s[j].do = "pthread_create"
               PROVE  j < i /\ \E k \in 1 .. Len(s) :
                                  k < i /\ s[k].do = "pthread_join" /\ s[k].h = s[j].h
    BY DEF JoinedBeforeDestroy
  <2>1. i = c + 3 * m + 3 * n + 4
    BY <1>11
  <2>2. s[j].h \in 1 .. m + n
    <3>1. ASSUME NEW k \in 1 .. n, j = c + m + (2 * k - 1)
          PROVE  s[j].h = m + k
      BY <1>16, <3>1
    <3>2. ASSUME j \in c + 1 .. c + m
          PROVE  s[j].h = j - c
      BY <1>3, <3>2
    <3>3. ASSUME NEW k \in 1 .. n, j = c + m + (2 * k - 1)
          PROVE  s[j].h \in 1 .. m + n
      <4>1. m + k \in 1 .. m + n
        OBVIOUS
      <4>2. s[j].h = m + k
        BY <3>1, <3>3
      <4> QED
        BY <4>1, <4>2
    <3>4. ASSUME j \in c + 1 .. c + m
          PROVE  s[j].h \in 1 .. m + n
      <4>1. j - c \in 1 .. m + n
        BY <3>4
      <4> QED
        BY <3>2, <3>4, <4>1
    <3> QED
      BY <1>10, <3>3, <3>4
  <2>3. j <= c + m + 2 * n
    BY <1>10
  <2> DEFINE h == s[j].h
             k == c + m + 2 * n + h
  <2>4. k \in c + m + 2 * n + 1 .. c + 2 * m + 3 * n
    BY <2>2
  <2>5. s[k].do = "pthread_join" /\ s[k].h = k - (c + m + 2 * n)
    BY <1>6, <2>4
  <2>6. k - (c + m + 2 * n) = h
    BY <2>2
  <2>7. k \in 1 .. Len(s) /\ k < i
    <3> HIDE DEF k
    <3> QED
      BY <1>1, <2>1, <2>4
  <2>8. j < i
    BY <2>1, <2>3
  <2> HIDE DEF k
  <2> QED
    BY <2>5, <2>6, <2>7, <2>8
<1>15. ExpectedReturns(s)
  BY <1>9, <1>11, <1>12 DEF ExpectedReturns
<1> QED
  BY <1>1, <1>13, <1>14, <1>15 DEF WellFormed

(* test_send_correctness is well formed. *)
LEMMA SendCorrectnessWellFormed ==
  ASSUME NEW s, SendCorrectnessLines(s)
  PROVE  WellFormed(s)
<1>1. Len(s) = 30 /\ ValidStatements(s)
  BY PartValid DEF SendCorrectnessLines
<1>2. s[1].do = "pthread_create" /\ s[1].h = 1
  BY DEF SendCorrectnessLines, pthread_create
<1>3. s[6].do = "pthread_create" /\ s[6].h = 2
  BY DEF SendCorrectnessLines, pthread_create
<1>4. s[12].do = "pthread_create" /\ s[12].h = 3
  BY DEF SendCorrectnessLines, pthread_create
<1>5. s[19].do = "pthread_join" /\ s[19].h = 1
  BY DEF SendCorrectnessLines, pthread_join
<1>6. s[20].do = "pthread_join" /\ s[20].h = 2
  BY DEF SendCorrectnessLines, pthread_join
<1>7. s[21].do = "pthread_join" /\ s[21].h = 3
  BY DEF SendCorrectnessLines, pthread_join
<1>8. ASSUME NEW i \in {2, 3, 4, 5, 7, 8, 9, 10, 11, 13, 14, 15, 16, 17, 26, 27, 28}
      PROVE  s[i].do \in {"sem_wait", "usleep", "mu_assert"}
  BY DEF SendCorrectnessLines, sem_wait, usleep, mu_assert
<1>9. ASSUME NEW i \in {18, 22, 23, 24, 25, 29}
      PROVE  s[i].do = "call" /\ s[i].returns = Statuses
  BY DEF SendCorrectnessLines, call, receive
<1>10. s[30].do = "destroy" /\ s[30].returns = Statuses
  BY DEF SendCorrectnessLines, destroy
<1>11. \A i \in 1 .. 30 : i \in {1, 6, 12} \cup {19, 20, 21}
                           \cup {2, 3, 4, 5, 7, 8, 9, 10, 11, 13, 14, 15, 16, 17, 26, 27, 28}
                           \cup {18, 22, 23, 24, 25, 29} \cup {30}
  OBVIOUS
<1>12. ASSUME NEW i \in 1 .. 30, s[i].do = "pthread_create"
       PROVE  i \in {1, 6, 12}
  BY <1>5, <1>6, <1>7, <1>8, <1>9, <1>10, <1>11, <1>12
<1>13. ASSUME NEW i \in 1 .. 30, s[i].do = "destroy"
       PROVE  i = 30
  BY <1>2, <1>3, <1>4, <1>5, <1>6, <1>7, <1>8, <1>9, <1>11, <1>13
<1>14. ASSUME NEW i \in 1 .. 30, s[i].do = "call"
       PROVE  s[i].returns = Statuses
  BY <1>2, <1>3, <1>4, <1>5, <1>6, <1>7, <1>8, <1>9, <1>10, <1>11, <1>14
<1>15. CreatedOnce(s)
  BY <1>1, <1>2, <1>3, <1>4, <1>12 DEF CreatedOnce
<1>16. JoinedBeforeDestroy(s)
  <2> SUFFICES ASSUME NEW i \in 1 .. Len(s), NEW j \in 1 .. Len(s),
                      s[i].do = "destroy", s[j].do = "pthread_create"
               PROVE  j < i /\ \E k \in 1 .. Len(s) :
                                  k < i /\ s[k].do = "pthread_join" /\ s[k].h = s[j].h
    BY DEF JoinedBeforeDestroy
  <2>1. i = 30 /\ j \in {1, 6, 12}
    BY <1>1, <1>12, <1>13
  <2> QED
    BY <1>1, <1>2, <1>3, <1>4, <1>5, <1>6, <1>7, <2>1
<1>17. ExpectedReturns(s)
  BY <1>1, <1>10, <1>13, <1>14 DEF ExpectedReturns
<1> QED
  BY <1>1, <1>15, <1>16, <1>17 DEF WellFormed

(* test_receive_correctness is well formed. *)
LEMMA ReceiveCorrectnessWellFormed ==
  ASSUME NEW s, ReceiveCorrectnessLines(s)
  PROVE  WellFormed(s)
<1>1. Len(s) = 25 /\ ValidStatements(s)
  BY PartValid DEF ReceiveCorrectnessLines
<1>2. s[7].do = "pthread_create" /\ s[7].h = 1
  BY DEF ReceiveCorrectnessLines, pthread_create
<1>3. s[8].do = "pthread_create" /\ s[8].h = 2
  BY DEF ReceiveCorrectnessLines, pthread_create
<1>4. s[20].do = "pthread_join" /\ s[20].h = 1
  BY DEF ReceiveCorrectnessLines, pthread_join
<1>5. s[21].do = "pthread_join" /\ s[21].h = 2
  BY DEF ReceiveCorrectnessLines, pthread_join
<1>6. ASSUME NEW i \in {4, 6, 9, 10, 11, 13, 14, 15, 17, 18, 19}
      PROVE  s[i].do \in {"sem_wait", "usleep", "mu_assert"}
  BY DEF ReceiveCorrectnessLines, sem_wait, usleep, mu_assert
<1>7. ASSUME NEW i \in {1, 2, 3, 5, 12, 16, 22, 23, 24}
      PROVE  s[i].do = "call" /\ s[i].returns = Statuses
  BY DEF ReceiveCorrectnessLines, call, receive
<1>8. s[25].do = "destroy" /\ s[25].returns = Statuses
  BY DEF ReceiveCorrectnessLines, destroy
<1>9. \A i \in 1 .. 25 : i \in {7, 8} \cup {20, 21}
                           \cup {4, 6, 9, 10, 11, 13, 14, 15, 17, 18, 19}
                           \cup {1, 2, 3, 5, 12, 16, 22, 23, 24} \cup {25}
  OBVIOUS
<1>10. ASSUME NEW i \in 1 .. 25, s[i].do = "pthread_create"
       PROVE  i \in {7, 8}
  BY <1>4, <1>5, <1>6, <1>7, <1>8, <1>9, <1>10
<1>11. ASSUME NEW i \in 1 .. 25, s[i].do = "destroy"
       PROVE  i = 25
  BY <1>2, <1>3, <1>4, <1>5, <1>6, <1>7, <1>9, <1>11
<1>12. ASSUME NEW i \in 1 .. 25, s[i].do = "call"
       PROVE  s[i].returns = Statuses
  BY <1>2, <1>3, <1>4, <1>5, <1>6, <1>7, <1>8, <1>9, <1>12
<1>13. CreatedOnce(s)
  BY <1>1, <1>2, <1>3, <1>10 DEF CreatedOnce
<1>14. JoinedBeforeDestroy(s)
  <2> SUFFICES ASSUME NEW i \in 1 .. Len(s), NEW j \in 1 .. Len(s),
                      s[i].do = "destroy", s[j].do = "pthread_create"
               PROVE  j < i /\ \E k \in 1 .. Len(s) :
                                  k < i /\ s[k].do = "pthread_join" /\ s[k].h = s[j].h
    BY DEF JoinedBeforeDestroy
  <2>1. i = 25 /\ j \in {7, 8}
    BY <1>1, <1>10, <1>11
  <2> QED
    BY <1>1, <1>2, <1>3, <1>4, <1>5, <2>1
<1>15. ExpectedReturns(s)
  BY <1>1, <1>8, <1>11, <1>12 DEF ExpectedReturns
<1> QED
  BY <1>1, <1>13, <1>14, <1>15 DEF WellFormed

(* test_free is well formed. *)
LEMMA FreeWellFormed ==
  ASSUME NEW s, FreeLines(s)
  PROVE  WellFormed(s)
<1>1. Len(s) = 3 /\ ValidStatements(s)
  BY PartValid DEF FreeLines
<1>2. s[1].do = "destroy" /\ s[1].returns = {DESTROY_ERROR}
  BY DEF FreeLines, destroy
<1>3. s[2].do = "call" /\ s[2].op = "close" /\ s[2].returns = {SUCCESS}
  BY DEF FreeLines, call
<1>4. s[3].do = "destroy" /\ s[3].returns = {SUCCESS}
  BY DEF FreeLines, destroy
<1>5. \A i \in 1 .. Len(s) : i = 1 \/ i = 2 \/ i = 3
  BY <1>1
<1>6. CreatedOnce(s) /\ JoinedBeforeDestroy(s)
  BY <1>2, <1>3, <1>4, <1>5 DEF CreatedOnce, JoinedBeforeDestroy
<1>7. ExpectedReturns(s)
  <2>1. ~ClosedBefore(s, 1) /\ ~ClosedBefore(s, 2) /\ ClosedBefore(s, 3)
    BY <1>1, <1>2, <1>3, <1>5 DEF ClosedBefore, Closes
  <2> QED
    BY <1>2, <1>3, <1>4, <1>5, <2>1 DEF ExpectedReturns
<1> QED
  BY <1>1, <1>6, <1>7 DEF WellFormed

(* The lines of the test that p stands for. *)
Lines(p) ==
  LET s == Statements(p)
      n == p.senders
      r == p.receivers
      c == p.capacity
  IN  /\ p.name = "test_send_correctness" => SendCorrectnessLines(s)
      /\ p.name = "test_receive_correctness" => ReceiveCorrectnessLines(s)
      /\ p.name = "test_overall_send_receive" => OverallSendReceiveLines(s, n)
      /\ p.name = "test_non_blocking_send" => NonBlockingSendLines(s, n, c)
      /\ p.name = "test_non_blocking_receive" => NonBlockingReceiveLines(s, n, r, c)
      /\ p.name = "test_channel_close_with_send" => CloseWithSendLines(s, n, c)
      /\ p.name = "test_channel_close_with_receive" => CloseWithReceiveLines(s, r, c)
      /\ p.name = "test_free" => FreeLines(s)

(* The settings of a test. *)
LEMMA ProgramType ==
  ASSUME NEW p \in Programs
  PROVE  /\ p.senders \in Nat /\ p.receivers \in Nat
         /\ p.capacity \in Nat /\ p.capacity > 0
         /\ 1 .. p.senders + p.receivers \subseteq Helper
<1>1. /\ p.senders \in Nat /\ p.receivers \in Nat
      /\ p.capacity \in Nat /\ p.capacity > 0
      /\ 1 .. p.senders + p.receivers \subseteq Thread
  BY ProgramAssumption
<1> QED
  BY <1>1 DEF Helper

(* Every test has the lines of its name, and is well formed. *)
LEMMA ProgramLines ==
  ASSUME NEW p \in Programs
  PROVE  Lines(p) /\ WellFormed(Statements(p))
<1>1. /\ p.senders \in Nat /\ p.receivers \in Nat
      /\ p.capacity \in Nat /\ p.capacity > 0
      /\ 1 .. p.senders + p.receivers \subseteq Helper
  BY ProgramType
<1> DEFINE n == p.senders
           r == p.receivers
           c == p.capacity
           s == Statements(p)
<1>2. CASE p.name = "test_send_correctness"
  <2>1. s = test_send_correctness
    BY <1>2 DEF Statements
  <2>2. 1 .. 3 \subseteq Helper
    BY <1>2, ProgramAssumption, <1>1
  <2>3. SendCorrectnessLines(s)
    BY <2>1, <2>2, SendCorrectnessLayout
  <2> QED
    BY <1>2, <2>3, SendCorrectnessWellFormed DEF Lines
<1>3. CASE p.name = "test_receive_correctness"
  <2>1. s = test_receive_correctness
    BY <1>3 DEF Statements
  <2>2. 1 .. 2 \subseteq Helper
    BY <1>3, ProgramAssumption, <1>1
  <2>3. ReceiveCorrectnessLines(s)
    BY <2>1, <2>2, ReceiveCorrectnessLayout
  <2> QED
    BY <1>3, <2>3, ReceiveCorrectnessWellFormed DEF Lines
<1>4. CASE p.name = "test_overall_send_receive"
  <2>1. s = test_overall_send_receive(n)
    BY <1>4 DEF Statements
  <2>2. 1 .. 2 * n \subseteq Helper
    <3>1. n = r
      BY <1>4, ProgramAssumption
    <3> QED
      BY <1>1, <3>1
  <2>3. OverallSendReceiveLines(s, n)
    BY <1>1, <2>1, <2>2, OverallSendReceiveLayout
  <2> QED
    BY <1>1, <1>4, <2>2, <2>3, OverallSendReceiveWellFormed DEF Lines
<1>5. CASE p.name = "test_non_blocking_send"
  <2>1. s = test_non_blocking_send(n, c)
    BY <1>5 DEF Statements
  <2>2. 1 .. n \subseteq Helper
    BY <1>1
  <2>3. NonBlockingSendLines(s, n, c)
    BY <1>1, <2>1, <2>2, NonBlockingSendLayout
  <2> QED
    BY <1>1, <1>5, <2>2, <2>3, NonBlockingSendWellFormed DEF Lines
<1>6. CASE p.name = "test_non_blocking_receive"
  <2>1. s = test_non_blocking_receive(n, r, c)
    BY <1>6 DEF Statements
  <2>3. NonBlockingReceiveLines(s, n, r, c)
    <3>1. n <= 3
      BY <1>6, ProgramAssumption
    <3> QED
      BY <1>1, <2>1, <3>1, NonBlockingReceiveLayout
  <2> QED
    BY <1>1, <1>6, <2>3, NonBlockingReceiveWellFormed DEF Lines
<1>7. CASE p.name = "test_channel_close_with_send"
  <2>1. s = test_channel_close_with_send(n, c)
    BY <1>7 DEF Statements
  <2>2. 1 .. n \subseteq Helper
    BY <1>1
  <2>3. CloseWithSendLines(s, n, c)
    BY <1>1, <2>1, <2>2, CloseWithSendLayout
  <2> QED
    BY <1>1, <1>7, <2>2, <2>3, CloseWithSendWellFormed DEF Lines
<1>8. CASE p.name = "test_channel_close_with_receive"
  <2>1. s = test_channel_close_with_receive(r, c)
    BY <1>8 DEF Statements
  <2>2. 1 .. r \subseteq Helper
    BY <1>1
  <2>3. CloseWithReceiveLines(s, r, c)
    BY <1>1, <2>1, <2>2, CloseWithReceiveLayout
  <2> QED
    BY <1>1, <1>8, <2>2, <2>3, CloseWithReceiveWellFormed DEF Lines
<1>9. CASE p.name = "test_free"
  <2>1. s = test_free
    BY <1>9 DEF Statements
  <2>2. FreeLines(s)
    BY <2>1, FreeLayout
  <2> QED
    BY <1>9, <2>2, FreeWellFormed DEF Lines
<1>10. \/ p.name = "test_send_correctness"
       \/ p.name = "test_receive_correctness"
       \/ p.name = "test_overall_send_receive"
       \/ p.name = "test_non_blocking_send"
       \/ p.name = "test_non_blocking_receive"
       \/ p.name = "test_channel_close_with_send"
       \/ p.name = "test_channel_close_with_receive"
       \/ p.name = "test_free"
  BY ProgramAssumption
<1> QED
  BY <1>2, <1>3, <1>4, <1>5, <1>6, <1>7, <1>8, <1>9, <1>10

-----------------------------------------------------------------------------
(***************************************************************************)
(* What the asserts of the tests depend on.                                *)
(***************************************************************************)

(* The helpers that s creates are those from 1 to n; the main thread has   *)
(* joined them when it is past statement e.                                *)
HelpersUntil(s, n, e) ==
  /\ n \in Nat /\ e \in Nat
  /\ \A i \in 1 .. Len(s) : s[i].do = "pthread_create" => s[i].h \in 1 .. n
  /\ \A h \in 1 .. n : \E i \in 1 .. Len(s) : i <= e /\ Creates(s, i, h)
  /\ \A h \in 1 .. n : \E i \in 1 .. Len(s) : i <= e /\ s[i].do = "pthread_join" /\ s[i].h = h

(* The messages that a test sends, until it closes the channel: the first  *)
(* k are v, sent by the main thread before it creates the helpers; all     *)
(* others are among W, sent by helpers.                                    *)
Loads(s, k, v, W) ==
  /\ k \in Nat /\ k <= Len(s) /\ v \in Value
  /\ \A i \in 1 .. Len(s) :
       /\ s[i].do = "pthread_create" => k < i
       /\ s[i].do = "pthread_create" /\ s[i].op \in SendOps => s[i].v \in W
       /\ i <= k => s[i].do = "call" /\ s[i].op = "send" /\ s[i].v = v
       /\ s[i].do = "call" /\ i > k => Closes(s, i) \/ ClosedBefore(s, i)
       /\ s[i].do = "call" => s[i].data = Value \cup {Uninit}

(* The asserts of s are those of A, and are between the statements e and f. *)
AssertsOnly(s, e, f, A) ==
  \A i \in 1 .. Len(s) : s[i].do = "mu_assert" => i > e /\ i < f /\ s[i] \in A

(* Statement k closes the channel, and is the first that does. *)
ClosedAt(s, k) ==
  k \in 1 .. Len(s) /\ Closes(s, k) /\ \A i \in 1 .. Len(s) : Closes(s, i) => i >= k

(* The c statements after statement a wait for the semaphore. *)
WaitsFor(s, a, c) == \A i \in a + 1 .. a + c : s[i].do = "sem_wait"

(* What test_non_blocking_send creates, joins, loads, closes and asserts. *)
LEMMA NonBlockingSendFacts ==
  ASSUME NEW n \in Nat, NEW c \in Nat, NEW s, NonBlockingSendLines(s, n, c)
  PROVE  /\ Loads(s, 0, "Message1", {"Message1"}) /\ HelpersUntil(s, n, 2 * n)
         /\ \A i \in 1 .. Len(s) : s[i].do = "pthread_create" =>
              \/ i \in 1 .. n /\ s[i].h = i /\ s[i].op = "non_blocking_send"
                 /\ s[i].sem = FALSE
         /\ AssertsOnly(s, 2 * n, 2 * n + 2, {mu_assert("out", CHANNEL_FULL, {n - c})})
         /\ ClosedAt(s, 2 * n + 2)
<1>1. Len(s) = 2 * n + 3 /\ ValidStatements(s)
  BY PartValid DEF NonBlockingSendLines
<1>10. ASSUME NEW i \in 1 .. n
      PROVE  /\ s[i].do = "pthread_create"
             /\ s[i].h = i
             /\ s[i].op = "non_blocking_send"
             /\ s[i].v = "Message1"
             /\ s[i].sem = FALSE
  <2>1. s[i] = pthread_create(i, "non_blocking_send", "Message1", FALSE)
    BY DEF NonBlockingSendLines
  <2> QED
    BY <2>1 DEF pthread_create
<1>11. ASSUME NEW i \in n + 1 .. 2 * n
      PROVE  /\ s[i].do = "pthread_join"
             /\ s[i].h = i - n
  <2>1. s[i] = pthread_join(i - n)
    BY DEF NonBlockingSendLines
  <2> QED
    BY <2>1 DEF pthread_join
<1>12. ASSUME NEW i, i = 2 * n + 1
      PROVE  /\ s[i].do = "mu_assert"
             /\ s[i].what = "out"
             /\ s[i].x = CHANNEL_FULL
             /\ s[i].allowed = {n - c}
  <2>1. s[i] = mu_assert("out", CHANNEL_FULL, {n - c})
    BY <1>12 DEF NonBlockingSendLines
  <2> QED
    BY <2>1 DEF mu_assert
<1>13. ASSUME NEW i, i = 2 * n + 2
      PROVE  /\ s[i].do = "call"
             /\ s[i].op = "close"
             /\ s[i].v = Uninit
             /\ s[i].returns = Statuses
             /\ s[i].data = Value \cup {Uninit}
  <2>1. s[i] = call("close", Uninit, Statuses)
    BY <1>13 DEF NonBlockingSendLines
  <2> QED
    BY <2>1 DEF call
<1>14. ASSUME NEW i, i = 2 * n + 3
      PROVE  /\ s[i].do = "destroy"
  <2>1. s[i] = destroy(Statuses)
    BY <1>14 DEF NonBlockingSendLines
  <2> QED
    BY <2>1 DEF destroy
<1>2. ASSUME NEW i \in 1 .. Len(s)
      PROVE  \/ i \in 1 .. n
             \/ i \in n + 1 .. 2 * n
             \/ i = 2 * n + 1
             \/ i = 2 * n + 2
             \/ i = 2 * n + 3
  BY <1>1
<1>3. ASSUME NEW i \in 1 .. Len(s), s[i].do = "pthread_create"
      PROVE  \/ i \in 1 .. n
  <2>1. i \notin n + 1 .. 2 * n
    BY <1>3, <1>11
  <2>2. i # 2 * n + 1
    BY <1>3, <1>12
  <2>3. i # 2 * n + 2
    BY <1>3, <1>13
  <2>4. i # 2 * n + 3
    BY <1>3, <1>14
  <2> QED
    BY <1>2, <2>1, <2>2, <2>3, <2>4
<1>4. ASSUME NEW i \in 1 .. Len(s), s[i].do = "call"
      PROVE  \/ i = 2 * n + 2
  <2>1. i \notin 1 .. n
    BY <1>4, <1>10
  <2>2. i \notin n + 1 .. 2 * n
    BY <1>4, <1>11
  <2>3. i # 2 * n + 1
    BY <1>4, <1>12
  <2>4. i # 2 * n + 3
    BY <1>4, <1>14
  <2> QED
    BY <1>2, <2>1, <2>2, <2>3, <2>4
<1>5. ASSUME NEW i \in 1 .. Len(s), s[i].do = "mu_assert"
      PROVE  \/ i = 2 * n + 1
  <2>1. i \notin 1 .. n
    BY <1>5, <1>10
  <2>2. i \notin n + 1 .. 2 * n
    BY <1>5, <1>11
  <2>3. i # 2 * n + 2
    BY <1>5, <1>13
  <2>4. i # 2 * n + 3
    BY <1>5, <1>14
  <2> QED
    BY <1>2, <2>1, <2>2, <2>3, <2>4
<1>6. HelpersUntil(s, n, 2 * n)
  <2>1. ASSUME NEW i \in 1 .. Len(s), s[i].do = "pthread_create"
        PROVE  s[i].h \in 1 .. n
    <3>1. ASSUME i \in 1 .. n
          PROVE  s[i].h \in 1 .. n
      <4>1. s[i].h = i
        BY <1>10, <3>1
      <4>2. i \in 1 .. n
        BY <3>1
      <4> QED
        BY <4>1, <4>2
    <3> QED
      BY <1>3, <2>1, <3>1
  <2>2. ASSUME NEW h \in 1 .. n
        PROVE  \E i \in 1 .. Len(s) : i <= 2 * n /\ Creates(s, i, h)
    <3>1. Creates(s, h, h)
      <4>1. h \in 1 .. n
        OBVIOUS
      <4>2. s[h].do = "pthread_create" /\ s[h].h = h
        <5> DEFINE i == h
        <5>1. i \in 1 .. n /\ i = h
          OBVIOUS
        <5> HIDE DEF i
        <5>2. s[i].do = "pthread_create" /\ s[i].h = i
          BY <1>10, <5>1
        <5> QED
          BY <5>1, <5>2 DEF i
      <4> QED
        BY <4>2 DEF Creates
    <3>2. h \in 1 .. Len(s) /\ h <= 2 * n
      BY <1>1
    <3> QED
      BY <3>1, <3>2
  <2>3. ASSUME NEW h \in 1 .. n
        PROVE  \E i \in 1 .. Len(s) : i <= 2 * n /\ s[i].do = "pthread_join" /\ s[i].h = h
    <3> DEFINE i == n + h
    <3>1. i \in n + 1 .. 2 * n /\ i - n = h
      OBVIOUS
    <3>2. i \in 1 .. Len(s) /\ i <= 2 * n
      BY <1>1, <3>1
    <3>3. s[i].do = "pthread_join" /\ s[i].h = i - n
      BY <1>11, <3>1
    <3> HIDE DEF i
    <3> QED
      BY <3>1, <3>2, <3>3
  <2>4. n \in Nat /\ 2 * n \in Nat
    OBVIOUS
  <2> DEFINE e == 2 * n
             m == n
  <2> HIDE DEF e, m
  <2>5. /\ m \in Nat /\ e \in Nat
        /\ \A i \in 1 .. Len(s) : s[i].do = "pthread_create" => s[i].h \in 1 .. m
        /\ \A h \in 1 .. m : \E i \in 1 .. Len(s) : i <= e /\ Creates(s, i, h)
        /\ \A h \in 1 .. m : \E i \in 1 .. Len(s) : i <= e /\ s[i].do = "pthread_join" /\ s[i].h = h
    BY <2>1, <2>2, <2>3, <2>4 DEF e, m
  <2>6. HelpersUntil(s, m, e)
    BY <2>5 DEF HelpersUntil
  <2> QED
    BY <2>6 DEF e, m
<1>7. Loads(s, 0, "Message1", {"Message1"})
  <2>1. ASSUME NEW i \in 1 .. Len(s), s[i].do = "pthread_create"
        PROVE  0 < i /\ (s[i].op \in SendOps => s[i].v = "Message1")
    <3>1. 0 < i
      BY <1>3, <2>1
    <3>2. ASSUME i \in 1 .. n
          PROVE  s[i].op \in SendOps => s[i].v = "Message1"
      BY <1>10, <3>2 DEF SendOps
    <3> QED
      BY <1>3, <2>1, <3>1, <3>2
  <2>2. ASSUME NEW i \in 1 .. Len(s), i <= 0
        PROVE  s[i].do = "call" /\ s[i].op = "send" /\ s[i].v = "Message1"
    BY <2>2, <1>10
  <2>3. ASSUME NEW i \in 1 .. Len(s), s[i].do = "call", i > 0
        PROVE  Closes(s, i) \/ ClosedBefore(s, i)
    <3>1. PICK k \in 1 .. Len(s) : k = 2 * n + 2
      BY <1>1
    <3>2. Closes(s, k)
      BY <1>13, <3>1 DEF Closes
    <3>3. i = k \/ k < i
      BY <1>4, <2>3, <3>1
    <3> QED
      BY <3>2, <3>3 DEF ClosedBefore
  <2>4. ASSUME NEW i \in 1 .. Len(s), s[i].do = "call"
        PROVE  s[i].data = Value \cup {Uninit}
    BY <1>4, <2>4, <1>13
  <2>5. 0 \in Nat /\ 0 <= Len(s) /\ "Message1" \in Value
    BY <1>1, NamesOfTests
  <2> QED
    BY <2>1, <2>2, <2>3, <2>4, <2>5 DEF Loads
<1>8. ASSUME NEW i \in 1 .. Len(s), s[i].do = "pthread_create"
      PROVE  \/ i \in 1 .. n /\ s[i].h = i /\ s[i].op = "non_blocking_send"
                /\ s[i].sem = FALSE
  BY <1>3, <1>8, <1>10
<1>9. AssertsOnly(s, 2 * n, 2 * n + 2, {mu_assert("out", CHANNEL_FULL, {n - c})})
  <2> SUFFICES ASSUME NEW i \in 1 .. Len(s), s[i].do = "mu_assert"
               PROVE  i > 2 * n /\ i < 2 * n + 2 /\ s[i] \in {mu_assert("out", CHANNEL_FULL, {n - c})}
    BY DEF AssertsOnly
  <2>1. ASSUME i = 2 * n + 1
        PROVE  i > 2 * n /\ i < 2 * n + 2 /\ s[i] = mu_assert("out", CHANNEL_FULL, {n - c})
    <3>1. s[i] = mu_assert("out", CHANNEL_FULL, {n - c})
      BY <2>1 DEF NonBlockingSendLines
    <3> QED
      BY <2>1, <3>1
  <2> QED
    BY <1>5, <2>1
<1>40. ClosedAt(s, 2 * n + 2)
  <2>1. 2 * n + 2 \in 1 .. Len(s)
    BY <1>1
  <2>2. Closes(s, 2 * n + 2)
    BY <1>13 DEF Closes
  <2>3. ASSUME NEW i \in 1 .. Len(s), Closes(s, i)
        PROVE  i >= 2 * n + 2
    <3>1. s[i].do = "call"
      BY <2>3 DEF Closes
    <3> QED
      BY <1>4, <3>1
  <2> QED
    BY <2>1, <2>2, <2>3 DEF ClosedAt
<1> QED
  BY <1>1, <1>40, <1>6, <1>7, <1>8, <1>9

(* What test_overall_send_receive creates, joins, loads, closes and        *)
(* asserts.                                                                *)
LEMMA OverallSendReceiveFacts ==
  ASSUME NEW n \in Nat, NEW s, OverallSendReceiveLines(s, n)
  PROVE  /\ Loads(s, 0, "Message1", {"Message1"}) /\ HelpersUntil(s, 2 * n, 4 * n)
         /\ \A i \in 1 .. Len(s) : s[i].do = "pthread_create" =>
              \/ i \in 1 .. n /\ s[i].h = i /\ s[i].op = "receive"
                 /\ s[i].sem = FALSE
              \/ i \in n + 1 .. 2 * n /\ s[i].h = i /\ s[i].op = "send"
                 /\ s[i].sem = FALSE
         /\ AssertsOnly(s, 4 * n, 4 * n + 3, {mu_assert("out", SUCCESS, {2 * n}),
                            mu_assert("data", "Message1", {n})})
         /\ ClosedAt(s, 4 * n + 3)
<1>1. Len(s) = 4 * n + 4 /\ ValidStatements(s)
  BY PartValid DEF OverallSendReceiveLines
<1>10. ASSUME NEW i \in 1 .. n
      PROVE  /\ s[i].do = "pthread_create"
             /\ s[i].h = i
             /\ s[i].op = "receive"
             /\ s[i].v = Uninit
             /\ s[i].sem = FALSE
  <2>1. s[i] = pthread_create(i, "receive", Uninit, FALSE)
    BY DEF OverallSendReceiveLines
  <2> QED
    BY <2>1 DEF pthread_create
<1>11. ASSUME NEW i \in n + 1 .. 2 * n
      PROVE  /\ s[i].do = "pthread_create"
             /\ s[i].h = i
             /\ s[i].op = "send"
             /\ s[i].v = "Message1"
             /\ s[i].sem = FALSE
  <2>1. s[i] = pthread_create(i, "send", "Message1", FALSE)
    BY DEF OverallSendReceiveLines
  <2> QED
    BY <2>1 DEF pthread_create
<1>12. ASSUME NEW i \in 2 * n + 1 .. 4 * n
      PROVE  /\ s[i].do = "pthread_join"
             /\ s[i].h = i - 2 * n
  <2>1. s[i] = pthread_join(i - 2 * n)
    BY DEF OverallSendReceiveLines
  <2> QED
    BY <2>1 DEF pthread_join
<1>13. ASSUME NEW i, i = 4 * n + 1
      PROVE  /\ s[i].do = "mu_assert"
             /\ s[i].what = "out"
             /\ s[i].x = SUCCESS
             /\ s[i].allowed = {2 * n}
  <2>1. s[i] = mu_assert("out", SUCCESS, {2 * n})
    BY <1>13 DEF OverallSendReceiveLines
  <2> QED
    BY <2>1 DEF mu_assert
<1>14. ASSUME NEW i, i = 4 * n + 2
      PROVE  /\ s[i].do = "mu_assert"
             /\ s[i].what = "data"
             /\ s[i].x = "Message1"
             /\ s[i].allowed = {n}
  <2>1. s[i] = mu_assert("data", "Message1", {n})
    BY <1>14 DEF OverallSendReceiveLines
  <2> QED
    BY <2>1 DEF mu_assert
<1>15. ASSUME NEW i, i = 4 * n + 3
      PROVE  /\ s[i].do = "call"
             /\ s[i].op = "close"
             /\ s[i].v = Uninit
             /\ s[i].returns = Statuses
             /\ s[i].data = Value \cup {Uninit}
  <2>1. s[i] = call("close", Uninit, Statuses)
    BY <1>15 DEF OverallSendReceiveLines
  <2> QED
    BY <2>1 DEF call
<1>16. ASSUME NEW i, i = 4 * n + 4
      PROVE  /\ s[i].do = "destroy"
  <2>1. s[i] = destroy(Statuses)
    BY <1>16 DEF OverallSendReceiveLines
  <2> QED
    BY <2>1 DEF destroy
<1>2. ASSUME NEW i \in 1 .. Len(s)
      PROVE  \/ i \in 1 .. n
             \/ i \in n + 1 .. 2 * n
             \/ i \in 2 * n + 1 .. 4 * n
             \/ i = 4 * n + 1
             \/ i = 4 * n + 2
             \/ i = 4 * n + 3
             \/ i = 4 * n + 4
  BY <1>1
<1>3. ASSUME NEW i \in 1 .. Len(s), s[i].do = "pthread_create"
      PROVE  \/ i \in 1 .. n
             \/ i \in n + 1 .. 2 * n
  <2>1. i \notin 2 * n + 1 .. 4 * n
    BY <1>3, <1>12
  <2>2. i # 4 * n + 1
    BY <1>3, <1>13
  <2>3. i # 4 * n + 2
    BY <1>3, <1>14
  <2>4. i # 4 * n + 3
    BY <1>3, <1>15
  <2>5. i # 4 * n + 4
    BY <1>3, <1>16
  <2> QED
    BY <1>2, <2>1, <2>2, <2>3, <2>4, <2>5
<1>4. ASSUME NEW i \in 1 .. Len(s), s[i].do = "call"
      PROVE  \/ i = 4 * n + 3
  <2>1. i \notin 1 .. n
    BY <1>4, <1>10
  <2>2. i \notin n + 1 .. 2 * n
    BY <1>4, <1>11
  <2>3. i \notin 2 * n + 1 .. 4 * n
    BY <1>4, <1>12
  <2>4. i # 4 * n + 1
    BY <1>4, <1>13
  <2>5. i # 4 * n + 2
    BY <1>4, <1>14
  <2>6. i # 4 * n + 4
    BY <1>4, <1>16
  <2> QED
    BY <1>2, <2>1, <2>2, <2>3, <2>4, <2>5, <2>6
<1>5. ASSUME NEW i \in 1 .. Len(s), s[i].do = "mu_assert"
      PROVE  \/ i = 4 * n + 1
             \/ i = 4 * n + 2
  <2>1. i \notin 1 .. n
    BY <1>5, <1>10
  <2>2. i \notin n + 1 .. 2 * n
    BY <1>5, <1>11
  <2>3. i \notin 2 * n + 1 .. 4 * n
    BY <1>5, <1>12
  <2>4. i # 4 * n + 3
    BY <1>5, <1>15
  <2>5. i # 4 * n + 4
    BY <1>5, <1>16
  <2> QED
    BY <1>2, <2>1, <2>2, <2>3, <2>4, <2>5
<1>6. HelpersUntil(s, 2 * n, 4 * n)
  <2>1. ASSUME NEW i \in 1 .. Len(s), s[i].do = "pthread_create"
        PROVE  s[i].h \in 1 .. 2 * n
    <3>1. ASSUME i \in 1 .. n
          PROVE  s[i].h \in 1 .. 2 * n
      <4>1. s[i].h = i
        BY <1>10, <3>1
      <4>2. i \in 1 .. 2 * n
        BY <3>1
      <4> QED
        BY <4>1, <4>2
    <3>2. ASSUME i \in n + 1 .. 2 * n
          PROVE  s[i].h \in 1 .. 2 * n
      <4>1. s[i].h = i
        BY <1>11, <3>2
      <4>2. i \in 1 .. 2 * n
        BY <3>2
      <4> QED
        BY <4>1, <4>2
    <3> QED
      BY <1>3, <2>1, <3>1, <3>2
  <2>2. ASSUME NEW h \in 1 .. 2 * n
        PROVE  \E i \in 1 .. Len(s) : i <= 4 * n /\ Creates(s, i, h)
    <3>1. Creates(s, h, h)
      <4>2. s[h].do = "pthread_create" /\ s[h].h = h
        <5>1. h \in 1 .. n \/ h \in n + 1 .. 2 * n
          OBVIOUS
        <5> QED
          BY <5>1, <1>10, <1>11
      <4> QED
        BY <4>2 DEF Creates
    <3>2. h \in 1 .. Len(s) /\ h <= 4 * n
      BY <1>1
    <3> QED
      BY <3>1, <3>2
  <2>3. ASSUME NEW h \in 1 .. 2 * n
        PROVE  \E i \in 1 .. Len(s) : i <= 4 * n /\ s[i].do = "pthread_join" /\ s[i].h = h
    <3> DEFINE i == 2 * n + h
    <3>1. i \in 2 * n + 1 .. 4 * n /\ i - 2 * n = h
      OBVIOUS
    <3>2. i \in 1 .. Len(s) /\ i <= 4 * n
      BY <1>1, <3>1
    <3>3. s[i].do = "pthread_join" /\ s[i].h = i - 2 * n
      BY <1>12, <3>1
    <3> HIDE DEF i
    <3> QED
      BY <3>1, <3>2, <3>3
  <2>4. 2 * n \in Nat /\ 4 * n \in Nat
    OBVIOUS
  <2> DEFINE e == 4 * n
             m == 2 * n
  <2> HIDE DEF e, m
  <2>5. /\ m \in Nat /\ e \in Nat
        /\ \A i \in 1 .. Len(s) : s[i].do = "pthread_create" => s[i].h \in 1 .. m
        /\ \A h \in 1 .. m : \E i \in 1 .. Len(s) : i <= e /\ Creates(s, i, h)
        /\ \A h \in 1 .. m : \E i \in 1 .. Len(s) : i <= e /\ s[i].do = "pthread_join" /\ s[i].h = h
    BY <2>1, <2>2, <2>3, <2>4 DEF e, m
  <2>6. HelpersUntil(s, m, e)
    BY <2>5 DEF HelpersUntil
  <2> QED
    BY <2>6 DEF e, m
<1>7. Loads(s, 0, "Message1", {"Message1"})
  <2>1. ASSUME NEW i \in 1 .. Len(s), s[i].do = "pthread_create"
        PROVE  0 < i /\ (s[i].op \in SendOps => s[i].v = "Message1")
    <3>1. 0 < i
      BY <1>3, <2>1
    <3>2. ASSUME i \in 1 .. n
          PROVE  s[i].op \in SendOps => s[i].v = "Message1"
      BY <1>10, <3>2 DEF SendOps
    <3>3. ASSUME i \in n + 1 .. 2 * n
          PROVE  s[i].op \in SendOps => s[i].v = "Message1"
      BY <1>11, <3>3 DEF SendOps
    <3> QED
      BY <1>3, <2>1, <3>1, <3>2, <3>3
  <2>2. ASSUME NEW i \in 1 .. Len(s), i <= 0
        PROVE  s[i].do = "call" /\ s[i].op = "send" /\ s[i].v = "Message1"
    BY <2>2, <1>10
  <2>3. ASSUME NEW i \in 1 .. Len(s), s[i].do = "call", i > 0
        PROVE  Closes(s, i) \/ ClosedBefore(s, i)
    <3>1. PICK k \in 1 .. Len(s) : k = 4 * n + 3
      BY <1>1
    <3>2. Closes(s, k)
      BY <1>15, <3>1 DEF Closes
    <3>3. i = k \/ k < i
      BY <1>4, <2>3, <3>1
    <3> QED
      BY <3>2, <3>3 DEF ClosedBefore
  <2>4. ASSUME NEW i \in 1 .. Len(s), s[i].do = "call"
        PROVE  s[i].data = Value \cup {Uninit}
    BY <1>4, <2>4, <1>15
  <2>5. 0 \in Nat /\ 0 <= Len(s) /\ "Message1" \in Value
    BY <1>1, NamesOfTests
  <2> QED
    BY <2>1, <2>2, <2>3, <2>4, <2>5 DEF Loads
<1>8. ASSUME NEW i \in 1 .. Len(s), s[i].do = "pthread_create"
      PROVE  \/ i \in 1 .. n /\ s[i].h = i /\ s[i].op = "receive"
                /\ s[i].sem = FALSE
             \/ i \in n + 1 .. 2 * n /\ s[i].h = i /\ s[i].op = "send"
                /\ s[i].sem = FALSE
  BY <1>3, <1>8, <1>10, <1>11
<1>9. AssertsOnly(s, 4 * n, 4 * n + 3, {mu_assert("out", SUCCESS, {2 * n}),
                         mu_assert("data", "Message1", {n})})
  <2> SUFFICES ASSUME NEW i \in 1 .. Len(s), s[i].do = "mu_assert"
               PROVE  i > 4 * n /\ i < 4 * n + 3 /\ s[i] \in {mu_assert("out", SUCCESS, {2 * n}),
                                        mu_assert("data", "Message1", {n})}
    BY DEF AssertsOnly
  <2>1. ASSUME i = 4 * n + 1
        PROVE  i > 4 * n /\ i < 4 * n + 3 /\ s[i] = mu_assert("out", SUCCESS, {2 * n})
    <3>1. s[i] = mu_assert("out", SUCCESS, {2 * n})
      BY <2>1 DEF OverallSendReceiveLines
    <3> QED
      BY <2>1, <3>1
  <2>2. ASSUME i = 4 * n + 2
        PROVE  i > 4 * n /\ i < 4 * n + 3 /\ s[i] = mu_assert("data", "Message1", {n})
    <3>1. s[i] = mu_assert("data", "Message1", {n})
      BY <2>2 DEF OverallSendReceiveLines
    <3> QED
      BY <2>2, <3>1
  <2> QED
    BY <1>5, <2>1, <2>2
<1>40. ClosedAt(s, 4 * n + 3)
  <2>1. 4 * n + 3 \in 1 .. Len(s)
    BY <1>1
  <2>2. Closes(s, 4 * n + 3)
    BY <1>15 DEF Closes
  <2>3. ASSUME NEW i \in 1 .. Len(s), Closes(s, i)
        PROVE  i >= 4 * n + 3
    <3>1. s[i].do = "call"
      BY <2>3 DEF Closes
    <3> QED
      BY <1>4, <3>1
  <2> QED
    BY <2>1, <2>2, <2>3 DEF ClosedAt
<1> QED
  BY <1>1, <1>40, <1>6, <1>7, <1>8, <1>9

(* What test_channel_close_with_send creates, joins, loads, closes and     *)
(* asserts.                                                                *)
LEMMA CloseWithSendFacts ==
  ASSUME NEW n \in Nat, NEW c \in Nat, NEW s, CloseWithSendLines(s, n, c)
  PROVE  /\ Loads(s, 0, "Message1", {"Message1"}) /\ HelpersUntil(s, n, 2 * n + c + 1)
         /\ \A i \in 1 .. Len(s) : s[i].do = "pthread_create" =>
              \/ i \in 1 .. n /\ s[i].h = i /\ s[i].op = "send"
                 /\ s[i].sem = TRUE
         /\ AssertsOnly(s, 2 * n + c + 1, 2 * n + c + 3, {mu_assert("out", CLOSED_ERROR, {n - c})})
         /\ ClosedAt(s, n + c + 1) /\ WaitsFor(s, n, c)
<1>1. Len(s) = 2 * n + c + 6 /\ ValidStatements(s)
  BY PartValid DEF CloseWithSendLines
<1>10. ASSUME NEW i \in 1 .. n
      PROVE  /\ s[i].do = "pthread_create"
             /\ s[i].h = i
             /\ s[i].op = "send"
             /\ s[i].v = "Message1"
             /\ s[i].sem = TRUE
  <2>1. s[i] = pthread_create(i, "send", "Message1", TRUE)
    BY DEF CloseWithSendLines
  <2> QED
    BY <2>1 DEF pthread_create
<1>11. ASSUME NEW i \in n + 1 .. n + c
      PROVE  /\ s[i].do = "sem_wait"
  <2>1. s[i] = sem_wait
    BY DEF CloseWithSendLines
  <2> QED
    BY <2>1 DEF sem_wait
<1>12. ASSUME NEW i, i = n + c + 1
      PROVE  /\ s[i].do = "call"
             /\ s[i].op = "close"
             /\ s[i].v = Uninit
             /\ s[i].returns = {SUCCESS}
             /\ s[i].data = Value \cup {Uninit}
  <2>1. s[i] = call("close", Uninit, {SUCCESS})
    BY <1>12 DEF CloseWithSendLines
  <2> QED
    BY <2>1 DEF call
<1>13. ASSUME NEW i \in n + c + 2 .. 2 * n + c + 1
      PROVE  /\ s[i].do = "pthread_join"
             /\ s[i].h = i - (n + c + 1)
  <2>1. s[i] = pthread_join(i - (n + c + 1))
    BY DEF CloseWithSendLines
  <2> QED
    BY <2>1 DEF pthread_join
<1>14. ASSUME NEW i, i = 2 * n + c + 2
      PROVE  /\ s[i].do = "mu_assert"
             /\ s[i].what = "out"
             /\ s[i].x = CLOSED_ERROR
             /\ s[i].allowed = {n - c}
  <2>1. s[i] = mu_assert("out", CLOSED_ERROR, {n - c})
    BY <1>14 DEF CloseWithSendLines
  <2> QED
    BY <2>1 DEF mu_assert
<1>15. ASSUME NEW i, i = 2 * n + c + 3
      PROVE  /\ s[i].do = "call"
             /\ s[i].op = "send"
             /\ s[i].v = "Message1"
             /\ s[i].returns = {CLOSED_ERROR}
             /\ s[i].data = Value \cup {Uninit}
  <2>1. s[i] = call("send", "Message1", {CLOSED_ERROR})
    BY <1>15 DEF CloseWithSendLines
  <2> QED
    BY <2>1 DEF call
<1>16. ASSUME NEW i, i = 2 * n + c + 4
      PROVE  /\ s[i].do = "call"
             /\ s[i].op = "non_blocking_send"
             /\ s[i].v = "Message1"
             /\ s[i].returns = {CLOSED_ERROR}
             /\ s[i].data = Value \cup {Uninit}
  <2>1. s[i] = call("non_blocking_send", "Message1", {CLOSED_ERROR})
    BY <1>16 DEF CloseWithSendLines
  <2> QED
    BY <2>1 DEF call
<1>17. ASSUME NEW i, i = 2 * n + c + 5
      PROVE  /\ s[i].do = "call"
             /\ s[i].op = "close"
             /\ s[i].v = Uninit
             /\ s[i].returns = {CLOSED_ERROR}
             /\ s[i].data = Value \cup {Uninit}
  <2>1. s[i] = call("close", Uninit, {CLOSED_ERROR})
    BY <1>17 DEF CloseWithSendLines
  <2> QED
    BY <2>1 DEF call
<1>18. ASSUME NEW i, i = 2 * n + c + 6
      PROVE  /\ s[i].do = "destroy"
  <2>1. s[i] = destroy(Statuses)
    BY <1>18 DEF CloseWithSendLines
  <2> QED
    BY <2>1 DEF destroy
<1>2. ASSUME NEW i \in 1 .. Len(s)
      PROVE  \/ i \in 1 .. n
             \/ i \in n + 1 .. n + c
             \/ i = n + c + 1
             \/ i \in n + c + 2 .. 2 * n + c + 1
             \/ i = 2 * n + c + 2
             \/ i = 2 * n + c + 3
             \/ i = 2 * n + c + 4
             \/ i = 2 * n + c + 5
             \/ i = 2 * n + c + 6
  BY <1>1
<1>3. ASSUME NEW i \in 1 .. Len(s), s[i].do = "pthread_create"
      PROVE  \/ i \in 1 .. n
  <2>1. i \notin n + 1 .. n + c
    BY <1>3, <1>11
  <2>2. i # n + c + 1
    BY <1>3, <1>12
  <2>3. i \notin n + c + 2 .. 2 * n + c + 1
    BY <1>3, <1>13
  <2>4. i # 2 * n + c + 2
    BY <1>3, <1>14
  <2>5. i # 2 * n + c + 3
    BY <1>3, <1>15
  <2>6. i # 2 * n + c + 4
    BY <1>3, <1>16
  <2>7. i # 2 * n + c + 5
    BY <1>3, <1>17
  <2>8. i # 2 * n + c + 6
    BY <1>3, <1>18
  <2> QED
    BY <1>2, <2>1, <2>2, <2>3, <2>4, <2>5, <2>6, <2>7, <2>8
<1>4. ASSUME NEW i \in 1 .. Len(s), s[i].do = "call"
      PROVE  \/ i = n + c + 1
             \/ i = 2 * n + c + 3
             \/ i = 2 * n + c + 4
             \/ i = 2 * n + c + 5
  <2>1. i \notin 1 .. n
    BY <1>4, <1>10
  <2>2. i \notin n + 1 .. n + c
    BY <1>4, <1>11
  <2>3. i \notin n + c + 2 .. 2 * n + c + 1
    BY <1>4, <1>13
  <2>4. i # 2 * n + c + 2
    BY <1>4, <1>14
  <2>5. i # 2 * n + c + 6
    BY <1>4, <1>18
  <2> QED
    BY <1>2, <2>1, <2>2, <2>3, <2>4, <2>5
<1>5. ASSUME NEW i \in 1 .. Len(s), s[i].do = "mu_assert"
      PROVE  \/ i = 2 * n + c + 2
  <2>1. i \notin 1 .. n
    BY <1>5, <1>10
  <2>2. i \notin n + 1 .. n + c
    BY <1>5, <1>11
  <2>3. i # n + c + 1
    BY <1>5, <1>12
  <2>4. i \notin n + c + 2 .. 2 * n + c + 1
    BY <1>5, <1>13
  <2>5. i # 2 * n + c + 3
    BY <1>5, <1>15
  <2>6. i # 2 * n + c + 4
    BY <1>5, <1>16
  <2>7. i # 2 * n + c + 5
    BY <1>5, <1>17
  <2>8. i # 2 * n + c + 6
    BY <1>5, <1>18
  <2> QED
    BY <1>2, <2>1, <2>2, <2>3, <2>4, <2>5, <2>6, <2>7, <2>8
<1>6. HelpersUntil(s, n, 2 * n + c + 1)
  <2>1. ASSUME NEW i \in 1 .. Len(s), s[i].do = "pthread_create"
        PROVE  s[i].h \in 1 .. n
    <3>1. ASSUME i \in 1 .. n
          PROVE  s[i].h \in 1 .. n
      <4>1. s[i].h = i
        BY <1>10, <3>1
      <4>2. i \in 1 .. n
        BY <3>1
      <4> QED
        BY <4>1, <4>2
    <3> QED
      BY <1>3, <2>1, <3>1
  <2>2. ASSUME NEW h \in 1 .. n
        PROVE  \E i \in 1 .. Len(s) : i <= 2 * n + c + 1 /\ Creates(s, i, h)
    <3>1. Creates(s, h, h)
      <4>1. h \in 1 .. n
        OBVIOUS
      <4>2. s[h].do = "pthread_create" /\ s[h].h = h
        <5> DEFINE i == h
        <5>1. i \in 1 .. n /\ i = h
          OBVIOUS
        <5> HIDE DEF i
        <5>2. s[i].do = "pthread_create" /\ s[i].h = i
          BY <1>10, <5>1
        <5> QED
          BY <5>1, <5>2 DEF i
      <4> QED
        BY <4>2 DEF Creates
    <3>2. h \in 1 .. Len(s) /\ h <= 2 * n + c + 1
      BY <1>1
    <3> QED
      BY <3>1, <3>2
  <2>3. ASSUME NEW h \in 1 .. n
        PROVE  \E i \in 1 .. Len(s) : i <= 2 * n + c + 1 /\ s[i].do = "pthread_join" /\ s[i].h = h
    <3> DEFINE i == n + c + 1 + h
    <3>1. i \in n + c + 2 .. 2 * n + c + 1 /\ i - (n + c + 1) = h
      OBVIOUS
    <3>2. i \in 1 .. Len(s) /\ i <= 2 * n + c + 1
      BY <1>1, <3>1
    <3>3. s[i].do = "pthread_join" /\ s[i].h = i - (n + c + 1)
      BY <1>13, <3>1
    <3> HIDE DEF i
    <3> QED
      BY <3>1, <3>2, <3>3
  <2>4. n \in Nat /\ 2 * n + c + 1 \in Nat
    OBVIOUS
  <2> DEFINE e == 2 * n + c + 1
             m == n
  <2> HIDE DEF e, m
  <2>5. /\ m \in Nat /\ e \in Nat
        /\ \A i \in 1 .. Len(s) : s[i].do = "pthread_create" => s[i].h \in 1 .. m
        /\ \A h \in 1 .. m : \E i \in 1 .. Len(s) : i <= e /\ Creates(s, i, h)
        /\ \A h \in 1 .. m : \E i \in 1 .. Len(s) : i <= e /\ s[i].do = "pthread_join" /\ s[i].h = h
    BY <2>1, <2>2, <2>3, <2>4 DEF e, m
  <2>6. HelpersUntil(s, m, e)
    BY <2>5 DEF HelpersUntil
  <2> QED
    BY <2>6 DEF e, m
<1>7. Loads(s, 0, "Message1", {"Message1"})
  <2>1. ASSUME NEW i \in 1 .. Len(s), s[i].do = "pthread_create"
        PROVE  0 < i /\ (s[i].op \in SendOps => s[i].v = "Message1")
    <3>1. 0 < i
      BY <1>3, <2>1
    <3>2. ASSUME i \in 1 .. n
          PROVE  s[i].op \in SendOps => s[i].v = "Message1"
      BY <1>10, <3>2 DEF SendOps
    <3> QED
      BY <1>3, <2>1, <3>1, <3>2
  <2>2. ASSUME NEW i \in 1 .. Len(s), i <= 0
        PROVE  s[i].do = "call" /\ s[i].op = "send" /\ s[i].v = "Message1"
    BY <2>2, <1>10
  <2>3. ASSUME NEW i \in 1 .. Len(s), s[i].do = "call", i > 0
        PROVE  Closes(s, i) \/ ClosedBefore(s, i)
    <3>1. PICK k \in 1 .. Len(s) : k = n + c + 1
      BY <1>1
    <3>2. Closes(s, k)
      BY <1>12, <3>1 DEF Closes
    <3>3. i = k \/ k < i
      BY <1>4, <2>3, <3>1
    <3> QED
      BY <3>2, <3>3 DEF ClosedBefore
  <2>4. ASSUME NEW i \in 1 .. Len(s), s[i].do = "call"
        PROVE  s[i].data = Value \cup {Uninit}
    BY <1>4, <2>4, <1>12, <1>15, <1>16, <1>17
  <2>5. 0 \in Nat /\ 0 <= Len(s) /\ "Message1" \in Value
    BY <1>1, NamesOfTests
  <2> QED
    BY <2>1, <2>2, <2>3, <2>4, <2>5 DEF Loads
<1>8. ASSUME NEW i \in 1 .. Len(s), s[i].do = "pthread_create"
      PROVE  \/ i \in 1 .. n /\ s[i].h = i /\ s[i].op = "send"
                /\ s[i].sem = TRUE
  BY <1>3, <1>8, <1>10
<1>9. AssertsOnly(s, 2 * n + c + 1, 2 * n + c + 3, {mu_assert("out", CLOSED_ERROR, {n - c})})
  <2> SUFFICES ASSUME NEW i \in 1 .. Len(s), s[i].do = "mu_assert"
               PROVE  i > 2 * n + c + 1 /\ i < 2 * n + c + 3 /\ s[i] \in {mu_assert("out", CLOSED_ERROR, {n - c})}
    BY DEF AssertsOnly
  <2>1. ASSUME i = 2 * n + c + 2
        PROVE  i > 2 * n + c + 1 /\ i < 2 * n + c + 3 /\ s[i] = mu_assert("out", CLOSED_ERROR, {n - c})
    <3>1. s[i] = mu_assert("out", CLOSED_ERROR, {n - c})
      BY <2>1 DEF CloseWithSendLines
    <3> QED
      BY <2>1, <3>1
  <2> QED
    BY <1>5, <2>1
<1>40. ClosedAt(s, n + c + 1)
  <2>1. n + c + 1 \in 1 .. Len(s)
    BY <1>1
  <2>2. Closes(s, n + c + 1)
    BY <1>12 DEF Closes
  <2>3. ASSUME NEW i \in 1 .. Len(s), Closes(s, i)
        PROVE  i >= n + c + 1
    <3>1. s[i].do = "call"
      BY <2>3 DEF Closes
    <3> QED
      BY <1>4, <3>1
  <2> QED
    BY <2>1, <2>2, <2>3 DEF ClosedAt
<1>41. WaitsFor(s, n, c)
  BY <1>11 DEF WaitsFor
<1> QED
  BY <1>1, <1>40, <1>41, <1>6, <1>7, <1>8, <1>9

(* What test_channel_close_with_receive creates, joins, loads, closes and  *)
(* asserts.                                                                *)
LEMMA CloseWithReceiveFacts ==
  ASSUME NEW n \in Nat, NEW c \in Nat, NEW s, CloseWithReceiveLines(s, n, c)
  PROVE  /\ Loads(s, c, "Message1", {"Message1"}) /\ HelpersUntil(s, n, 2 * n + 2 * c + 1)
         /\ \A i \in 1 .. Len(s) : s[i].do = "pthread_create" =>
              s[i].h \in 1 .. n /\ s[i].op = "receive" /\ s[i].sem = TRUE
         /\ AssertsOnly(s, 2 * n + 2 * c + 1, 2 * n + 2 * c + 3, {mu_assert("out", CLOSED_ERROR, {n - c})})
         /\ ClosedAt(s, n + 2 * c + 1) /\ WaitsFor(s, c + n, c)
<1>1. Len(s) = 2 * n + 2 * c + 6 /\ ValidStatements(s)
  BY PartValid DEF CloseWithReceiveLines
<1>10. ASSUME NEW i \in 1 .. c
      PROVE  /\ s[i].do = "call"
             /\ s[i].op = "send"
             /\ s[i].v = "Message1"
             /\ s[i].returns = Statuses
             /\ s[i].data = Value \cup {Uninit}
  <2>1. s[i] = call("send", "Message1", Statuses)
    BY DEF CloseWithReceiveLines
  <2> QED
    BY <2>1 DEF call
<1>11. ASSUME NEW i \in c + 1 .. c + n
      PROVE  /\ s[i].do = "pthread_create"
             /\ s[i].h = i - c
             /\ s[i].op = "receive"
             /\ s[i].v = Uninit
             /\ s[i].sem = TRUE
  <2>1. s[i] = pthread_create(i - c, "receive", Uninit, TRUE)
    BY DEF CloseWithReceiveLines
  <2> QED
    BY <2>1 DEF pthread_create
<1>12. ASSUME NEW i \in c + n + 1 .. n + 2 * c
      PROVE  /\ s[i].do = "sem_wait"
  <2>1. s[i] = sem_wait
    BY DEF CloseWithReceiveLines
  <2> QED
    BY <2>1 DEF sem_wait
<1>13. ASSUME NEW i, i = n + 2 * c + 1
      PROVE  /\ s[i].do = "call"
             /\ s[i].op = "close"
             /\ s[i].v = Uninit
             /\ s[i].returns = {SUCCESS}
             /\ s[i].data = Value \cup {Uninit}
  <2>1. s[i] = call("close", Uninit, {SUCCESS})
    BY <1>13 DEF CloseWithReceiveLines
  <2> QED
    BY <2>1 DEF call
<1>14. ASSUME NEW i \in n + 2 * c + 2 .. 2 * n + 2 * c + 1
      PROVE  /\ s[i].do = "pthread_join"
             /\ s[i].h = i - (n + 2 * c + 1)
  <2>1. s[i] = pthread_join(i - (n + 2 * c + 1))
    BY DEF CloseWithReceiveLines
  <2> QED
    BY <2>1 DEF pthread_join
<1>15. ASSUME NEW i, i = 2 * n + 2 * c + 2
      PROVE  /\ s[i].do = "mu_assert"
             /\ s[i].what = "out"
             /\ s[i].x = CLOSED_ERROR
             /\ s[i].allowed = {n - c}
  <2>1. s[i] = mu_assert("out", CLOSED_ERROR, {n - c})
    BY <1>15 DEF CloseWithReceiveLines
  <2> QED
    BY <2>1 DEF mu_assert
<1>16. ASSUME NEW i, i = 2 * n + 2 * c + 3
      PROVE  /\ s[i].do = "call"
             /\ s[i].op = "receive"
             /\ s[i].v = Uninit
             /\ s[i].returns = {CLOSED_ERROR}
             /\ s[i].data = Value \cup {Uninit}
  <2>1. s[i] = call("receive", Uninit, {CLOSED_ERROR})
    BY <1>16 DEF CloseWithReceiveLines
  <2> QED
    BY <2>1 DEF call
<1>17. ASSUME NEW i, i = 2 * n + 2 * c + 4
      PROVE  /\ s[i].do = "call"
             /\ s[i].op = "non_blocking_receive"
             /\ s[i].v = Uninit
             /\ s[i].returns = {CLOSED_ERROR}
             /\ s[i].data = Value \cup {Uninit}
  <2>1. s[i] = call("non_blocking_receive", Uninit, {CLOSED_ERROR})
    BY <1>17 DEF CloseWithReceiveLines
  <2> QED
    BY <2>1 DEF call
<1>18. ASSUME NEW i, i = 2 * n + 2 * c + 5
      PROVE  /\ s[i].do = "call"
             /\ s[i].op = "close"
             /\ s[i].v = Uninit
             /\ s[i].returns = {CLOSED_ERROR}
             /\ s[i].data = Value \cup {Uninit}
  <2>1. s[i] = call("close", Uninit, {CLOSED_ERROR})
    BY <1>18 DEF CloseWithReceiveLines
  <2> QED
    BY <2>1 DEF call
<1>19. ASSUME NEW i, i = 2 * n + 2 * c + 6
      PROVE  /\ s[i].do = "destroy"
  <2>1. s[i] = destroy(Statuses)
    BY <1>19 DEF CloseWithReceiveLines
  <2> QED
    BY <2>1 DEF destroy
<1>2. ASSUME NEW i \in 1 .. Len(s)
      PROVE  \/ i \in 1 .. c
             \/ i \in c + 1 .. c + n
             \/ i \in c + n + 1 .. n + 2 * c
             \/ i = n + 2 * c + 1
             \/ i \in n + 2 * c + 2 .. 2 * n + 2 * c + 1
             \/ i = 2 * n + 2 * c + 2
             \/ i = 2 * n + 2 * c + 3
             \/ i = 2 * n + 2 * c + 4
             \/ i = 2 * n + 2 * c + 5
             \/ i = 2 * n + 2 * c + 6
  BY <1>1
<1>3. ASSUME NEW i \in 1 .. Len(s), s[i].do = "pthread_create"
      PROVE  \/ i \in c + 1 .. c + n
  <2>1. i \notin 1 .. c
    BY <1>3, <1>10
  <2>2. i \notin c + n + 1 .. n + 2 * c
    BY <1>3, <1>12
  <2>3. i # n + 2 * c + 1
    BY <1>3, <1>13
  <2>4. i \notin n + 2 * c + 2 .. 2 * n + 2 * c + 1
    BY <1>3, <1>14
  <2>5. i # 2 * n + 2 * c + 2
    BY <1>3, <1>15
  <2>6. i # 2 * n + 2 * c + 3
    BY <1>3, <1>16
  <2>7. i # 2 * n + 2 * c + 4
    BY <1>3, <1>17
  <2>8. i # 2 * n + 2 * c + 5
    BY <1>3, <1>18
  <2>9. i # 2 * n + 2 * c + 6
    BY <1>3, <1>19
  <2> QED
    BY <1>2, <2>1, <2>2, <2>3, <2>4, <2>5, <2>6, <2>7, <2>8, <2>9
<1>4. ASSUME NEW i \in 1 .. Len(s), s[i].do = "call"
      PROVE  \/ i \in 1 .. c
             \/ i = n + 2 * c + 1
             \/ i = 2 * n + 2 * c + 3
             \/ i = 2 * n + 2 * c + 4
             \/ i = 2 * n + 2 * c + 5
  <2>1. i \notin c + 1 .. c + n
    BY <1>4, <1>11
  <2>2. i \notin c + n + 1 .. n + 2 * c
    BY <1>4, <1>12
  <2>3. i \notin n + 2 * c + 2 .. 2 * n + 2 * c + 1
    BY <1>4, <1>14
  <2>4. i # 2 * n + 2 * c + 2
    BY <1>4, <1>15
  <2>5. i # 2 * n + 2 * c + 6
    BY <1>4, <1>19
  <2> QED
    BY <1>2, <2>1, <2>2, <2>3, <2>4, <2>5
<1>5. ASSUME NEW i \in 1 .. Len(s), s[i].do = "mu_assert"
      PROVE  \/ i = 2 * n + 2 * c + 2
  <2>1. i \notin 1 .. c
    BY <1>5, <1>10
  <2>2. i \notin c + 1 .. c + n
    BY <1>5, <1>11
  <2>3. i \notin c + n + 1 .. n + 2 * c
    BY <1>5, <1>12
  <2>4. i # n + 2 * c + 1
    BY <1>5, <1>13
  <2>5. i \notin n + 2 * c + 2 .. 2 * n + 2 * c + 1
    BY <1>5, <1>14
  <2>6. i # 2 * n + 2 * c + 3
    BY <1>5, <1>16
  <2>7. i # 2 * n + 2 * c + 4
    BY <1>5, <1>17
  <2>8. i # 2 * n + 2 * c + 5
    BY <1>5, <1>18
  <2>9. i # 2 * n + 2 * c + 6
    BY <1>5, <1>19
  <2> QED
    BY <1>2, <2>1, <2>2, <2>3, <2>4, <2>5, <2>6, <2>7, <2>8, <2>9
<1>6. HelpersUntil(s, n, 2 * n + 2 * c + 1)
  <2>1. ASSUME NEW i \in 1 .. Len(s), s[i].do = "pthread_create"
        PROVE  s[i].h \in 1 .. n
    <3>1. ASSUME i \in c + 1 .. c + n
          PROVE  s[i].h \in 1 .. n
      <4>1. s[i].h = i - c
        BY <1>11, <3>1
      <4>2. i - c \in 1 .. n
        BY <3>1
      <4> QED
        BY <4>1, <4>2
    <3> QED
      BY <1>3, <2>1, <3>1
  <2>2. ASSUME NEW h \in 1 .. n
        PROVE  \E i \in 1 .. Len(s) : i <= 2 * n + 2 * c + 1 /\ Creates(s, i, h)
    <3>1. Creates(s, c + h, h)
      <4>1. c + h \in c + 1 .. c + n
        OBVIOUS
      <4>2. s[c + h].do = "pthread_create" /\ s[c + h].h = h
        <5> DEFINE i == c + h
        <5>1. i \in c + 1 .. c + n /\ i - c = h
          OBVIOUS
        <5> HIDE DEF i
        <5>2. s[i].do = "pthread_create" /\ s[i].h = i - c
          BY <1>11, <5>1
        <5> QED
          BY <5>1, <5>2 DEF i
      <4> QED
        BY <4>2 DEF Creates
    <3>2. c + h \in 1 .. Len(s) /\ c + h <= 2 * n + 2 * c + 1
      BY <1>1
    <3> QED
      BY <3>1, <3>2
  <2>3. ASSUME NEW h \in 1 .. n
        PROVE  \E i \in 1 .. Len(s) : i <= 2 * n + 2 * c + 1 /\ s[i].do = "pthread_join" /\ s[i].h = h
    <3> DEFINE i == n + 2 * c + 1 + h
    <3>1. i \in n + 2 * c + 2 .. 2 * n + 2 * c + 1 /\ i - (n + 2 * c + 1) = h
      OBVIOUS
    <3>2. i \in 1 .. Len(s) /\ i <= 2 * n + 2 * c + 1
      BY <1>1, <3>1
    <3>3. s[i].do = "pthread_join" /\ s[i].h = i - (n + 2 * c + 1)
      BY <1>14, <3>1
    <3> HIDE DEF i
    <3> QED
      BY <3>1, <3>2, <3>3
  <2>4. n \in Nat /\ 2 * n + 2 * c + 1 \in Nat
    OBVIOUS
  <2> DEFINE e == 2 * n + 2 * c + 1
             m == n
  <2> HIDE DEF e, m
  <2>5. /\ m \in Nat /\ e \in Nat
        /\ \A i \in 1 .. Len(s) : s[i].do = "pthread_create" => s[i].h \in 1 .. m
        /\ \A h \in 1 .. m : \E i \in 1 .. Len(s) : i <= e /\ Creates(s, i, h)
        /\ \A h \in 1 .. m : \E i \in 1 .. Len(s) : i <= e /\ s[i].do = "pthread_join" /\ s[i].h = h
    BY <2>1, <2>2, <2>3, <2>4 DEF e, m
  <2>6. HelpersUntil(s, m, e)
    BY <2>5 DEF HelpersUntil
  <2> QED
    BY <2>6 DEF e, m
<1>7. Loads(s, c, "Message1", {"Message1"})
  <2>1. ASSUME NEW i \in 1 .. Len(s), s[i].do = "pthread_create"
        PROVE  c < i /\ (s[i].op \in SendOps => s[i].v = "Message1")
    <3>1. c < i
      BY <1>3, <2>1
    <3>2. ASSUME i \in c + 1 .. c + n
          PROVE  s[i].op \in SendOps => s[i].v = "Message1"
      BY <1>11, <3>2 DEF SendOps
    <3> QED
      BY <1>3, <2>1, <3>1, <3>2
  <2>2. ASSUME NEW i \in 1 .. Len(s), i <= c
        PROVE  s[i].do = "call" /\ s[i].op = "send" /\ s[i].v = "Message1"
    BY <2>2, <1>10
  <2>3. ASSUME NEW i \in 1 .. Len(s), s[i].do = "call", i > c
        PROVE  Closes(s, i) \/ ClosedBefore(s, i)
    <3>1. PICK k \in 1 .. Len(s) : k = n + 2 * c + 1
      BY <1>1
    <3>2. Closes(s, k)
      BY <1>13, <3>1 DEF Closes
    <3>3. i = k \/ k < i
      BY <1>4, <2>3, <3>1
    <3> QED
      BY <3>2, <3>3 DEF ClosedBefore
  <2>4. ASSUME NEW i \in 1 .. Len(s), s[i].do = "call"
        PROVE  s[i].data = Value \cup {Uninit}
    BY <1>4, <2>4, <1>10, <1>13, <1>16, <1>17, <1>18
  <2>5. c \in Nat /\ c <= Len(s) /\ "Message1" \in Value
    BY <1>1, NamesOfTests
  <2> QED
    BY <2>1, <2>2, <2>3, <2>4, <2>5 DEF Loads
<1>8. ASSUME NEW i \in 1 .. Len(s), s[i].do = "pthread_create"
      PROVE  s[i].h \in 1 .. n /\ s[i].op = "receive" /\ s[i].sem = TRUE
  <2>1. i \in c + 1 .. c + n
    BY <1>3, <1>8
  <2>2. i - c \in 1 .. n
    BY <2>1
  <2> QED
    BY <1>11, <2>1, <2>2
<1>9. AssertsOnly(s, 2 * n + 2 * c + 1, 2 * n + 2 * c + 3, {mu_assert("out", CLOSED_ERROR, {n - c})})
  <2> SUFFICES ASSUME NEW i \in 1 .. Len(s), s[i].do = "mu_assert"
               PROVE  i > 2 * n + 2 * c + 1 /\ i < 2 * n + 2 * c + 3 /\ s[i] \in {mu_assert("out", CLOSED_ERROR, {n - c})}
    BY DEF AssertsOnly
  <2>1. ASSUME i = 2 * n + 2 * c + 2
        PROVE  i > 2 * n + 2 * c + 1 /\ i < 2 * n + 2 * c + 3 /\ s[i] = mu_assert("out", CLOSED_ERROR, {n - c})
    <3>1. s[i] = mu_assert("out", CLOSED_ERROR, {n - c})
      BY <2>1 DEF CloseWithReceiveLines
    <3> QED
      BY <2>1, <3>1
  <2> QED
    BY <1>5, <2>1
<1>40. ClosedAt(s, n + 2 * c + 1)
  <2>1. n + 2 * c + 1 \in 1 .. Len(s)
    BY <1>1
  <2>2. Closes(s, n + 2 * c + 1)
    BY <1>13 DEF Closes
  <2>3. ASSUME NEW i \in 1 .. Len(s), Closes(s, i)
        PROVE  i >= n + 2 * c + 1
    <3>1. s[i].do = "call" /\ i \notin 1 .. c
      BY <1>10, <2>3 DEF Closes
    <3> QED
      BY <1>4, <3>1
  <2> QED
    BY <2>1, <2>2, <2>3 DEF ClosedAt
<1>41. WaitsFor(s, c + n, c)
  <2>1. (c + n) + c = n + 2 * c
    OBVIOUS
  <2> QED
    BY <1>12, <2>1 DEF WaitsFor
<1> QED
  BY <1>1, <1>40, <1>41, <1>6, <1>7, <1>8, <1>9

(* The n receivers of s are created one by one, after its m senders, each  *)
(* of which has a message of its own, with a usleep before and after each  *)
(* but the first.                                                          *)
ReceivesOneByOne(s, m, n, c) ==
  \A i \in 1 .. Len(s) : s[i].do = "pthread_create" =>
    \/ s[i].h \in 1 .. m /\ s[i].op = "send" /\ s[i].v = Messages[s[i].h]
    \/ /\ i \in c + m + 1 .. c + m + 2 * n
       /\ s[i].h \in m + 1 .. m + n /\ s[i].op = "non_blocking_receive"
       /\ i # c + m + 1 => s[i - 1].do = "usleep"
       /\ s[i + 1].do = "usleep"

(* The asserts of test_non_blocking_receive: the messages that were in the *)
(* channel, the message of each sender, and the receivers that found none. *)
OncePerMessage(m, n, c) ==
  {mu_assert("data", "Message", {c}), mu_assert("out", CHANNEL_EMPTY, {n - m - c})}
  \cup {mu_assert("data", Messages[k], {1}) : k \in 1 .. m}

(* What test_non_blocking_receive creates, joins, loads, closes and        *)
(* asserts.                                                                *)
LEMMA NonBlockingReceiveFacts ==
  ASSUME NEW m \in Nat, NEW n \in Nat, NEW c \in Nat, NEW s, NonBlockingReceiveLines(s, m, n, c)
  PROVE  /\ Loads(s, c, "Message", {"Message1", "Message2", "Message3"}) /\ HelpersUntil(s, m + n, c + 2 * m + 3 * n)
         /\ ReceivesOneByOne(s, m, n, c)
         /\ AssertsOnly(s, c + 2 * m + 3 * n, c + 3 * m + 3 * n + 3, OncePerMessage(m, n, c))
         /\ ClosedAt(s, c + 3 * m + 3 * n + 3)
<1>1. Len(s) = c + 3 * m + 3 * n + 4 /\ ValidStatements(s)
  BY PartValid DEF NonBlockingReceiveLines
<1>10. ASSUME NEW i \in 1 .. c
      PROVE  /\ s[i].do = "call"
             /\ s[i].op = "send"
             /\ s[i].v = "Message"
             /\ s[i].returns = Statuses
             /\ s[i].data = Value \cup {Uninit}
  <2>1. s[i] = call("send", "Message", Statuses)
    BY DEF NonBlockingReceiveLines
  <2> QED
    BY <2>1 DEF call
<1>11. ASSUME NEW i \in c + 1 .. c + m
      PROVE  /\ s[i].do = "pthread_create"
             /\ s[i].h = i - c
             /\ s[i].op = "send"
             /\ s[i].v = Messages[i - c]
             /\ s[i].sem = FALSE
  <2>1. s[i] = pthread_create(i - c, "send", Messages[i - c], FALSE)
    BY DEF NonBlockingReceiveLines
  <2> QED
    BY <2>1 DEF pthread_create
<1>20. ASSUME NEW k \in 1 .. n
       PROVE  /\ s[c + m + (2 * k - 1)].do = "pthread_create"
              /\ s[c + m + (2 * k - 1)].h = m + k
              /\ s[c + m + (2 * k - 1)].op = "non_blocking_receive"
              /\ s[c + m + (2 * k - 1)].v = Uninit
              /\ s[c + m + 2 * k].do = "usleep"
  <2>1. /\ s[c + m + (2 * k - 1)] = pthread_create(m + k, "non_blocking_receive", Uninit, FALSE)
        /\ s[c + m + 2 * k] = usleep
    BY DEF NonBlockingReceiveLines
  <2> QED
    BY <2>1 DEF pthread_create, usleep
<1>21. ASSUME NEW i \in c + m + 1 .. c + m + 2 * n
       PROVE  \E k \in 1 .. n : i = c + m + (2 * k - 1) \/ i = c + m + 2 * k
  <2> DEFINE k == (i - c - m + 1) \div 2
  <2>1. k \in 1 .. n /\ (i = c + m + (2 * k - 1) \/ i = c + m + 2 * k)
    OBVIOUS
  <2> QED
    BY <2>1
<1>12. ASSUME NEW i \in c + m + 1 .. c + m + 2 * n, s[i].do # "usleep"
       PROVE  /\ s[i].do = "pthread_create" /\ s[i].h \in m + 1 .. m + n
              /\ s[i].op = "non_blocking_receive" /\ s[i].v = Uninit
              /\ i # c + m + 1 => s[i - 1].do = "usleep"
              /\ s[i + 1].do = "usleep"
  <2>0. PICK k \in 1 .. n : i = c + m + (2 * k - 1) \/ i = c + m + 2 * k
    BY <1>21
  <2>1. i = c + m + (2 * k - 1)
    <3>1. CASE i = c + m + 2 * k
      <4>1. s[i].do = "usleep"
        BY <1>20, <3>1
      <4> QED
        BY <1>12, <4>1
    <3> QED
      BY <2>0, <3>1
  <2>2. /\ s[i].do = "pthread_create" /\ s[i].h = m + k
        /\ s[i].op = "non_blocking_receive" /\ s[i].v = Uninit
    BY <1>20, <2>1
  <2>3. s[i + 1].do = "usleep"
    <3>1. i + 1 = c + m + 2 * k
      BY <2>1
    <3> QED
      BY <1>20, <3>1
  <2>4. ASSUME i # c + m + 1
        PROVE  s[i - 1].do = "usleep"
    <3> DEFINE l == k - 1
    <3>1. l \in 1 .. n /\ i - 1 = c + m + 2 * l
      BY <2>1, <2>4
    <3> HIDE DEF l
    <3> QED
      BY <1>20, <3>1
  <2>5. m + k \in m + 1 .. m + n
    OBVIOUS
  <2> QED
    BY <2>2, <2>3, <2>4, <2>5
<1>13. ASSUME NEW i \in c + m + 2 * n + 1 .. c + 2 * m + 3 * n
      PROVE  /\ s[i].do = "pthread_join"
             /\ s[i].h = i - (c + m + 2 * n)
  <2>1. s[i] = pthread_join(i - (c + m + 2 * n))
    BY DEF NonBlockingReceiveLines
  <2> QED
    BY <2>1 DEF pthread_join
<1>14. ASSUME NEW i, i = c + 2 * m + 3 * n + 1
      PROVE  /\ s[i].do = "mu_assert" /\ s[i] \in OncePerMessage(m, n, c)
  <2>1. s[i] = mu_assert("data", "Message", {c})
    BY <1>14 DEF NonBlockingReceiveLines
  <2> QED
    BY <2>1 DEF mu_assert, OncePerMessage
<1>15. ASSUME NEW i \in c + 2 * m + 3 * n + 2 .. c + 3 * m + 3 * n + 1
      PROVE  /\ s[i].do = "mu_assert" /\ s[i] \in OncePerMessage(m, n, c)
  <2> DEFINE k == i - (c + 2 * m + 3 * n + 1)
  <2>1. k \in 1 .. m /\ c + 2 * m + 3 * n + 1 + k = i
    OBVIOUS
  <2> HIDE DEF k
  <2>2. s[i] = mu_assert("data", Messages[k], {1})
    BY <2>1 DEF NonBlockingReceiveLines
  <2>3. s[i] \in OncePerMessage(m, n, c)
    BY <2>1, <2>2, Zenon DEF OncePerMessage
  <2> QED
    BY <2>2, <2>3 DEF mu_assert
<1>16. ASSUME NEW i, i = c + 3 * m + 3 * n + 2
      PROVE  /\ s[i].do = "mu_assert" /\ s[i] \in OncePerMessage(m, n, c)
  <2>1. s[i] = mu_assert("out", CHANNEL_EMPTY, {n - m - c})
    BY <1>16 DEF NonBlockingReceiveLines
  <2> QED
    BY <2>1 DEF mu_assert, OncePerMessage
<1>17. ASSUME NEW i, i = c + 3 * m + 3 * n + 3
      PROVE  /\ s[i].do = "call"
             /\ s[i].op = "close"
             /\ s[i].v = Uninit
             /\ s[i].returns = Statuses
             /\ s[i].data = Value \cup {Uninit}
  <2>1. s[i] = call("close", Uninit, Statuses)
    BY <1>17 DEF NonBlockingReceiveLines
  <2> QED
    BY <2>1 DEF call
<1>18. ASSUME NEW i, i = c + 3 * m + 3 * n + 4
      PROVE  /\ s[i].do = "destroy"
  <2>1. s[i] = destroy(Statuses)
    BY <1>18 DEF NonBlockingReceiveLines
  <2> QED
    BY <2>1 DEF destroy
<1>2. ASSUME NEW i \in 1 .. Len(s)
      PROVE  \/ i \in 1 .. c
             \/ i \in c + 1 .. c + m
             \/ i \in c + m + 1 .. c + m + 2 * n
             \/ i \in c + m + 2 * n + 1 .. c + 2 * m + 3 * n
             \/ i = c + 2 * m + 3 * n + 1
             \/ i \in c + 2 * m + 3 * n + 2 .. c + 3 * m + 3 * n + 1
             \/ i = c + 3 * m + 3 * n + 2
             \/ i = c + 3 * m + 3 * n + 3
             \/ i = c + 3 * m + 3 * n + 4
  BY <1>1
<1>3. ASSUME NEW i \in 1 .. Len(s), s[i].do = "pthread_create"
      PROVE  \/ i \in c + 1 .. c + m
             \/ i \in c + m + 1 .. c + m + 2 * n
  <2>1. i \notin 1 .. c
    BY <1>3, <1>10
  <2>3. i \notin c + m + 2 * n + 1 .. c + 2 * m + 3 * n
    BY <1>3, <1>13
  <2>4. i # c + 2 * m + 3 * n + 1
    BY <1>3, <1>14
  <2>5. i \notin c + 2 * m + 3 * n + 2 .. c + 3 * m + 3 * n + 1
    BY <1>3, <1>15
  <2>6. i # c + 3 * m + 3 * n + 2
    BY <1>3, <1>16
  <2>7. i # c + 3 * m + 3 * n + 3
    BY <1>3, <1>17
  <2>8. i # c + 3 * m + 3 * n + 4
    BY <1>3, <1>18
  <2> QED
    BY <1>2, <2>1, <2>3, <2>4, <2>5, <2>6, <2>7, <2>8
<1>4. ASSUME NEW i \in 1 .. Len(s), s[i].do = "call"
      PROVE  \/ i \in 1 .. c
             \/ i = c + 3 * m + 3 * n + 3
  <2>1. i \notin c + 1 .. c + m
    BY <1>4, <1>11
  <2>2. i \notin c + m + 1 .. c + m + 2 * n
    BY <1>4, <1>12
  <2>3. i \notin c + m + 2 * n + 1 .. c + 2 * m + 3 * n
    BY <1>4, <1>13
  <2>4. i # c + 2 * m + 3 * n + 1
    BY <1>4, <1>14
  <2>5. i \notin c + 2 * m + 3 * n + 2 .. c + 3 * m + 3 * n + 1
    BY <1>4, <1>15
  <2>6. i # c + 3 * m + 3 * n + 2
    BY <1>4, <1>16
  <2>7. i # c + 3 * m + 3 * n + 4
    BY <1>4, <1>18
  <2> QED
    BY <1>2, <2>1, <2>2, <2>3, <2>4, <2>5, <2>6, <2>7
<1>5. ASSUME NEW i \in 1 .. Len(s), s[i].do = "mu_assert"
      PROVE  \/ i = c + 2 * m + 3 * n + 1
             \/ i \in c + 2 * m + 3 * n + 2 .. c + 3 * m + 3 * n + 1
             \/ i = c + 3 * m + 3 * n + 2
  <2>1. i \notin 1 .. c
    BY <1>5, <1>10
  <2>2. i \notin c + 1 .. c + m
    BY <1>5, <1>11
  <2>3. i \notin c + m + 1 .. c + m + 2 * n
    BY <1>5, <1>12
  <2>4. i \notin c + m + 2 * n + 1 .. c + 2 * m + 3 * n
    BY <1>5, <1>13
  <2>5. i # c + 3 * m + 3 * n + 3
    BY <1>5, <1>17
  <2>6. i # c + 3 * m + 3 * n + 4
    BY <1>5, <1>18
  <2> QED
    BY <1>2, <2>1, <2>2, <2>3, <2>4, <2>5, <2>6
<1>6. HelpersUntil(s, m + n, c + 2 * m + 3 * n)
  <2>1. ASSUME NEW i \in 1 .. Len(s), s[i].do = "pthread_create"
        PROVE  s[i].h \in 1 .. m + n
    <3>1. ASSUME i \in c + 1 .. c + m
          PROVE  s[i].h \in 1 .. m + n
      <4>1. s[i].h = i - c
        BY <1>11, <3>1
      <4>2. i - c \in 1 .. m + n
        BY <3>1
      <4> QED
        BY <4>1, <4>2
    <3>2. ASSUME i \in c + m + 1 .. c + m + 2 * n
          PROVE  s[i].h \in 1 .. m + n
      <4>1. s[i].h \in m + 1 .. m + n
        BY <1>12, <2>1, <3>2
      <4> QED
        BY <4>1
    <3> QED
      BY <1>3, <2>1, <3>1, <3>2
  <2>2. ASSUME NEW h \in 1 .. m + n
        PROVE  \E i \in 1 .. Len(s) : i <= c + 2 * m + 3 * n /\ Creates(s, i, h)
    <3>1. CASE h \in 1 .. m
      <4> DEFINE i == c + h
      <4>1. i \in c + 1 .. c + m /\ i - c = h /\ i \in 1 .. Len(s) /\ i <= c + 2 * m + 3 * n
        BY <1>1, <3>1
      <4> HIDE DEF i
      <4>2. s[i].do = "pthread_create" /\ s[i].h = i - c
        BY <1>11, <4>1
      <4> QED
        BY <4>1, <4>2 DEF Creates
    <3>2. CASE h \in m + 1 .. m + n
      <4> DEFINE k == h - m
                 i == c + m + (2 * k - 1)
      <4>1. k \in 1 .. n /\ m + k = h /\ i \in 1 .. Len(s) /\ i <= c + 2 * m + 3 * n
        BY <1>1, <3>2
      <4>2. s[i].do = "pthread_create" /\ s[i].h = m + k
        BY <1>20, <4>1
      <4> HIDE DEF i, k
      <4> QED
        BY <4>1, <4>2 DEF Creates
    <3> QED
      BY <3>1, <3>2
  <2>3. ASSUME NEW h \in 1 .. m + n
        PROVE  \E i \in 1 .. Len(s) : i <= c + 2 * m + 3 * n /\ s[i].do = "pthread_join" /\ s[i].h = h
    <3> DEFINE i == c + m + 2 * n + h
    <3>1. i \in c + m + 2 * n + 1 .. c + 2 * m + 3 * n /\ i - (c + m + 2 * n) = h
      OBVIOUS
    <3>2. i \in 1 .. Len(s) /\ i <= c + 2 * m + 3 * n
      BY <1>1, <3>1
    <3>3. s[i].do = "pthread_join" /\ s[i].h = i - (c + m + 2 * n)
      BY <1>13, <3>1
    <3> HIDE DEF i
    <3> QED
      BY <3>1, <3>2, <3>3
  <2>4. m + n \in Nat /\ c + 2 * m + 3 * n \in Nat
    OBVIOUS
  <2> DEFINE e == c + 2 * m + 3 * n
             N1 == m + n
  <2> HIDE DEF e, N1
  <2>5. /\ N1 \in Nat /\ e \in Nat
        /\ \A i \in 1 .. Len(s) : s[i].do = "pthread_create" => s[i].h \in 1 .. N1
        /\ \A h \in 1 .. N1 : \E i \in 1 .. Len(s) : i <= e /\ Creates(s, i, h)
        /\ \A h \in 1 .. N1 : \E i \in 1 .. Len(s) : i <= e /\ s[i].do = "pthread_join" /\ s[i].h = h
    BY <2>1, <2>2, <2>3, <2>4 DEF e, N1
  <2>6. HelpersUntil(s, N1, e)
    BY <2>5 DEF HelpersUntil
  <2> QED
    BY <2>6 DEF e, N1
<1>7. Loads(s, c, "Message", {"Message1", "Message2", "Message3"})
  <2>1. ASSUME NEW i \in 1 .. Len(s), s[i].do = "pthread_create"
        PROVE  c < i /\ (s[i].op \in SendOps => s[i].v \in {"Message1", "Message2", "Message3"})
    <3>1. c < i
      BY <1>3, <2>1
    <3>2. ASSUME i \in c + 1 .. c + m
          PROVE  s[i].op \in SendOps => s[i].v \in {"Message1", "Message2", "Message3"}
      <4>1. m <= 3
        BY DEF NonBlockingReceiveLines
      <4>2. s[i].v = Messages[i - c] /\ i - c \in 1 .. 3
        <5>1. s[i].v = Messages[i - c]
          BY <1>11, <3>2
        <5>2. i - c \in 1 .. 3
          BY <3>2, <4>1
        <5> QED
          BY <5>1, <5>2
      <4> QED
        BY <4>2, MessagesDiffer
    <3>3. ASSUME i \in c + m + 1 .. c + m + 2 * n
          PROVE  s[i].op \in SendOps => s[i].v \in {"Message1", "Message2", "Message3"}
      BY <1>12, <2>1, <3>3 DEF SendOps
    <3> QED
      BY <1>3, <2>1, <3>1, <3>2, <3>3
  <2>2. ASSUME NEW i \in 1 .. Len(s), i <= c
        PROVE  s[i].do = "call" /\ s[i].op = "send" /\ s[i].v = "Message"
    BY <2>2, <1>10
  <2>3. ASSUME NEW i \in 1 .. Len(s), s[i].do = "call", i > c
        PROVE  Closes(s, i) \/ ClosedBefore(s, i)
    <3>1. PICK k \in 1 .. Len(s) : k = c + 3 * m + 3 * n + 3
      BY <1>1
    <3>2. Closes(s, k)
      BY <1>17, <3>1 DEF Closes
    <3>3. i = k \/ k < i
      BY <1>4, <2>3, <3>1
    <3> QED
      BY <3>2, <3>3 DEF ClosedBefore
  <2>4. ASSUME NEW i \in 1 .. Len(s), s[i].do = "call"
        PROVE  s[i].data = Value \cup {Uninit}
    BY <1>4, <2>4, <1>10, <1>17
  <2>5. c \in Nat /\ c <= Len(s) /\ "Message" \in Value
    BY <1>1, NamesOfTests
  <2> QED
    BY <2>1, <2>2, <2>3, <2>4, <2>5 DEF Loads
<1>8. ASSUME NEW i \in 1 .. Len(s), s[i].do = "pthread_create"
      PROVE  \/ s[i].h \in 1 .. m /\ s[i].op = "send" /\ s[i].v = Messages[s[i].h]
             \/ /\ i \in c + m + 1 .. c + m + 2 * n /\ s[i].h \in m + 1 .. m + n
                /\ s[i].op = "non_blocking_receive"
                /\ i # c + m + 1 => s[i - 1].do = "usleep"
                /\ s[i + 1].do = "usleep"
  <2>1. ASSUME i \in c + 1 .. c + m
        PROVE  s[i].h \in 1 .. m /\ s[i].op = "send" /\ s[i].v = Messages[s[i].h]
    <3>1. i - c \in 1 .. m
      BY <2>1
    <3> QED
      BY <1>11, <2>1, <3>1
  <2>2. ASSUME i \in c + m + 1 .. c + m + 2 * n
        PROVE  /\ s[i].h \in m + 1 .. m + n
               /\ s[i].op = "non_blocking_receive"
               /\ i # c + m + 1 => s[i - 1].do = "usleep"
               /\ s[i + 1].do = "usleep"
    BY <1>12, <1>8, <2>2
  <2> QED
    BY <1>3, <1>8, <2>1, <2>2
<1>9. AssertsOnly(s, c + 2 * m + 3 * n, c + 3 * m + 3 * n + 3, OncePerMessage(m, n, c))
  <2> SUFFICES ASSUME NEW i \in 1 .. Len(s), s[i].do = "mu_assert"
               PROVE  /\ i > c + 2 * m + 3 * n /\ i < c + 3 * m + 3 * n + 3
                      /\ s[i] \in OncePerMessage(m, n, c)
    BY DEF AssertsOnly
  <2>1. s[i] \in OncePerMessage(m, n, c)
    BY <1>5, <1>14, <1>15, <1>16
  <2>2. i > c + 2 * m + 3 * n /\ i < c + 3 * m + 3 * n + 3
    BY <1>5
  <2> QED
    BY <2>1, <2>2
<1>30. ReceivesOneByOne(s, m, n, c)
  BY <1>8 DEF ReceivesOneByOne
<1>40. ClosedAt(s, c + 3 * m + 3 * n + 3)
  <2>1. c + 3 * m + 3 * n + 3 \in 1 .. Len(s)
    BY <1>1
  <2>2. Closes(s, c + 3 * m + 3 * n + 3)
    BY <1>17 DEF Closes
  <2>3. ASSUME NEW i \in 1 .. Len(s), Closes(s, i)
        PROVE  i >= c + 3 * m + 3 * n + 3
    <3>1. s[i].do = "call" /\ i \notin 1 .. c
      BY <1>10, <2>3 DEF Closes
    <3> QED
      BY <1>4, <3>1
  <2> QED
    BY <2>1, <2>2, <2>3 DEF ClosedAt
<1> QED
  BY <1>1, <1>40, <1>6, <1>7, <1>30, <1>9

-----------------------------------------------------------------------------
(***************************************************************************)
(* test_send_correctness.                                                  *)
(***************************************************************************)

(* The statements of test_send_correctness by kind. *)
SendCreates(s) ==
  \A i \in 1 .. Len(s) : s[i].do = "pthread_create" =>
    /\ s[i].op = "send" /\ s[i].sem = TRUE
    /\ \/ i = 1 /\ s[i].h = 1 /\ s[i].v = "Message1"
       \/ i = 6 /\ s[i].h = 2 /\ s[i].v = "Message2"
       \/ i = 12 /\ s[i].h = 3 /\ s[i].v = "Message3"

SendCalls(s) ==
  \A i \in 1 .. Len(s) : s[i].do = "call" =>
    \/ i \in {18, 22, 23} /\ s[i].op = "receive"
    \/ i \in {24, 25} /\ s[i].op = "send" /\ s[i].v = NULL
    \/ i = 29 /\ s[i].op = "close"

SendAsserts(s) ==
  \A i \in 1 .. Len(s) : s[i].do = "mu_assert" =>
    \/ i = 3 /\ s[i] = mu_assert("size", 0, {1})
    \/ i \in {8, 14, 26} /\ s[i] = mu_assert("size", 0, {2})
    \/ i \in {4, 9, 15} /\ s[i] = mu_assert("slot", 0, {"Message1"})
    \/ i \in {10, 16} /\ s[i] = mu_assert("slot", 1, {"Message2"})
    \/ i = 27 /\ s[i] = mu_assert("slot", 0, {NULL})
    \/ i = 28 /\ s[i] = mu_assert("slot", 1, {NULL})
    \/ i = 5 /\ s[i] = mu_assert("out", SUCCESS, {1})
    \/ i = 11 /\ s[i] = mu_assert("out", SUCCESS, {2})
    \/ i = 17 /\ s[i] = mu_assert("out", GEN_ERROR, {1})

SendPoints(s) ==
  /\ \A i \in {18, 22, 23, 24, 25, 29} : i \in 1 .. Len(s) /\ s[i].do = "call"
  /\ \A i \in {1, 6, 12} : i \in 1 .. Len(s) /\ s[i].do = "pthread_create"
  /\ \A i \in 1 .. Len(s) : s[i].do = "sem_wait" <=> i \in {2, 7}
  /\ {2, 7} \subseteq 1 .. Len(s)
  /\ s[19].do = "pthread_join" /\ s[19].h = 1
  /\ s[20].do = "pthread_join" /\ s[20].h = 2
  /\ s[21].do = "pthread_join" /\ s[21].h = 3
  /\ Closes(s, 29)

(* The lines of test_send_correctness, sorted by kind. *)
LEMMA SendStatements ==
  ASSUME NEW s, SendCorrectnessLines(s)
  PROVE  SendCreates(s) /\ SendCalls(s) /\ SendAsserts(s) /\ SendPoints(s)
<1>1. Len(s) = 30
  BY PartValid DEF SendCorrectnessLines
<1>2. /\ s[1].do = "pthread_create" /\ s[1].h = 1 /\ s[1].op = "send" /\ s[1].v = "Message1" /\ s[1].sem = TRUE
      /\ s[6].do = "pthread_create" /\ s[6].h = 2 /\ s[6].op = "send" /\ s[6].v = "Message2" /\ s[6].sem = TRUE
      /\ s[12].do = "pthread_create" /\ s[12].h = 3 /\ s[12].op = "send" /\ s[12].v = "Message3" /\ s[12].sem = TRUE
  BY DEF SendCorrectnessLines, pthread_create
<1>3. /\ s[19].do = "pthread_join" /\ s[19].h = 1
      /\ s[20].do = "pthread_join" /\ s[20].h = 2
      /\ s[21].do = "pthread_join" /\ s[21].h = 3
  BY DEF SendCorrectnessLines, pthread_join
<1>4. ASSUME NEW i \in {2, 7}
      PROVE  s[i].do = "sem_wait"
  BY DEF SendCorrectnessLines, sem_wait
<1>5. s[13].do = "usleep" /\ s[30].do = "destroy"
  BY DEF SendCorrectnessLines, usleep, destroy
<1>6. ASSUME NEW i \in {3, 4, 5, 8, 9, 10, 11, 14, 15, 16, 17, 26, 27, 28}
      PROVE  s[i].do = "mu_assert"
  BY DEF SendCorrectnessLines, mu_assert
<1>7. ASSUME NEW i \in {18, 22, 23}
      PROVE  s[i].do = "call" /\ s[i].op = "receive"
  BY DEF SendCorrectnessLines, call
<1>8. ASSUME NEW i \in {24, 25}
      PROVE  s[i].do = "call" /\ s[i].op = "send" /\ s[i].v = NULL
  BY DEF SendCorrectnessLines, call
<1>9. s[29].do = "call" /\ s[29].op = "close"
  BY DEF SendCorrectnessLines, call
<1>10. ASSUME NEW i \in 1 .. Len(s)
       PROVE  i \in {1, 6, 12} \cup {19, 20, 21} \cup {2, 7} \cup {13, 30}
                     \cup {3, 4, 5, 8, 9, 10, 11, 14, 15, 16, 17, 26, 27, 28}
                     \cup {18, 22, 23} \cup {24, 25} \cup {29}
  BY <1>1
<1>11. SendCreates(s)
  <2> SUFFICES ASSUME NEW i \in 1 .. Len(s), s[i].do = "pthread_create"
               PROVE  i \in {1, 6, 12}
    BY <1>2 DEF SendCreates
  <2> QED
    BY <1>3, <1>4, <1>5, <1>6, <1>7, <1>8, <1>9, <1>10
<1>12. SendCalls(s)
  <2> SUFFICES ASSUME NEW i \in 1 .. Len(s), s[i].do = "call"
               PROVE  i \in {18, 22, 23} \cup {24, 25} \cup {29}
    BY <1>7, <1>8, <1>9 DEF SendCalls
  <2> QED
    BY <1>2, <1>3, <1>4, <1>5, <1>6, <1>10
<1>13. SendAsserts(s)
  <2> SUFFICES ASSUME NEW i \in 1 .. Len(s), s[i].do = "mu_assert"
               PROVE  i \in {3, 4, 5, 8, 9, 10, 11, 14, 15, 16, 17, 26, 27, 28}
    <3>1. /\ s[3] = mu_assert("size", 0, {1})
          /\ s[8] = mu_assert("size", 0, {2})
          /\ s[14] = mu_assert("size", 0, {2})
          /\ s[26] = mu_assert("size", 0, {2})
          /\ s[4] = mu_assert("slot", 0, {"Message1"})
          /\ s[9] = mu_assert("slot", 0, {"Message1"})
          /\ s[15] = mu_assert("slot", 0, {"Message1"})
          /\ s[10] = mu_assert("slot", 1, {"Message2"})
          /\ s[16] = mu_assert("slot", 1, {"Message2"})
          /\ s[27] = mu_assert("slot", 0, {NULL})
          /\ s[28] = mu_assert("slot", 1, {NULL})
          /\ s[5] = mu_assert("out", SUCCESS, {1})
          /\ s[11] = mu_assert("out", SUCCESS, {2})
          /\ s[17] = mu_assert("out", GEN_ERROR, {1})
      BY DEF SendCorrectnessLines
    <3> QED
      BY <3>1 DEF SendAsserts
  <2> QED
    BY <1>2, <1>3, <1>4, <1>5, <1>7, <1>8, <1>9, <1>10
<1>14. \A i \in 1 .. Len(s) : s[i].do = "sem_wait" <=> i \in {2, 7}
  <2> SUFFICES ASSUME NEW i \in 1 .. Len(s), s[i].do = "sem_wait"
               PROVE  i \in {2, 7}
    BY <1>4
  <2> QED
    BY <1>2, <1>3, <1>5, <1>6, <1>7, <1>8, <1>9, <1>10
<1>15. SendPoints(s)
  <2>1. /\ \A i \in {18, 22, 23, 24, 25, 29} : i \in 1 .. Len(s)
        /\ \A i \in {1, 6, 12} : i \in 1 .. Len(s)
        /\ {2, 7} \subseteq 1 .. Len(s)
    BY <1>1
  <2> QED
    BY <1>2, <1>3, <1>7, <1>8, <1>9, <1>14, <2>1 DEF SendPoints, Closes
<1> QED
  BY <1>11, <1>12, <1>13, <1>15

-----------------------------------------------------------------------------
(***************************************************************************)
(* test_receive_correctness.                                               *)
(***************************************************************************)

(* The statements of test_receive_correctness by kind. *)
ReceiveCreates(s) ==
  \A i \in 1 .. Len(s) : s[i].do = "pthread_create" =>
    /\ s[i].op = "receive" /\ s[i].sem = TRUE
    /\ \/ i = 7 /\ s[i].h = 1
       \/ i = 8 /\ s[i].h = 2

ReceiveCalls(s) ==
  \A i \in 1 .. Len(s) : s[i].do = "call" =>
    \/ i \in {1, 12} /\ s[i].op = "send" /\ s[i].v = "Message1" /\ s[i].data = Value \cup {Uninit}
    \/ i \in {2, 16} /\ s[i].op = "send" /\ s[i].v = "Message2" /\ s[i].data = Value \cup {Uninit}
    \/ i = 22 /\ s[i].op = "send" /\ s[i].v = NULL /\ s[i].data = Value \cup {Uninit}
    \/ i = 3 /\ s[i].op = "receive" /\ s[i].data = {"Message1"}
    \/ i = 5 /\ s[i].op = "receive" /\ s[i].data = {"Message2"}
    \/ i = 23 /\ s[i].op = "receive" /\ s[i].data = {NULL}
    \/ i = 24 /\ s[i].op = "close" /\ s[i].data = Value \cup {Uninit}

ReceiveAsserts(s) ==
  \A i \in 1 .. Len(s) : s[i].do = "mu_assert" =>
    \/ i = 4 /\ s[i] = mu_assert("size", 0, {1})
    \/ i \in {6, 10} /\ s[i] = mu_assert("size", 0, {0})
    \/ i = 11 /\ s[i] = mu_assert("out", GEN_ERROR, {2})
    \/ i = 14 /\ s[i] = mu_assert("out", SUCCESS, {1})
    \/ i = 15 /\ s[i] = mu_assert("data", "Message1", {1, 2})
    \/ i = 18 /\ s[i] = mu_assert("out", SUCCESS, {2})
    \/ i = 19 /\ s[i] = mu_assert("data", "Message2", {1, 2})

ReceivePoints(s) ==
  /\ \A i \in {1, 2, 3, 5, 12, 16, 22, 23, 24} : i \in 1 .. Len(s) /\ s[i].do = "call"
  /\ \A i \in {7, 8} : i \in 1 .. Len(s) /\ s[i].do = "pthread_create"
  /\ \A i \in 1 .. Len(s) : s[i].do = "sem_wait" <=> i \in {13, 17}
  /\ {13, 17} \subseteq 1 .. Len(s)
  /\ s[20].do = "pthread_join" /\ s[20].h = 1
  /\ s[21].do = "pthread_join" /\ s[21].h = 2
  /\ Closes(s, 24)

(* The lines of test_receive_correctness, sorted by kind. *)
LEMMA ReceiveStatements ==
  ASSUME NEW s, ReceiveCorrectnessLines(s)
  PROVE  ReceiveCreates(s) /\ ReceiveCalls(s) /\ ReceiveAsserts(s) /\ ReceivePoints(s)
<1>1. Len(s) = 25
  BY PartValid DEF ReceiveCorrectnessLines
<1>2. /\ s[7].do = "pthread_create" /\ s[7].h = 1 /\ s[7].op = "receive" /\ s[7].sem = TRUE
      /\ s[8].do = "pthread_create" /\ s[8].h = 2 /\ s[8].op = "receive" /\ s[8].sem = TRUE
  BY DEF ReceiveCorrectnessLines, pthread_create
<1>3. /\ s[20].do = "pthread_join" /\ s[20].h = 1
      /\ s[21].do = "pthread_join" /\ s[21].h = 2
  BY DEF ReceiveCorrectnessLines, pthread_join
<1>4. ASSUME NEW i \in {13, 17}
      PROVE  s[i].do = "sem_wait"
  BY DEF ReceiveCorrectnessLines, sem_wait
<1>5. s[9].do = "usleep" /\ s[25].do = "destroy"
  BY DEF ReceiveCorrectnessLines, usleep, destroy
<1>6. ASSUME NEW i \in {4, 6, 10, 11, 14, 15, 18, 19}
      PROVE  s[i].do = "mu_assert"
  BY DEF ReceiveCorrectnessLines, mu_assert
<1>7. /\ s[1].do = "call" /\ s[1].op = "send" /\ s[1].v = "Message1" /\ s[1].data = Value \cup {Uninit}
      /\ s[12].do = "call" /\ s[12].op = "send" /\ s[12].v = "Message1" /\ s[12].data = Value \cup {Uninit}
      /\ s[2].do = "call" /\ s[2].op = "send" /\ s[2].v = "Message2" /\ s[2].data = Value \cup {Uninit}
      /\ s[16].do = "call" /\ s[16].op = "send" /\ s[16].v = "Message2" /\ s[16].data = Value \cup {Uninit}
      /\ s[22].do = "call" /\ s[22].op = "send" /\ s[22].v = NULL /\ s[22].data = Value \cup {Uninit}
  BY DEF ReceiveCorrectnessLines, call
<1>8. /\ s[3].do = "call" /\ s[3].op = "receive" /\ s[3].data = {"Message1"}
      /\ s[5].do = "call" /\ s[5].op = "receive" /\ s[5].data = {"Message2"}
      /\ s[23].do = "call" /\ s[23].op = "receive" /\ s[23].data = {NULL}
  BY DEF ReceiveCorrectnessLines, receive
<1>9. s[24].do = "call" /\ s[24].op = "close" /\ s[24].data = Value \cup {Uninit}
  BY DEF ReceiveCorrectnessLines, call
<1>10. ASSUME NEW i \in 1 .. Len(s)
       PROVE  i \in {7, 8} \cup {20, 21} \cup {13, 17} \cup {9, 25}
                     \cup {4, 6, 10, 11, 14, 15, 18, 19}
                     \cup {1, 12, 2, 16, 22} \cup {3, 5, 23} \cup {24}
  BY <1>1
<1>11. ReceiveCreates(s)
  <2> SUFFICES ASSUME NEW i \in 1 .. Len(s), s[i].do = "pthread_create"
               PROVE  i \in {7, 8}
    BY <1>2 DEF ReceiveCreates
  <2> QED
    BY <1>3, <1>4, <1>5, <1>6, <1>7, <1>8, <1>9, <1>10
<1>12. ReceiveCalls(s)
  <2> SUFFICES ASSUME NEW i \in 1 .. Len(s), s[i].do = "call"
               PROVE  i \in {1, 12, 2, 16, 22} \cup {3, 5, 23} \cup {24}
    BY <1>7, <1>8, <1>9 DEF ReceiveCalls
  <2> QED
    BY <1>2, <1>3, <1>4, <1>5, <1>6, <1>10
<1>13. ReceiveAsserts(s)
  <2> SUFFICES ASSUME NEW i \in 1 .. Len(s), s[i].do = "mu_assert"
               PROVE  i \in {4, 6, 10, 11, 14, 15, 18, 19}
    <3>1. /\ s[4] = mu_assert("size", 0, {1})
          /\ s[6] = mu_assert("size", 0, {0})
          /\ s[10] = mu_assert("size", 0, {0})
          /\ s[11] = mu_assert("out", GEN_ERROR, {2})
          /\ s[14] = mu_assert("out", SUCCESS, {1})
          /\ s[15] = mu_assert("data", "Message1", {1, 2})
          /\ s[18] = mu_assert("out", SUCCESS, {2})
          /\ s[19] = mu_assert("data", "Message2", {1, 2})
      BY DEF ReceiveCorrectnessLines
    <3> QED
      BY <3>1 DEF ReceiveAsserts
  <2> QED
    BY <1>2, <1>3, <1>4, <1>5, <1>7, <1>8, <1>9, <1>10
<1>14. \A i \in 1 .. Len(s) : s[i].do = "sem_wait" <=> i \in {13, 17}
  <2> SUFFICES ASSUME NEW i \in 1 .. Len(s), s[i].do = "sem_wait"
               PROVE  i \in {13, 17}
    BY <1>4
  <2> QED
    BY <1>2, <1>3, <1>5, <1>6, <1>7, <1>8, <1>9, <1>10
<1>15. ReceivePoints(s)
  <2>1. /\ \A i \in {1, 2, 3, 5, 12, 16, 22, 23, 24} : i \in 1 .. Len(s)
        /\ \A i \in {7, 8} : i \in 1 .. Len(s)
        /\ {13, 17} \subseteq 1 .. Len(s)
    BY <1>1
  <2> QED
    BY <1>2, <1>3, <1>7, <1>8, <1>9, <1>14, <2>1 DEF ReceivePoints, Closes
<1> QED
  BY <1>11, <1>12, <1>13, <1>15
=============================================================================
