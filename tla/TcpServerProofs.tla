--------------------------- MODULE TcpServerProofs ---------------------------
(***************************************************************************)
(* A connection of a TcpServer is established, removed and destroyed once, *)
(* and reported up and down once, for any number of threads, connections   *)
(* and callers of start(): ConnectionsLiveOnce of TcpServer.               *)
(***************************************************************************)
EXTENDS TcpServer, FiniteSetTheorems, TLAPS

Names == {"listen", "connectEstablished", "connectDestroyed", "removeConnection"}

\* What the queues hold for a connection: Tale says how that goes with its state.
Est(i) == Owed(loopOf[i], "connectEstablished", i)
Des(i) == Owed(loopOf[i], "connectDestroyed", i)
Rem(i) == Owed(base, "removeConnection", i)

(***************************************************************************)
(* The tale of a connection: its state_, whether a poller has its channel  *)
(* and the map the connection, how often it was reported up and down, how  *)
(* many connectEstablished(), connectDestroyed() and removeConnection()    *)
(* are on their way, and whether it belongs to the base loop; srv is what  *)
(* the server does, and few is true when its pool has no threads.          *)
(***************************************************************************)
Tale(st, reg, in, up, down, e, d, r, home, srv, few) ==
  /\ up = IF st \in {"none", "kConnecting"} THEN 0 ELSE 1
  /\ down = IF st = "kDisconnected" THEN 1 ELSE 0
  /\ st = "none" => ~reg /\ ~in /\ e = 0 /\ d = 0 /\ r = 0
  /\ e \in {0, 1} /\ (e = 1 => st = "kConnecting")
  /\ st = "kConnecting" => ~home /\ ~reg
  /\ srv # "dead" /\ in => /\ e = IF st = "kConnecting" THEN 1 ELSE 0
                           /\ r = IF st = "kDisconnected" THEN 1 ELSE 0
                           /\ d = 0
                           /\ reg <=> st \in {"kConnected", "kDisconnected"}
  /\ (srv # "dead" \/ few) /\ ~in => d = IF reg \/ e = 1 THEN 1 ELSE 0
  /\ srv = "up" /\ ~in => r = 0 /\ st \in {"none", "kDisconnected"}
  /\ (srv = "up" \/ few) /\ st = "kConnected" => reg

TaleOf(i) == Tale(state[i], registered[i], i \in connections, ups[i], downs[i],
                  Est(i), Des(i), Rem(i), loopOf[i] = base, server, numThreads = 0)

\* What is to be done for a connection is on its way to the loop that does it.
NoStray(i) ==
  \A l \in Loops :
    /\ l # loopOf[i] => /\ Owed(l, "connectEstablished", i) = 0
                        /\ Owed(l, "connectDestroyed", i) = 0
    /\ l # base => Owed(l, "removeConnection", i) = 0

\* In the queue of a loop nothing establishes a connection after what destroys it.
Ordered(batch, first, queue, i) ==
  LET e == Functor("connectEstablished", i)
      d == Functor("connectDestroyed", i)
  IN  /\ \A k \in first .. Len(batch) : batch[k] = d =>
           Count(batch, k, e) = 0 /\ Count(queue, 1, e) = 0
      /\ \A k \in 1 .. Len(queue) : queue[k] = d => Count(queue, k, e) = 0

InOrder(i) == \A l \in Loops : Ordered(functors[l], ran[l] + 1, pendingFunctors[l], i)

ConnInv(i) == TaleOf(i) /\ NoStray(i) /\ InOrder(i) /\ (state[i] = "none" <=> i >= nextConnId)

\* A loop has a batch only while it runs it, and quits only in the destructor.
LoopInv(l) ==
  /\ ran[l] <= Len(functors[l])
  /\ pc[l] # "functors" => functors[l] = <<>> /\ ran[l] = 0
  /\ quit[l] => server # "up" /\ connections = {} /\ l \in 1 .. numThreads

\* getNextLoop() finds a loop, also after setThreadNum(), before which nothing
\* has been started.
StartInv ==
  /\ next = 0 \/ next < numThreads
  /\ (\A t \in Callers : caller[t] = "not yet") =>
       /\ ~listenning /\ next = 0 /\ nextConnId = 1
       /\ \A l \in Loops : pendingFunctors[l] = <<>> /\ functors[l] = <<>>

IInv ==
  /\ TypeOK /\ StartInv
  /\ \A l \in Loops : LoopInv(l)
  /\ \A i \in Conns : ConnInv(i)

-----------------------------------------------------------------------------
(***************************************************************************)
(* Counting functors.                                                      *)
(***************************************************************************)

\* A count is a number, which is zero just when the functor is not there.
LEMMA CountNat ==
  ASSUME NEW s, Len(s) \in Nat, NEW n \in Nat, NEW f
  PROVE  /\ Count(s, n, f) \in Nat
         /\ Count(s, n, f) = 0 <=> \A k \in n .. Len(s) : s[k] # f
<1> DEFINE P == {k \in n .. Len(s) : s[k] = f}
<1>1. IsFiniteSet(n .. Len(s))
  BY FS_Interval
<1>2. IsFiniteSet(P)
  BY Zenon, <1>1, FS_Subset
<1>3. Cardinality(P) \in Nat /\ (Cardinality(P) = 0 <=> P = {})
  BY Zenon, <1>2, FS_CardinalityType, FS_EmptySet
<1>4. P = {} <=> \A k \in n .. Len(s) : s[k] # f
  BY Zenon
<1> QED
  BY Zenon, <1>3, <1>4 DEF Count

\* The functor in front is counted, or not.
LEMMA CountNext ==
  ASSUME NEW s, Len(s) \in Nat, NEW n \in Nat, n <= Len(s), NEW f
  PROVE  Count(s, n, f) = Count(s, n + 1, f) + IF s[n] = f THEN 1 ELSE 0
<1> DEFINE P == {k \in n .. Len(s) : s[k] = f}
           Q == {k \in n + 1 .. Len(s) : s[k] = f}
<1>1. IsFiniteSet(n + 1 .. Len(s))
  BY FS_Interval
<1>2. IsFiniteSet(Q) /\ Cardinality(Q) \in Nat
  BY Zenon, <1>1, FS_Subset, FS_CardinalityType
<1>3. n \notin Q /\ n .. Len(s) = (n + 1 .. Len(s)) \cup {n}
  OBVIOUS
<1>4. CASE s[n] = f
  <2>1. P = Q \cup {n}
    BY Zenon, <1>3, <1>4
  <2>2. Cardinality(Q \cup {n}) = Cardinality(Q) + 1
    BY Zenon, <1>2, <1>3, FS_AddElement
  <2> QED
    BY Zenon, <1>4, <2>1, <2>2 DEF Count
<1>5. CASE s[n] # f
  <2>1. P = Q
    BY Zenon, <1>3, <1>5
  <2>2. Cardinality(Q) + 0 = Cardinality(Q)
    BY <1>2
  <2> QED
    BY Zenon, <1>5, <2>1, <2>2 DEF Count
<1> QED
  BY Zenon, <1>4, <1>5

\* So is the one that is queued.
LEMMA CountAppend ==
  ASSUME NEW S, NEW s \in Seq(S), NEW g \in S, NEW n \in Nat \ {0}, n <= Len(s) + 1, NEW f
  PROVE  Count(Append(s, g), n, f) = Count(s, n, f) + IF g = f THEN 1 ELSE 0
<1> DEFINE t == Append(s, g)
           m == Len(s) + 1
           P == {k \in n .. Len(t) : t[k] = f}
           Q == {k \in n .. Len(s) : s[k] = f}
<1>1. IsFiniteSet(n .. Len(s))
  BY FS_Interval
<1>2. IsFiniteSet(Q) /\ Cardinality(Q) \in Nat
  BY Zenon, <1>1, FS_Subset, FS_CardinalityType
<1>3. /\ Len(t) = m /\ t[m] = g /\ \A k \in n .. Len(s) : t[k] = s[k]
      /\ n .. m = (n .. Len(s)) \cup {m} /\ m \notin n .. Len(s)
  OBVIOUS
<1>4. m \notin Q /\ (P = IF g = f THEN Q \cup {m} ELSE Q)
  <2> HIDE DEF t, m
  <2> QED
    BY Zenon, <1>3
<1>5. CASE g = f
  <2>1. Cardinality(Q \cup {m}) = Cardinality(Q) + 1
    BY Zenon, <1>2, <1>4, FS_AddElement
  <2> QED
    BY Zenon, <1>4, <1>5, <2>1 DEF Count
<1>6. CASE g # f
  <2>1. Cardinality(Q) + 0 = Cardinality(Q)
    BY <1>2
  <2> QED
    BY Zenon, <1>4, <1>6, <2>1 DEF Count
<1> QED
  BY Zenon, <1>5, <1>6

\* The functors can be told apart.
LEMMA FunctorsApart ==
  /\ \A n \in Names, i \in Conns \cup {0} : Functor(n, i) \in QueuedFunctor
  /\ \A n, m, i, j : Functor(n, i) = Functor(m, j) <=> n = m /\ i = j
  /\ \A n, i : Functor(n, i).conn = i
  BY DEF Functor, QueuedFunctor, Names
\* What is queued comes last, so the order stays unless a connection is
\* established again.
LEMMA OrderedAppend ==
  ASSUME NEW b \in Seq(QueuedFunctor), NEW q \in Seq(QueuedFunctor), NEW g \in QueuedFunctor,
         NEW n \in Nat \ {0}, NEW i, Ordered(b, n, q, i),
         \/ g # Functor("connectEstablished", i)
         \/ /\ Count(b, n, Functor("connectDestroyed", i)) = 0
            /\ Count(q, 1, Functor("connectDestroyed", i)) = 0
  PROVE  Ordered(b, n, Append(q, g), i)
<1> DEFINE e == Functor("connectEstablished", i)
           d == Functor("connectDestroyed", i)
           t == Append(q, g)
           m == Len(q) + 1
<1>1. /\ Len(b) \in Nat /\ Len(q) \in Nat /\ 1 \in Nat \ {0} /\ 1 \in Nat /\ n \in Nat
      /\ m \in Nat \ {0} /\ m \in Nat /\ m <= Len(q) + 1 /\ 1 <= Len(q) + 1
  OBVIOUS
<1>2. \A k \in 1 .. Len(t) : /\ k \in Nat \ {0} /\ k <= Len(q) + 1
                             /\ k \in 1 .. Len(q) \/ k = m
  OBVIOUS
<1>3. (\A k \in 1 .. Len(q) : t[k] = q[k]) /\ t[m] = g
  OBVIOUS
<1>4. e # d
  BY FunctorsApart
<1> HIDE DEF e, d, t, m
<1>5. /\ \A k \in n .. Len(b) : b[k] = d => Count(b, k, e) = 0 /\ Count(q, 1, e) = 0
      /\ \A k \in 1 .. Len(q) : q[k] = d => Count(q, k, e) = 0
  BY Zenon DEF Ordered, e, d
<1>6. Count(q, m, e) = 0
  <2>1. \A k \in m .. Len(q) : q[k] # e
    BY <1>1 DEF m
  <2> QED
    BY Zenon, <1>1, <2>1, CountNat
<1>7. SUFFICES /\ \A k \in n .. Len(b) : b[k] = d => Count(b, k, e) = 0 /\ Count(t, 1, e) = 0
               /\ \A k \in 1 .. Len(t) : t[k] = d => Count(t, k, e) = 0
  BY Zenon DEF Ordered, e, d, t
<1>8. CASE g # e
  <2>1. \A k \in Nat \ {0} : k <= Len(q) + 1 => Count(t, k, e) = Count(q, k, e) + 0
    <3> TAKE k \in Nat \ {0}
    <3> HAVE k <= Len(q) + 1
    <3>1. Count(t, k, e) = Count(q, k, e) + IF g = e THEN 1 ELSE 0
      BY CountAppend DEF t
    <3> QED
      BY Zenon, <1>8, <3>1
  <2>2. 0 + 0 = 0
    OBVIOUS
  <2>3. Count(q, 1, e) = 0 => Count(t, 1, e) = 0
    BY Zenon, <1>1, <2>1, <2>2
  <2>4. \A k \in 1 .. Len(t) : Count(q, k, e) = 0 => Count(t, k, e) = 0
    BY Zenon, <1>2, <2>1, <2>2
  <2> QED
    BY Zenon, <1>2, <1>3, <1>5, <1>6, <2>3, <2>4
<1>9. CASE g = e
  <2>1. Count(b, n, d) = 0 /\ Count(q, 1, d) = 0
    BY Zenon, <1>9 DEF e, d
  <2>2. (\A k \in n .. Len(b) : b[k] # d) /\ (\A k \in 1 .. Len(q) : q[k] # d)
    BY Zenon, <1>1, <2>1, CountNat
  <2> QED
    BY Zenon, <1>2, <1>3, <1>4, <1>9, <2>2
<1> QED
  BY Zenon, <1>8, <1>9

\* Running a functor keeps the order, and when it is connectDestroyed() nothing
\* establishes the connection later.
LEMMA OrderedRun ==
  ASSUME NEW b \in Seq(QueuedFunctor), NEW q, NEW n \in Nat, n <= Len(b), NEW i,
         Ordered(b, n, q, i)
  PROVE  /\ Ordered(b, n + 1, q, i)
         /\ b[n] = Functor("connectDestroyed", i) =>
              /\ Count(b, n + 1, Functor("connectEstablished", i)) = 0
              /\ Count(q, 1, Functor("connectEstablished", i)) = 0
<1> DEFINE e == Functor("connectEstablished", i)
           d == Functor("connectDestroyed", i)
<1>1. /\ Len(b) \in Nat /\ n + 1 \in Nat /\ n \in n .. Len(b)
      /\ \A k \in n + 1 .. Len(b) : k \in n .. Len(b)
  OBVIOUS
<1>2. Ordered(b, n + 1, q, i)
  BY Zenon, <1>1 DEF Ordered
<1>3. ASSUME b[n] = d
      PROVE  Count(b, n + 1, e) = 0 /\ Count(q, 1, e) = 0
  <2>1. Count(b, n, e) = 0 /\ Count(q, 1, e) = 0
    BY Zenon, <1>1, <1>3 DEF Ordered
  <2>2. \A k \in n .. Len(b) : b[k] # e
    BY Zenon, <1>1, <2>1, CountNat
  <2>3. \A k \in n + 1 .. Len(b) : b[k] # e
    BY Zenon, <1>1, <2>2
  <2>4. Count(b, n + 1, e) = 0
    BY Zenon, <1>1, <2>3, CountNat
  <2> QED
    BY Zenon, <2>1, <2>4
<1> QED
  BY Zenon, <1>2, <1>3

\* A queue that is taken, and a batch that is done.
LEMMA OrderedTake ==
  ASSUME NEW q \in Seq(QueuedFunctor), NEW i
  PROVE  /\ Ordered(<<>>, 1, q, i) => Ordered(q, 1, <<>>, i)
         /\ \A b \in Seq(QueuedFunctor) :
              Ordered(b, Len(b) + 1, q, i) => Ordered(<<>>, 1, q, i)
         /\ Ordered(<<>>, 1, <<>>, i)
<1>1. /\ Len(<<>>) = 0 /\ 1 .. 0 = {} /\ 0 \in Nat /\ 1 \in Nat
  OBVIOUS
<1>2. \A f : Count(<<>>, 1, f) = 0
  BY Zenon, <1>1, CountNat
<1> QED
  BY Zenon, <1>1, <1>2 DEF Ordered
-----------------------------------------------------------------------------
(***************************************************************************)
(* What the steps of the loops do to the queues.                           *)
(***************************************************************************)

\* The functor that a loop runs next.
Front(l) == functors[l][ran[l] + 1]

\* queueInLoop(), and doPendingFunctors() that runs the next functor.
Appends(x, g) == pendingFunctors' = [pendingFunctors EXCEPT ![x] = Append(@, g)]
RunsNext(y) ==
  /\ ran[y] < Len(functors[y]) /\ functors' = functors
  /\ ran' = [ran EXCEPT ![y] = @ + 1]

\* The types that counting needs.
LEMMA QueueTypes ==
  ASSUME TypeOK, NEW l \in Loops
  PROVE  /\ functors[l] \in Seq(QueuedFunctor) /\ Len(functors[l]) \in Nat
         /\ pendingFunctors[l] \in Seq(QueuedFunctor) /\ Len(pendingFunctors[l]) \in Nat
         /\ ran[l] \in Nat /\ ran[l] + 1 \in Nat
<1>1. /\ functors[l] \in Seq(QueuedFunctor) /\ pendingFunctors[l] \in Seq(QueuedFunctor)
      /\ ran[l] \in Nat
  BY Zenon DEF TypeOK
<1> QED
  BY <1>1

\* What a loop owes is a number; it is zero when neither the batch nor the queue
\* has the functor.
LEMMA OwedNat ==
  ASSUME TypeOK, NEW l \in Loops, NEW n, NEW i
  PROVE  /\ Count(functors[l], ran[l] + 1, Functor(n, i)) \in Nat
         /\ Count(pendingFunctors[l], 1, Functor(n, i)) \in Nat
         /\ Owed(l, n, i) \in Nat
         /\ Owed(l, n, i) = 0 <=> /\ Count(functors[l], ran[l] + 1, Functor(n, i)) = 0
                                  /\ Count(pendingFunctors[l], 1, Functor(n, i)) = 0
<1>1. 1 \in Nat
  OBVIOUS
<1>2. /\ Count(functors[l], ran[l] + 1, Functor(n, i)) \in Nat
      /\ Count(pendingFunctors[l], 1, Functor(n, i)) \in Nat
  BY Zenon, <1>1, QueueTypes, CountNat
<1>3. \A a, b \in Nat : a + b \in Nat /\ (a + b = 0 <=> a = 0 /\ b = 0)
  OBVIOUS
<1> QED
  BY Zenon, <1>2, <1>3 DEF Owed

\* queueInLoop(), seen from the queue.
LEMMA QueueAppends ==
  ASSUME TypeOK, NEW x \in Loops, NEW g \in QueuedFunctor, Appends(x, g)
  PROVE  /\ pendingFunctors' \in [Loops -> Seq(QueuedFunctor)]
         /\ pendingFunctors'[x] = Append(pendingFunctors[x], g)
         /\ \A l \in Loops : l # x => pendingFunctors'[l] = pendingFunctors[l]
         /\ \A l \in Loops : \A f :
              Count(pendingFunctors'[l], 1, f) =
                Count(pendingFunctors[l], 1, f) + IF l = x /\ g = f THEN 1 ELSE 0
<1>1. /\ pendingFunctors \in [Loops -> Seq(QueuedFunctor)]
      /\ pendingFunctors[x] \in Seq(QueuedFunctor)
      /\ Append(pendingFunctors[x], g) \in Seq(QueuedFunctor)
      /\ 1 \in Nat /\ 1 \in Nat \ {0} /\ 1 <= Len(pendingFunctors[x]) + 1
  <2>1. pendingFunctors \in [Loops -> Seq(QueuedFunctor)]
    BY Zenon DEF TypeOK
  <2> QED
    BY <2>1
<1>2. /\ pendingFunctors' \in [Loops -> Seq(QueuedFunctor)]
      /\ pendingFunctors'[x] = Append(pendingFunctors[x], g)
      /\ \A l \in Loops : l # x => pendingFunctors'[l] = pendingFunctors[l]
  BY <1>1 DEF Appends
<1>3. ASSUME NEW l \in Loops, NEW f
      PROVE  Count(pendingFunctors'[l], 1, f) =
               Count(pendingFunctors[l], 1, f) + IF l = x /\ g = f THEN 1 ELSE 0
  <2>1. CASE l = x
    <3>1. Count(Append(pendingFunctors[x], g), 1, f) =
            Count(pendingFunctors[x], 1, f) + IF g = f THEN 1 ELSE 0
      BY <1>1, CountAppend
    <3> QED
      BY Zenon, <1>2, <2>1, <3>1
  <2>2. CASE l # x
    <3>1. Count(pendingFunctors[l], 1, f) \in Nat
      BY Zenon, <1>1, QueueTypes, CountNat
    <3>2. Count(pendingFunctors[l], 1, f) + 0 = Count(pendingFunctors[l], 1, f)
      BY <3>1
    <3> QED
      BY Zenon, <1>2, <2>2, <3>2
  <2> QED
    BY Zenon, <2>1, <2>2
<1> QED
  BY Zenon, <1>2, <1>3

\* doPendingFunctors() runs the next functor, seen from the batch.
LEMMA BatchRuns ==
  ASSUME TypeOK, NEW y \in Loops, RunsNext(y)
  PROVE  /\ ran' \in [Loops -> Nat]
         /\ ran'[y] = ran[y] + 1 /\ ran'[y] <= Len(functors[y])
         /\ \A l \in Loops : l # y => ran'[l] = ran[l]
         /\ Front(y) \in QueuedFunctor
         /\ \A l \in Loops : \A f :
              Count(functors[l], ran[l] + 1, f) =
                Count(functors'[l], ran'[l] + 1, f) + IF l = y /\ Front(y) = f THEN 1 ELSE 0
<1>1. /\ ran \in [Loops -> Nat] /\ functors[y] \in Seq(QueuedFunctor)
  BY Zenon DEF TypeOK
<1>2. /\ ran' \in [Loops -> Nat]
      /\ ran'[y] = ran[y] + 1 /\ ran'[y] <= Len(functors[y]) /\ ran[y] + 1 <= Len(functors[y])
      /\ \A l \in Loops : l # y => ran'[l] = ran[l]
      /\ functors[y][ran[y] + 1] \in QueuedFunctor
      /\ functors' = functors
  BY <1>1 DEF RunsNext
<1>3. ASSUME NEW l \in Loops, NEW f
      PROVE  Count(functors[l], ran[l] + 1, f) =
               Count(functors'[l], ran'[l] + 1, f) + IF l = y /\ Front(y) = f THEN 1 ELSE 0
  <2>1. CASE l = y
    <3>1. Count(functors[y], ran[y] + 1, f) =
            Count(functors[y], (ran[y] + 1) + 1, f)
              + IF functors[y][ran[y] + 1] = f THEN 1 ELSE 0
      BY <1>2, QueueTypes, CountNext
    <3> QED
      BY Zenon, <1>2, <2>1, <3>1 DEF Front
  <2>2. CASE l # y
    <3>1. Count(functors[l], ran[l] + 1, f) \in Nat
      BY Zenon, <1>1, QueueTypes, CountNat
    <3>2. Count(functors[l], ran[l] + 1, f) + 0 = Count(functors[l], ran[l] + 1, f)
      BY <3>1
    <3> QED
      BY Zenon, <1>2, <2>2, <3>2
  <2> QED
    BY Zenon, <2>1, <2>2
<1> QED
  BY Zenon, <1>2, <1>3 DEF Front
\* Nothing happens to the queues.
LEMMA Steady ==
  ASSUME functors' = functors, ran' = ran, pendingFunctors' = pendingFunctors
  PROVE  /\ \A l, n, i : Owed(l, n, i)' = Owed(l, n, i)
         /\ \A i : InOrder(i)' <=> InOrder(i)
  BY Zenon DEF Owed, InOrder

\* queueInLoop().
LEMMA Queues ==
  ASSUME TypeOK, NEW x \in Loops, NEW g \in QueuedFunctor, Appends(x, g),
         functors' = functors, ran' = ran
  PROVE  /\ pendingFunctors' \in [Loops -> Seq(QueuedFunctor)]
         /\ \A l \in Loops : \A n, i :
              Owed(l, n, i)' = Owed(l, n, i) + IF l = x /\ g = Functor(n, i) THEN 1 ELSE 0
         /\ \A i : /\ InOrder(i)
                   /\ \/ g # Functor("connectEstablished", i)
                      \/ Owed(x, "connectDestroyed", i) = 0
                   => InOrder(i)'
<1>1. /\ pendingFunctors' \in [Loops -> Seq(QueuedFunctor)]
      /\ pendingFunctors'[x] = Append(pendingFunctors[x], g)
      /\ \A l \in Loops : l # x => pendingFunctors'[l] = pendingFunctors[l]
      /\ \A l \in Loops : \A f :
           Count(pendingFunctors'[l], 1, f) =
             Count(pendingFunctors[l], 1, f) + IF l = x /\ g = f THEN 1 ELSE 0
  BY Zenon, QueueAppends
<1>2. ASSUME NEW l \in Loops, NEW n, NEW i
      PROVE  Owed(l, n, i)' = Owed(l, n, i) + IF l = x /\ g = Functor(n, i) THEN 1 ELSE 0
  <2> DEFINE c == IF l = x /\ g = Functor(n, i) THEN 1 ELSE 0
  <2>1. c \in {0, 1}
    OBVIOUS
  <2>2. Count(pendingFunctors'[l], 1, Functor(n, i)) =
          Count(pendingFunctors[l], 1, Functor(n, i)) + c
    BY Zenon, <1>1
  <2> HIDE DEF c
  <2>3. \A a, b \in Nat : a + (b + c) = (a + b) + c
    BY <2>1
  <2>4. /\ Count(functors[l], ran[l] + 1, Functor(n, i)) \in Nat
        /\ Count(pendingFunctors[l], 1, Functor(n, i)) \in Nat
    BY Zenon, OwedNat
  <2>5. Owed(l, n, i)' = Count(functors[l], ran[l] + 1, Functor(n, i))
                           + Count(pendingFunctors'[l], 1, Functor(n, i))
    BY Zenon DEF Owed
  <2>6. Owed(l, n, i)' = Owed(l, n, i) + c
    BY Zenon, <2>2, <2>3, <2>4, <2>5 DEF Owed
  <2> QED
    BY Zenon, <2>6 DEF c
<1>3. ASSUME NEW i, InOrder(i),
             \/ g # Functor("connectEstablished", i) \/ Owed(x, "connectDestroyed", i) = 0,
             NEW l \in Loops
      PROVE  Ordered(functors'[l], ran'[l] + 1, pendingFunctors'[l], i)
  <2>1. Ordered(functors[l], ran[l] + 1, pendingFunctors[l], i)
    BY Zenon, <1>3 DEF InOrder
  <2>2. CASE l = x
    <3>1. \/ g # Functor("connectEstablished", i)
          \/ /\ Count(functors[x], ran[x] + 1, Functor("connectDestroyed", i)) = 0
             /\ Count(pendingFunctors[x], 1, Functor("connectDestroyed", i)) = 0
      BY Zenon, <1>3, OwedNat
    <3>2. ran[x] + 1 \in Nat \ {0}
      BY QueueTypes
    <3>3. Ordered(functors[x], ran[x] + 1, Append(pendingFunctors[x], g), i)
      BY Zenon, <2>1, <2>2, <3>1, <3>2, QueueTypes, OrderedAppend
    <3> QED
      BY Zenon, <1>1, <2>2, <3>3
  <2>3. CASE l # x
    BY Zenon, <1>1, <2>1, <2>3
  <2> QED
    BY Zenon, <2>2, <2>3
<1> QED
  BY Zenon, <1>1, <1>2, <1>3 DEF InOrder

\* The next functor is run, and may queue another one.
LEMMA Runs ==
  ASSUME TypeOK, NEW y \in Loops, RunsNext(y), pendingFunctors' = pendingFunctors
  PROVE  /\ ran' \in [Loops -> Nat]
         /\ \A l \in Loops : ran[l] <= Len(functors[l]) => ran'[l] <= Len(functors'[l])
         /\ \A l \in Loops : \A n, i :
              /\ Owed(l, n, i) =
                   Owed(l, n, i)' + IF l = y /\ Front(y) = Functor(n, i) THEN 1 ELSE 0
              /\ Owed(l, n, i)' \in Nat
         /\ \A i : InOrder(i) => InOrder(i)'
         /\ \A i : InOrder(i) /\ Front(y) = Functor("connectDestroyed", i) =>
                     Owed(y, "connectEstablished", i)' = 0
<1>1. /\ ran' \in [Loops -> Nat]
      /\ ran'[y] = ran[y] + 1 /\ ran'[y] <= Len(functors[y])
      /\ \A l \in Loops : l # y => ran'[l] = ran[l]
      /\ \A l \in Loops : \A f :
           Count(functors[l], ran[l] + 1, f) =
             Count(functors'[l], ran'[l] + 1, f) + IF l = y /\ Front(y) = f THEN 1 ELSE 0
      /\ functors' = functors
  BY Zenon, BatchRuns DEF RunsNext
<1>2. ASSUME NEW l \in Loops, NEW f
      PROVE  Count(functors'[l], ran'[l] + 1, f) \in Nat /\ Count(pendingFunctors[l], 1, f) \in Nat
  <2>1. 1 \in Nat /\ \A a \in Nat : a + 1 \in Nat
    OBVIOUS
  <2>2. ran'[l] + 1 \in Nat /\ functors'[l] = functors[l]
    BY Zenon, <1>1, <2>1
  <2>3. Len(functors[l]) \in Nat /\ Len(pendingFunctors[l]) \in Nat
    BY Zenon, QueueTypes
  <2> QED
    BY Zenon, <2>1, <2>2, <2>3, CountNat
<1>3. ASSUME NEW l \in Loops, NEW n, NEW i
      PROVE  /\ Owed(l, n, i) =
                  Owed(l, n, i)' + IF l = y /\ Front(y) = Functor(n, i) THEN 1 ELSE 0
             /\ Owed(l, n, i)' \in Nat
  <2> DEFINE c == IF l = y /\ Front(y) = Functor(n, i) THEN 1 ELSE 0
  <2>1. c \in {0, 1}
    OBVIOUS
  <2>2. Count(functors[l], ran[l] + 1, Functor(n, i)) =
          Count(functors'[l], ran'[l] + 1, Functor(n, i)) + c
    BY Zenon, <1>1
  <2> HIDE DEF c
  <2>3. \A a, b \in Nat : (a + c) + b = (a + b) + c /\ a + b \in Nat
    BY <2>1
  <2>4. /\ Count(functors'[l], ran'[l] + 1, Functor(n, i)) \in Nat
        /\ Count(pendingFunctors[l], 1, Functor(n, i)) \in Nat
    BY Zenon, <1>2
  <2>5. Owed(l, n, i)' = Count(functors'[l], ran'[l] + 1, Functor(n, i))
                           + Count(pendingFunctors[l], 1, Functor(n, i))
    BY Zenon DEF Owed
  <2>6. Owed(l, n, i) = (Count(functors'[l], ran'[l] + 1, Functor(n, i)) + c)
                          + Count(pendingFunctors[l], 1, Functor(n, i))
    BY Zenon, <2>2 DEF Owed
  <2>7. Owed(l, n, i) = Owed(l, n, i)' + c /\ Owed(l, n, i)' \in Nat
    BY Zenon, <2>3, <2>4, <2>5, <2>6
  <2> QED
    BY Zenon, <2>7 DEF c
<1>4. /\ ran[y] + 1 \in Nat /\ ran[y] + 1 <= Len(functors[y]) /\ 0 + 0 = 0
  BY QueueTypes DEF RunsNext
<1>5. ASSUME NEW i, InOrder(i)
      PROVE  /\ InOrder(i)'
             /\ Front(y) = Functor("connectDestroyed", i) =>
                  Owed(y, "connectEstablished", i)' = 0
  <2>1. \A l \in Loops : Ordered(functors[l], ran[l] + 1, pendingFunctors[l], i)
    BY Zenon, <1>5 DEF InOrder
  <2>2. functors[y] \in Seq(QueuedFunctor)
    BY Zenon, QueueTypes
  <2>3. /\ Ordered(functors[y], (ran[y] + 1) + 1, pendingFunctors[y], i)
        /\ Front(y) = Functor("connectDestroyed", i) =>
             /\ Count(functors[y], (ran[y] + 1) + 1, Functor("connectEstablished", i)) = 0
             /\ Count(pendingFunctors[y], 1, Functor("connectEstablished", i)) = 0
    BY Zenon, <1>4, <2>1, <2>2, OrderedRun DEF Front
  <2>4. Front(y) = Functor("connectDestroyed", i) =>
          Owed(y, "connectEstablished", i)' = 0
    BY Zenon, <1>1, <1>4, <2>3 DEF Owed
  <2>5. \A l \in Loops : Ordered(functors'[l], ran'[l] + 1, pendingFunctors'[l], i)
    BY Zenon, <1>1, <2>1, <2>3
  <2> QED
    BY Zenon, <2>4, <2>5 DEF InOrder
<1>6. \A l \in Loops : ran[l] <= Len(functors[l]) => ran'[l] <= Len(functors'[l])
  BY Zenon, <1>1
<1> QED
  BY Zenon, <1>1, <1>3, <1>5, <1>6
\* removeConnection() is run in the base loop, and queues connectDestroyed().
LEMMA RunsAndQueues ==
  ASSUME TypeOK, NEW y \in Loops, RunsNext(y), NEW x \in Loops, NEW g \in QueuedFunctor,
         Appends(x, g)
  PROVE  /\ ran' \in [Loops -> Nat] /\ pendingFunctors' \in [Loops -> Seq(QueuedFunctor)]
         /\ \A l \in Loops : ran[l] <= Len(functors[l]) => ran'[l] <= Len(functors'[l])
         /\ \A l \in Loops : \A n, i :
              Owed(l, n, i)' + (IF l = y /\ Front(y) = Functor(n, i) THEN 1 ELSE 0) =
                Owed(l, n, i) + IF l = x /\ g = Functor(n, i) THEN 1 ELSE 0
         /\ \A i : InOrder(i) /\ g # Functor("connectEstablished", i) => InOrder(i)'
<1>1. /\ pendingFunctors' \in [Loops -> Seq(QueuedFunctor)]
      /\ pendingFunctors'[x] = Append(pendingFunctors[x], g)
      /\ \A l \in Loops : l # x => pendingFunctors'[l] = pendingFunctors[l]
      /\ \A l \in Loops : \A f :
           Count(pendingFunctors'[l], 1, f) =
             Count(pendingFunctors[l], 1, f) + IF l = x /\ g = f THEN 1 ELSE 0
  BY Zenon, QueueAppends
<1>2. /\ ran' \in [Loops -> Nat]
      /\ ran'[y] = ran[y] + 1 /\ ran'[y] <= Len(functors[y])
      /\ \A l \in Loops : l # y => ran'[l] = ran[l]
      /\ \A l \in Loops : \A f :
           Count(functors[l], ran[l] + 1, f) =
             Count(functors'[l], ran'[l] + 1, f) + IF l = y /\ Front(y) = f THEN 1 ELSE 0
      /\ functors' = functors
  BY Zenon, BatchRuns DEF RunsNext
<1>3. ASSUME NEW l \in Loops, NEW n, NEW i
      PROVE  Owed(l, n, i)' + (IF l = y /\ Front(y) = Functor(n, i) THEN 1 ELSE 0) =
               Owed(l, n, i) + IF l = x /\ g = Functor(n, i) THEN 1 ELSE 0
  <2> DEFINE c == IF l = y /\ Front(y) = Functor(n, i) THEN 1 ELSE 0
             d == IF l = x /\ g = Functor(n, i) THEN 1 ELSE 0
             b == Count(functors'[l], ran'[l] + 1, Functor(n, i))
             q == Count(pendingFunctors[l], 1, Functor(n, i))
  <2>1. c \in {0, 1} /\ d \in {0, 1}
    OBVIOUS
  <2>2. /\ Count(functors[l], ran[l] + 1, Functor(n, i)) = b + c
        /\ Count(pendingFunctors'[l], 1, Functor(n, i)) = q + d
    BY Zenon, <1>1, <1>2
  <2>3. b \in Nat /\ q \in Nat
    <3>1. 1 \in Nat /\ \A a \in Nat : a + 1 \in Nat
      OBVIOUS
    <3>2. ran'[l] + 1 \in Nat /\ functors'[l] = functors[l]
      BY Zenon, <1>2, <3>1
    <3>3. Len(functors[l]) \in Nat /\ Len(pendingFunctors[l]) \in Nat
      BY Zenon, QueueTypes
    <3> QED
      BY Zenon, <3>1, <3>2, <3>3, CountNat
  <2>4. Owed(l, n, i)' = b + (q + d) /\ Owed(l, n, i) = (b + c) + q
    BY Zenon, <2>2 DEF Owed
  <2> HIDE DEF b, q, c, d
  <2>5. (b + (q + d)) + c = ((b + c) + q) + d
    BY <2>1, <2>3
  <2> QED
    BY Zenon, <2>4, <2>5 DEF c, d
<1>4. /\ ran[y] + 1 \in Nat /\ ran[y] + 1 <= Len(functors[y])
  BY QueueTypes DEF RunsNext
<1>5. ASSUME NEW i, InOrder(i), g # Functor("connectEstablished", i), NEW l \in Loops
      PROVE  Ordered(functors'[l], ran'[l] + 1, pendingFunctors'[l], i)
  <2>1. Ordered(functors[l], ran[l] + 1, pendingFunctors[l], i)
    BY Zenon, <1>5 DEF InOrder
  <2>2. functors[l] \in Seq(QueuedFunctor) /\ pendingFunctors[l] \in Seq(QueuedFunctor)
    BY Zenon, QueueTypes
  <2>3. Ordered(functors[l], ran'[l] + 1, pendingFunctors[l], i)
    <3>1. CASE l = y
      BY Zenon, <1>2, <1>4, <2>1, <2>2, <3>1, OrderedRun
    <3>2. CASE l # y
      BY Zenon, <1>2, <2>1, <3>2
    <3> QED
      BY Zenon, <3>1, <3>2
  <2>4. ran'[l] + 1 \in Nat \ {0}
    <3>1. ran'[l] \in Nat
      BY Zenon, <1>2
    <3> QED
      BY <3>1
  <2>5. CASE l = x
    <3>1. Ordered(functors[l], ran'[l] + 1, Append(pendingFunctors[l], g), i)
      BY Zenon, <1>5, <2>2, <2>3, <2>4, OrderedAppend
    <3> QED
      BY Zenon, <1>1, <1>2, <2>5, <3>1
  <2>6. CASE l # x
    BY Zenon, <1>1, <1>2, <2>3, <2>6
  <2> QED
    BY Zenon, <2>5, <2>6
<1>6. \A l \in Loops : ran[l] <= Len(functors[l]) => ran'[l] <= Len(functors'[l])
  BY Zenon, <1>2
<1> QED
  BY Zenon, <1>1, <1>2, <1>3, <1>5, <1>6 DEF InOrder

\* doPendingFunctors() takes the queue.
LEMMA Takes ==
  ASSUME TypeOK, NEW x \in Loops, functors[x] = <<>>, ran[x] = 0, ran' = ran,
         functors' = [functors EXCEPT ![x] = pendingFunctors[x]],
         pendingFunctors' = [pendingFunctors EXCEPT ![x] = <<>>]
  PROVE  /\ functors' \in [Loops -> Seq(QueuedFunctor)]
         /\ pendingFunctors' \in [Loops -> Seq(QueuedFunctor)]
         /\ functors'[x] = pendingFunctors[x]
         /\ \A l \in Loops : l # x => functors'[l] = functors[l]
         /\ \A l \in Loops : \A n, i : Owed(l, n, i)' = Owed(l, n, i)
         /\ \A i : InOrder(i) => InOrder(i)'
<1>1. /\ functors \in [Loops -> Seq(QueuedFunctor)]
      /\ pendingFunctors \in [Loops -> Seq(QueuedFunctor)]
  BY Zenon DEF TypeOK
<1>2. /\ functors' \in [Loops -> Seq(QueuedFunctor)]
      /\ pendingFunctors' \in [Loops -> Seq(QueuedFunctor)]
      /\ functors'[x] = pendingFunctors[x] /\ pendingFunctors'[x] = <<>>
      /\ \A l \in Loops : l # x => /\ functors'[l] = functors[l]
                                   /\ pendingFunctors'[l] = pendingFunctors[l]
  BY <1>1
<1>3. 0 + 1 = 1 /\ 1 \in Nat /\ 0 \in Nat /\ Len(<<>>) = 0 /\ 1 .. 0 = {}
  OBVIOUS
<1>4. \A f : Count(<<>>, 1, f) = 0
  BY Zenon, <1>3, CountNat
<1>5. ASSUME NEW l \in Loops, NEW n, NEW i
      PROVE  Owed(l, n, i)' = Owed(l, n, i)
  <2>1. CASE l = x
    <3>1. /\ Owed(x, n, i) = 0 + Count(pendingFunctors[x], 1, Functor(n, i))
          /\ Owed(x, n, i)' = Count(pendingFunctors[x], 1, Functor(n, i)) + 0
      BY Zenon, <1>2, <1>3, <1>4 DEF Owed
    <3>2. Count(pendingFunctors[x], 1, Functor(n, i)) \in Nat
      BY Zenon, OwedNat
    <3> QED
      BY <2>1, <3>1, <3>2
  <2>2. CASE l # x
    BY Zenon, <1>2, <2>2 DEF Owed
  <2> QED
    BY Zenon, <2>1, <2>2
<1>6. ASSUME NEW i, InOrder(i), NEW l \in Loops
      PROVE  Ordered(functors'[l], ran'[l] + 1, pendingFunctors'[l], i)
  <2>1. Ordered(functors[l], ran[l] + 1, pendingFunctors[l], i)
    BY Zenon, <1>6 DEF InOrder
  <2>2. CASE l = x
    <3>1. Ordered(<<>>, 1, pendingFunctors[x], i)
      BY Zenon, <1>3, <2>1, <2>2
    <3>2. Ordered(pendingFunctors[x], 1, <<>>, i)
      BY Zenon, <3>1, QueueTypes, OrderedTake
    <3> QED
      BY Zenon, <1>2, <1>3, <2>2, <3>2
  <2>3. CASE l # x
    BY Zenon, <1>2, <2>1, <2>3
  <2> QED
    BY Zenon, <2>2, <2>3
<1> QED
  BY Zenon, <1>2, <1>5, <1>6 DEF InOrder
\* A batch is done; a loop that ends drops its queue.
LEMMA Dones ==
  ASSUME TypeOK, NEW x \in Loops, ran[x] = Len(functors[x]),
         functors' = [functors EXCEPT ![x] = <<>>], ran' = [ran EXCEPT ![x] = 0],
         NEW drop \in BOOLEAN,
         pendingFunctors' = IF drop THEN [pendingFunctors EXCEPT ![x] = <<>>]
                                    ELSE pendingFunctors
  PROVE  /\ functors' \in [Loops -> Seq(QueuedFunctor)] /\ ran' \in [Loops -> Nat]
         /\ pendingFunctors' \in [Loops -> Seq(QueuedFunctor)]
         /\ functors'[x] = <<>> /\ ran'[x] = 0
         /\ drop => pendingFunctors'[x] = <<>>
         /\ ~drop => pendingFunctors' = pendingFunctors
         /\ \A l \in Loops : l # x => /\ functors'[l] = functors[l] /\ ran'[l] = ran[l]
                                      /\ pendingFunctors'[l] = pendingFunctors[l]
         /\ \A l \in Loops : \A n, i :
              Owed(l, n, i)' = IF drop /\ l = x THEN 0 ELSE Owed(l, n, i)
         /\ \A i : InOrder(i) => InOrder(i)'
<1>1. /\ functors \in [Loops -> Seq(QueuedFunctor)] /\ ran \in [Loops -> Nat]
      /\ pendingFunctors \in [Loops -> Seq(QueuedFunctor)]
  BY Zenon DEF TypeOK
<1>2. /\ functors' \in [Loops -> Seq(QueuedFunctor)] /\ ran' \in [Loops -> Nat]
      /\ functors'[x] = <<>> /\ ran'[x] = 0
      /\ \A l \in Loops : l # x => functors'[l] = functors[l] /\ ran'[l] = ran[l]
  BY <1>1
<1>3. /\ pendingFunctors' \in [Loops -> Seq(QueuedFunctor)]
      /\ drop => pendingFunctors'[x] = <<>>
      /\ ~drop => pendingFunctors' = pendingFunctors
      /\ \A l \in Loops : l # x => pendingFunctors'[l] = pendingFunctors[l]
  BY <1>1
<1>4. 0 + 1 = 1 /\ 1 \in Nat /\ 0 \in Nat /\ Len(<<>>) = 0 /\ 1 .. 0 = {} /\ 0 + 0 = 0
  OBVIOUS
<1>5. \A f : Count(<<>>, 1, f) = 0
  BY Zenon, <1>4, CountNat
<1>6. \A f : Count(functors[x], ran[x] + 1, f) = 0
  <2>1. \A k \in ran[x] + 1 .. Len(functors[x]) : FALSE
    BY QueueTypes
  <2> QED
    BY Zenon, <2>1, QueueTypes, CountNat
<1>7. ASSUME NEW l \in Loops, NEW n, NEW i
      PROVE  Owed(l, n, i)' = IF drop /\ l = x THEN 0 ELSE Owed(l, n, i)
  <2>1. CASE l = x /\ drop
    BY Zenon, <1>2, <1>3, <1>4, <1>5, <2>1 DEF Owed
  <2>2. CASE l = x /\ ~drop
    <3>1. Owed(x, n, i) = 0 + Count(pendingFunctors[x], 1, Functor(n, i))
      BY Zenon, <1>6 DEF Owed
    <3>2. Owed(x, n, i)' = 0 + Count(pendingFunctors[x], 1, Functor(n, i))
      BY Zenon, <1>2, <1>3, <1>4, <1>5, <2>2 DEF Owed
    <3> QED
      BY Zenon, <2>2, <3>1, <3>2
  <2>3. CASE l # x
    BY Zenon, <1>2, <1>3, <2>3 DEF Owed
  <2> QED
    BY Zenon, <2>1, <2>2, <2>3
<1>8. ASSUME NEW i, InOrder(i), NEW l \in Loops
      PROVE  Ordered(functors'[l], ran'[l] + 1, pendingFunctors'[l], i)
  <2>1. Ordered(functors[l], ran[l] + 1, pendingFunctors[l], i)
    BY Zenon, <1>8 DEF InOrder
  <2>2. CASE l = x /\ drop
    BY Zenon, <1>2, <1>3, <1>4, <2>2, QueueTypes, OrderedTake
  <2>3. CASE l = x /\ ~drop
    <3>1. Ordered(<<>>, 1, pendingFunctors[x], i)
      BY Zenon, <2>1, <2>3, QueueTypes, OrderedTake
    <3> QED
      BY Zenon, <1>2, <1>3, <1>4, <2>3, <3>1
  <2>4. CASE l # x
    BY Zenon, <1>2, <1>3, <2>1, <2>4
  <2> QED
    BY Zenon, <2>2, <2>3, <2>4
<1> QED
  BY Zenon, <1>2, <1>3, <1>7, <1>8 DEF InOrder

-----------------------------------------------------------------------------
(***************************************************************************)
(* What a step leaves alone.                                               *)
(***************************************************************************)

\* TypeOK in parts.
StartType ==
  /\ started \in BOOLEAN /\ poolStarted \in BOOLEAN /\ listenning \in BOOLEAN
  /\ caller \in [Callers -> {"not yet", "set", "pool", "listen", "done"}]
  /\ numThreads \in 0 .. MaxThreads
PoolType ==
  /\ next \in 0 .. MaxThreads
  /\ nextConnId \in 1 .. MaxConnections + 1
  /\ connections \subseteq Conns
  /\ server \in {"up", "dying", "dead"}
PcType ==
  /\ pc \in [Loops -> {"poll", "functors", "exited"}]
  /\ quit \in [Loops -> BOOLEAN]
QueueType ==
  /\ pendingFunctors \in [Loops -> Seq(QueuedFunctor)]
  /\ functors \in [Loops -> Seq(QueuedFunctor)]
  /\ ran \in [Loops -> Nat]
ConnType ==
  /\ state \in [Conns -> {"none", "kConnecting", "kConnected", "kDisconnected"}]
  /\ loopOf \in [Conns -> Loops]
  /\ registered \in [Conns -> BOOLEAN] /\ closed \in [Conns -> BOOLEAN]
  /\ ups \in [Conns -> Nat] /\ downs \in [Conns -> Nat]

LEMMA TypeParts == TypeOK <=> StartType /\ PoolType /\ PcType /\ QueueType /\ ConnType
  BY Zenon DEF TypeOK, StartType, PoolType, PcType, QueueType, ConnType
LEMMA TypeNext == StartType' /\ PoolType' /\ PcType' /\ QueueType' /\ ConnType' => TypeOK'
  BY Zenon DEF TypeOK, StartType, PoolType, PcType, QueueType, ConnType
LEMMA StartTypeFrame ==
  ASSUME StartType, UNCHANGED <<startVars, listenning>> PROVE StartType'
  BY Zenon DEF StartType, startVars
LEMMA PoolTypeFrame ==
  ASSUME PoolType, UNCHANGED <<poolVars, server>> PROVE PoolType'
  BY Zenon DEF PoolType, poolVars
LEMMA PcTypeFrame == ASSUME PcType, UNCHANGED <<pc, quit>> PROVE PcType'
  BY Zenon DEF PcType
LEMMA QueueTypeFrame ==
  ASSUME QueueType, UNCHANGED <<pendingFunctors, functors, ran>> PROVE QueueType'
  BY Zenon DEF QueueType
LEMMA ConnTypeFrame == ASSUME ConnType, UNCHANGED connVars PROVE ConnType'
  BY Zenon DEF ConnType, connVars

\* The server only gets nearer to its end.
Eases ==
  /\ server' # "dead" => server # "dead"
  /\ server' # "dead" \/ numThreads' = 0 => server # "dead" \/ numThreads = 0
  /\ server' = "up" => server = "up"
  /\ server' = "up" \/ numThreads' = 0 => server = "up" \/ numThreads = 0

\* A connection that a step does not touch.
Same(i) ==
  /\ state'[i] = state[i] /\ registered'[i] = registered[i]
  /\ i \in connections' <=> i \in connections
  /\ ups'[i] = ups[i] /\ downs'[i] = downs[i] /\ loopOf'[i] = loopOf[i]
  /\ i >= nextConnId' <=> i >= nextConnId
SameOwed(i) ==
  \A l \in Loops :
    /\ Owed(l, "connectEstablished", i)' = Owed(l, "connectEstablished", i)
    /\ Owed(l, "connectDestroyed", i)' = Owed(l, "connectDestroyed", i)
    /\ Owed(l, "removeConnection", i)' = Owed(l, "removeConnection", i)

LEMMA LoopsType == base \in Loops /\ \A l \in 1 .. MaxThreads : l \in Loops /\ l # base
  BY ServerAssumption DEF base, Loops

LEMMA ConnFrame ==
  ASSUME TypeOK, NEW i \in Conns, ConnInv(i), Same(i), SameOwed(i), InOrder(i)', Eases
  PROVE  ConnInv(i)'
<1>1. loopOf[i] \in Loops /\ loopOf'[i] = loopOf[i] /\ base \in Loops
  BY Zenon, LoopsType DEF TypeOK, Same
<1>2. Est(i)' = Est(i) /\ Des(i)' = Des(i) /\ Rem(i)' = Rem(i)
  BY Zenon, <1>1 DEF Est, Des, Rem, SameOwed
<1>3. NoStray(i)'
  BY Zenon, <1>1 DEF NoStray, SameOwed, ConnInv
<1>4. TaleOf(i)'
  BY <1>2 DEF TaleOf, Tale, Same, Eases, ConnInv
<1>5. (state[i] = "none" <=> i >= nextConnId)'
  BY Zenon DEF ConnInv, Same
<1> QED
  BY Zenon, <1>3, <1>4, <1>5 DEF ConnInv
\* A loop that a step does not touch.
LEMMA LoopFrame ==
  ASSUME NEW l \in Loops, LoopInv(l), pc'[l] = pc[l], quit'[l] = quit[l],
         functors'[l] = functors[l], ran'[l] = ran[l],
         server' = "up" => server = "up", connections = {} => connections' = {},
         numThreads' = numThreads
  PROVE  LoopInv(l)'
  BY Zenon DEF LoopInv

\* Once start() has been called, nothing of StartInv but next_ matters.
LEMMA StartFrame ==
  ASSUME StartInv, numThreads' = numThreads, next' = next,
         (\E t \in Callers : caller'[t] # "not yet")
           \/ /\ \A t \in Callers : caller'[t] = caller[t]
              /\ listenning' = listenning /\ nextConnId' = nextConnId
              /\ pendingFunctors' = pendingFunctors /\ functors' = functors
  PROVE  StartInv'
<1>1. (next = 0 \/ next < numThreads)'
  BY Zenon DEF StartInv
<1>2. CASE \E t \in Callers : caller'[t] # "not yet"
  BY Zenon, <1>1, <1>2 DEF StartInv
<1>3. CASE /\ \A t \in Callers : caller'[t] = caller[t]
           /\ listenning' = listenning /\ nextConnId' = nextConnId
           /\ pendingFunctors' = pendingFunctors /\ functors' = functors
  BY Zenon, <1>1, <1>3 DEF StartInv
<1> QED
  BY Zenon, <1>2, <1>3

\* Before start() is called there is no connection.
LEMMA NoneBeforeStart ==
  ASSUME IInv, NEW i \in Conns, state[i] # "none"
  PROVE  \E t \in Callers : caller[t] # "not yet"
<1>1. i >= 1
  BY DEF Conns
<1>2. state[i] = "none" <=> i >= nextConnId
  BY Zenon DEF IInv, ConnInv
<1>3. (\A t \in Callers : caller[t] = "not yet") => nextConnId = 1
  BY Zenon DEF IInv, StartInv
<1> QED
  BY Zenon, <1>1, <1>2, <1>3

\* IInv, piece by piece.
LEMMA IInvParts ==
  ASSUME IInv
  PROVE  /\ TypeOK /\ StartInv
         /\ StartType /\ PoolType /\ PcType /\ QueueType /\ ConnType
         /\ \A l \in Loops : LoopInv(l)
         /\ \A i \in Conns : ConnInv(i) /\ InOrder(i)
  BY Zenon, TypeParts DEF IInv, ConnInv

-----------------------------------------------------------------------------
(***************************************************************************)
(* Each step keeps the invariant.                                          *)
(***************************************************************************)

LEMMA InitIInv == Init => IInv
<1> SUFFICES ASSUME Init PROVE IInv
  BY Zenon
<1>1. /\ 0 \in Nat /\ 0 \in 0 .. MaxThreads /\ 1 \in 1 .. MaxConnections + 1
      /\ <<>> \in Seq(QueuedFunctor) /\ Len(<<>>) = 0 /\ 0 <= 0
  BY ServerAssumption
<1>2. StartType /\ PoolType
  BY Zenon, <1>1 DEF Init, StartType, PoolType
<1>3. PcType /\ QueueType
  BY Zenon, <1>1 DEF Init, PcType, QueueType
<1>4. ConnType
  BY Zenon, <1>1, LoopsType DEF Init, ConnType
<1>5. TypeOK
  BY Zenon, <1>2, <1>3, <1>4, TypeParts
<1>6. ASSUME NEW l \in Loops
      PROVE  functors[l] = <<>> /\ ran[l] = 0 /\ pendingFunctors[l] = <<>> /\ ~quit[l]
  BY Zenon DEF Init
<1>7. StartInv
  BY Zenon, <1>6 DEF Init, StartInv
<1>8. ASSUME NEW l \in Loops PROVE LoopInv(l)
  BY Zenon, <1>1, <1>6 DEF LoopInv
<1>9. 0 + 1 = 1 /\ 1 \in Nat /\ 0 \in Nat /\ Len(<<>>) = 0 /\ 1 .. 0 = {} /\ 0 + 0 = 0
  OBVIOUS
<1>10. \A f : Count(<<>>, 1, f) = 0
  BY Zenon, <1>9, CountNat
<1>11. \A l \in Loops : \A n, i : Owed(l, n, i) = 0
  BY Zenon, <1>6, <1>9, <1>10 DEF Owed
<1>12. ASSUME NEW i \in Conns PROVE ConnInv(i)
  <2>1. /\ state[i] = "none" /\ loopOf[i] = base /\ registered[i] = FALSE
        /\ i \notin connections /\ ups[i] = 0 /\ downs[i] = 0 /\ server = "up"
        /\ nextConnId = 1 /\ loopOf[i] \in Loops
    BY Zenon, LoopsType DEF Init
  <2>2. NoStray(i)
    BY Zenon, <1>11 DEF NoStray
  <2>3. InOrder(i)
    <3>1. <<>> \in Seq(QueuedFunctor)
      OBVIOUS
    <3> QED
      BY Zenon, <1>6, <1>9, <3>1, OrderedTake DEF InOrder
  <2>4. Est(i) = 0 /\ Des(i) = 0 /\ Rem(i) = 0
    BY Zenon, <1>11, <2>1 DEF Est, Des, Rem
  <2>5. TaleOf(i)
    BY <2>1, <2>4 DEF TaleOf, Tale
  <2>6. i >= nextConnId
    BY <2>1 DEF Conns
  <2> QED
    BY Zenon, <2>1, <2>2, <2>3, <2>5, <2>6 DEF ConnInv
<1> QED
  BY Zenon, <1>5, <1>7, <1>8, <1>12 DEF IInv

\* Steps that touch no connection, no queue and no loop: setThreadNum(), most of
\* start(), and the begin of the destructor.
LEMMA QuietPreserves ==
  ASSUME IInv, TypeOK', StartInv', Eases,
         UNCHANGED <<pc, quit, functors, ran, pendingFunctors, state, registered, ups, downs,
                     loopOf, connections, nextConnId>>,
         \A l \in Loops : quit[l] => numThreads' = numThreads
  PROVE  IInv'
<1>1. /\ TypeOK /\ \A l \in Loops : LoopInv(l)
      /\ \A i \in Conns : ConnInv(i) /\ InOrder(i)
  BY Zenon, IInvParts
<1>2. ASSUME NEW l \in Loops PROVE LoopInv(l)'
  BY Zenon, <1>1 DEF LoopInv, Eases
<1>3. ASSUME NEW i \in Conns PROVE ConnInv(i)'
  <2>1. Same(i)
    BY Zenon DEF Same
  <2>2. SameOwed(i) /\ InOrder(i)'
    BY Zenon, <1>1, Steady DEF SameOwed
  <2> QED
    BY Zenon, <1>1, <2>1, <2>2, ConnFrame
<1> QED
  BY Zenon, <1>2, <1>3 DEF IInv
\* setThreadNum(), before anything has been started.
LEMMA SetThreadNumPreserves ==
  ASSUME IInv, NEW n \in 1 .. MaxThreads, SetThreadNum(n)
  PROVE  IInv'
<1>1. /\ StartInv /\ StartType /\ PoolType /\ PcType /\ QueueType /\ ConnType
      /\ \A l \in Loops : LoopInv(l)
  BY Zenon, IInvParts
<1>2. /\ server = "up" /\ (\A t \in Callers : caller[t] = "not yet") /\ numThreads' = n
      /\ started' = started /\ caller' = caller /\ poolStarted' = poolStarted
      /\ listenning' = listenning
      /\ UNCHANGED <<poolVars, server>> /\ UNCHANGED <<pc, quit>>
      /\ UNCHANGED <<pendingFunctors, functors, ran>> /\ UNCHANGED connVars
  BY Zenon DEF SetThreadNum, BaseFree, loopVars
<1>3. /\ pc' = pc /\ quit' = quit /\ functors' = functors /\ ran' = ran
      /\ pendingFunctors' = pendingFunctors /\ state' = state /\ registered' = registered
      /\ ups' = ups /\ downs' = downs /\ loopOf' = loopOf /\ connections' = connections
      /\ nextConnId' = nextConnId /\ next' = next /\ server' = server
  BY Zenon, <1>2 DEF poolVars, connVars
<1>4. n # 0 /\ n \in 0 .. MaxThreads
  BY ServerAssumption
<1>5. StartType'
  BY Zenon, <1>1, <1>2, <1>4 DEF StartType
<1>6. TypeOK'
  BY Zenon, <1>1, <1>2, <1>5, TypeNext, PoolTypeFrame, PcTypeFrame, QueueTypeFrame,
     ConnTypeFrame
<1>7. StartInv'
  BY Zenon, <1>1, <1>2, <1>3 DEF StartInv
<1>8. Eases
  BY Zenon, <1>2, <1>3, <1>4 DEF Eases
<1>9. \A l \in Loops : quit[l] => numThreads' = numThreads
  BY Zenon, <1>1, <1>2 DEF LoopInv
<1> QED
  BY Zenon, <1>3, <1>6, <1>7, <1>8, <1>9, QuietPreserves

\* The steps of start() before listen().
LEMMA StartPreserves ==
  ASSUME IInv, NEW t \in Callers, StartCheck(t) \/ StartSet(t) \/ StartPool(t)
  PROVE  IInv'
<1>1. /\ StartInv /\ StartType /\ PoolType /\ PcType /\ QueueType /\ ConnType
  BY Zenon, IInvParts
<1>2. /\ numThreads' = numThreads /\ listenning' = listenning
      /\ UNCHANGED <<poolVars, server>> /\ UNCHANGED <<pc, quit>>
      /\ UNCHANGED <<pendingFunctors, functors, ran>> /\ UNCHANGED connVars
  BY Zenon DEF StartCheck, StartSet, StartPool, loopVars
<1>3. /\ pc' = pc /\ quit' = quit /\ functors' = functors /\ ran' = ran
      /\ pendingFunctors' = pendingFunctors /\ state' = state /\ registered' = registered
      /\ ups' = ups /\ downs' = downs /\ loopOf' = loopOf /\ connections' = connections
      /\ nextConnId' = nextConnId /\ next' = next /\ server' = server
  BY Zenon, <1>2 DEF poolVars, connVars
<1>4. PICK w \in {"set", "pool", "listen"} :
        /\ caller' = [caller EXCEPT ![t] = w]
        /\ started' \in {started, TRUE} /\ poolStarted' \in {poolStarted, TRUE}
  BY Zenon DEF StartCheck, StartSet, StartPool
<1>5. /\ caller' \in [Callers -> {"not yet", "set", "pool", "listen", "done"}]
      /\ caller'[t] # "not yet"
  BY Zenon, <1>1, <1>4 DEF StartType
<1>6. started' \in BOOLEAN /\ poolStarted' \in BOOLEAN
  BY Zenon, <1>1, <1>4 DEF StartType
<1>7. StartType'
  BY Zenon, <1>1, <1>2, <1>5, <1>6 DEF StartType
<1>8. TypeOK'
  BY Zenon, <1>1, <1>2, <1>7, TypeNext, PoolTypeFrame, PcTypeFrame, QueueTypeFrame,
     ConnTypeFrame
<1>9. StartInv'
  BY Zenon, <1>1, <1>2, <1>3, <1>5, StartFrame
<1>10. Eases
  BY Zenon, <1>2, <1>3 DEF Eases
<1> QED
  BY Zenon, <1>2, <1>3, <1>8, <1>9, <1>10, QuietPreserves

\* The peer closes, the destructor begins or ends, or nothing happens.
LEMMA ServerPreserves ==
  ASSUME IInv, \/ \E i \in Conns : PeerCloses(i)
               \/ Destroy
               \/ Destroyed
               \/ UNCHANGED vars
  PROVE  IInv'
<1>1. /\ StartInv /\ StartType /\ PoolType /\ PcType /\ QueueType /\ ConnType
  BY Zenon, IInvParts
<1>2. /\ UNCHANGED startVars /\ UNCHANGED poolVars /\ UNCHANGED <<pc, quit>>
      /\ UNCHANGED <<pendingFunctors, functors, ran>>
      /\ state' = state /\ registered' = registered /\ ups' = ups /\ downs' = downs
      /\ loopOf' = loopOf
  BY Zenon DEF PeerCloses, Destroy, Destroyed, vars, loopVars, connVars
<1>3. /\ pc' = pc /\ quit' = quit /\ functors' = functors /\ ran' = ran
      /\ pendingFunctors' = pendingFunctors /\ connections' = connections
      /\ nextConnId' = nextConnId /\ next' = next
      /\ numThreads' = numThreads /\ started' = started /\ caller' = caller
      /\ poolStarted' = poolStarted
  BY Zenon, <1>2 DEF startVars, poolVars
<1>4. /\ \/ server' = server
         \/ server = "up" /\ server' = "dying"
         \/ server = "dying" /\ server' = "dead"
      /\ listenning' = listenning \/ listenning' = FALSE
      /\ closed' = closed \/ \E i \in Conns : closed' = [closed EXCEPT ![i] = TRUE]
  BY Zenon DEF PeerCloses, Destroy, Destroyed, vars, BaseFree, connVars
<1>5. StartType'
  BY Zenon, <1>1, <1>3, <1>4 DEF StartType
<1>6. PoolType'
  BY Zenon, <1>1, <1>3, <1>4 DEF PoolType
<1>7. closed' \in [Conns -> BOOLEAN]
  <2>1. closed \in [Conns -> BOOLEAN]
    BY Zenon, <1>1 DEF ConnType
  <2> QED
    BY Zenon, <1>4, <2>1
<1>8. ConnType'
  BY Zenon, <1>1, <1>2, <1>7 DEF ConnType
<1>9. TypeOK'
  BY Zenon, <1>1, <1>2, <1>5, <1>6, <1>8, TypeNext, PcTypeFrame, QueueTypeFrame
<1>10. StartInv'
  <2>1. listenning' => listenning
    BY Zenon, <1>4
  <2> QED
    BY Zenon, <1>1, <1>3, <2>1 DEF StartInv
<1>11. Eases
  <2>1. "up" # "dying" /\ "dying" # "dead" /\ "up" # "dead"
    OBVIOUS
  <2> QED
    BY Zenon, <1>3, <1>4, <2>1 DEF Eases
<1> QED
  BY Zenon, <1>2, <1>3, <1>9, <1>10, <1>11, QuietPreserves
\* A loop that is not touched, or that runs a functor of its batch.
LEMMA LoopRuns ==
  ASSUME NEW l \in Loops, LoopInv(l), pc' = pc, quit' = quit, functors' = functors,
         ran[l] <= Len(functors[l]) => ran'[l] <= Len(functors'[l]),
         ran'[l] = ran[l] \/ pc[l] = "functors",
         server' = server, connections = {} => connections' = {}, numThreads' = numThreads
  PROVE  LoopInv(l)'
  BY Zenon DEF LoopInv

\* Steps that touch no connection: listen() is queued, or run.
LEMMA NoConnectionTouched ==
  ASSUME IInv, server' = server, numThreads' = numThreads,
         UNCHANGED connVars, UNCHANGED poolVars,
         \A i \in Conns : SameOwed(i) /\ (InOrder(i) => InOrder(i)')
  PROVE  \A i \in Conns : ConnInv(i)'
<1> TAKE i \in Conns
<1>1. TypeOK /\ ConnInv(i) /\ InOrder(i)
  BY Zenon, IInvParts
<1>2. /\ state' = state /\ registered' = registered /\ ups' = ups /\ downs' = downs
      /\ loopOf' = loopOf /\ connections' = connections /\ nextConnId' = nextConnId
  BY Zenon DEF connVars, poolVars
<1>3. Same(i)
  BY Zenon, <1>2 DEF Same
<1>4. Eases
  BY Zenon DEF Eases
<1> QED
  BY Zenon, <1>1, <1>3, <1>4, ConnFrame

LEMMA StartListenPreserves ==
  ASSUME IInv, NEW t \in Callers, StartListen(t)
  PROVE  IInv'
<1>1. /\ TypeOK /\ StartInv /\ StartType /\ PoolType /\ PcType /\ QueueType /\ ConnType
      /\ \A l \in Loops : LoopInv(l)
  BY Zenon, IInvParts
<1>2. /\ numThreads' = numThreads /\ started' = started /\ poolStarted' = poolStarted
      /\ server' = server /\ caller' = [caller EXCEPT ![t] = "done"]
      /\ listenning' \in {listenning, TRUE}
      /\ UNCHANGED poolVars /\ UNCHANGED <<pc, quit>> /\ functors' = functors /\ ran' = ran
      /\ UNCHANGED connVars /\ UNCHANGED <<poolVars, server>>
  BY Zenon DEF StartListen, loopVars
<1>3. \/ pendingFunctors' = pendingFunctors
      \/ Appends(base, Functor("listen", 0))
  BY Zenon DEF StartListen, Appends
<1>4. /\ caller' \in [Callers -> {"not yet", "set", "pool", "listen", "done"}]
      /\ caller'[t] # "not yet"
  BY Zenon, <1>1, <1>2 DEF StartType
<1>5. base \in Loops /\ Functor("listen", 0) \in QueuedFunctor
  <2>1. "listen" \in Names /\ 0 \in Conns \cup {0}
    BY DEF Names
  <2> QED
    BY Zenon, <2>1, LoopsType, FunctorsApart
<1>6. /\ pendingFunctors' \in [Loops -> Seq(QueuedFunctor)]
      /\ \A i \in Conns : SameOwed(i) /\ (InOrder(i) => InOrder(i)')
  <2>1. CASE pendingFunctors' = pendingFunctors
    BY Zenon, <1>1, <1>2, <2>1, Steady DEF QueueType, SameOwed
  <2>2. CASE Appends(base, Functor("listen", 0))
    <3>1. /\ \A i : /\ Functor("listen", 0) # Functor("connectEstablished", i)
                    /\ Functor("listen", 0) # Functor("connectDestroyed", i)
                    /\ Functor("listen", 0) # Functor("removeConnection", i)
      BY FunctorsApart
    <3>2. /\ pendingFunctors' \in [Loops -> Seq(QueuedFunctor)]
          /\ \A l \in Loops : \A n, i :
               Owed(l, n, i)' = Owed(l, n, i)
                 + IF l = base /\ Functor("listen", 0) = Functor(n, i) THEN 1 ELSE 0
          /\ \A i : InOrder(i) => InOrder(i)'
      BY Zenon, <1>1, <1>2, <1>5, <2>2, <3>1, Queues
    <3>3. \A l \in Loops : \A n, i : Owed(l, n, i) \in Nat
      BY Zenon, <1>1, OwedNat
    <3>4. \A k \in Nat : k + 0 = k
      OBVIOUS
    <3>5. ASSUME NEW l \in Loops, NEW n, NEW i, Functor("listen", 0) # Functor(n, i)
          PROVE  Owed(l, n, i)' = Owed(l, n, i)
      <4>1. Owed(l, n, i)' = Owed(l, n, i) + 0
        BY Zenon, <3>2, <3>5
      <4> QED
        BY Zenon, <3>3, <3>4, <4>1
    <3>6. \A i : SameOwed(i)
      BY Zenon, <3>1, <3>5 DEF SameOwed
    <3> QED
      BY Zenon, <3>2, <3>6
  <2> QED
    BY Zenon, <1>3, <2>1, <2>2
<1>7. StartType'
  BY Zenon, <1>1, <1>2, <1>4 DEF StartType
<1>8. QueueType'
  BY Zenon, <1>1, <1>2, <1>6 DEF QueueType
<1>9. PoolType' /\ PcType' /\ ConnType'
  BY Zenon, <1>1, <1>2, PoolTypeFrame, PcTypeFrame, ConnTypeFrame
<1>10. TypeOK'
  BY Zenon, <1>7, <1>8, <1>9, TypeNext
<1>11. StartInv'
  <2>1. next' = next
    BY Zenon, <1>2 DEF poolVars
  <2> QED
    BY Zenon, <1>1, <1>2, <1>4, <2>1, StartFrame
<1>12. \A i \in Conns : ConnInv(i)'
  BY Zenon, <1>2, <1>6, NoConnectionTouched
<1>13. \A l \in Loops : LoopInv(l)'
  <2>1. pc' = pc /\ quit' = quit /\ connections' = connections
    BY Zenon, <1>2 DEF poolVars
  <2> QED
    BY Zenon, <1>1, <1>2, <2>1, LoopRuns
<1> QED
  BY Zenon, <1>10, <1>11, <1>12, <1>13 DEF IInv

\* The next functor of a batch, and what is left of it.
LEMMA NextIsFront ==
  ASSUME NEW l, NEW n, NEW i, IsNext(l, n, i), functors' = functors,
         ran' = [ran EXCEPT ![l] = @ + 1]
  PROVE  pc[l] = "functors" /\ RunsNext(l) /\ Front(l) = Functor(n, i)
  BY Zenon DEF IsNext, RunsNext, Front

\* A loop that runs a batch does it after start() has been called.
LEMMA RunsAfterStart ==
  ASSUME IInv, NEW l \in Loops, RunsNext(l)
  PROVE  \E t \in Callers : caller[t] # "not yet"
<1>1. TypeOK /\ StartInv
  BY Zenon, IInvParts
<1>2. functors[l] # <<>>
  <2>1. ran[l] \in Nat /\ ran[l] < Len(functors[l])
    BY Zenon, <1>1, QueueTypes DEF RunsNext
  <2> QED
    BY <2>1
<1> QED
  BY Zenon, <1>1, <1>2 DEF StartInv

LEMMA RunListenPreserves ==
  ASSUME IInv, RunListen
  PROVE  IInv'
<1>1. /\ TypeOK /\ StartInv /\ StartType /\ PoolType /\ PcType /\ QueueType /\ ConnType
      /\ \A l \in Loops : LoopInv(l)
  BY Zenon, IInvParts
<1>2. /\ IsNext(base, "listen", 0) /\ ran' = [ran EXCEPT ![base] = @ + 1]
      /\ listenning' = TRUE /\ UNCHANGED startVars /\ server' = server
      /\ UNCHANGED poolVars /\ UNCHANGED <<pc, quit>> /\ functors' = functors
      /\ pendingFunctors' = pendingFunctors
      /\ UNCHANGED connVars /\ UNCHANGED <<poolVars, server>>
  BY Zenon DEF RunListen
<1>3. base \in Loops
  BY Zenon, LoopsType
<1>4. pc[base] = "functors" /\ RunsNext(base) /\ Front(base) = Functor("listen", 0)
  BY Zenon, <1>2, NextIsFront
<1>5. /\ ran' \in [Loops -> Nat]
      /\ \A l \in Loops : ran[l] <= Len(functors[l]) => ran'[l] <= Len(functors'[l])
      /\ \A l \in Loops : \A n, i :
           /\ Owed(l, n, i) =
                Owed(l, n, i)' + IF l = base /\ Front(base) = Functor(n, i) THEN 1 ELSE 0
           /\ Owed(l, n, i)' \in Nat
      /\ \A i : InOrder(i) => InOrder(i)'
  BY Zenon, <1>1, <1>2, <1>3, <1>4, Runs
<1>6. \A i \in Conns : SameOwed(i)
  <2>1. /\ \A i : /\ Functor("listen", 0) # Functor("connectDestroyed", i)
                  /\ Functor("listen", 0) # Functor("connectEstablished", i)
                  /\ Functor("listen", 0) # Functor("removeConnection", i)
    BY FunctorsApart
  <2>2. \A k \in Nat : k + 0 = k
    OBVIOUS
  <2>3. ASSUME NEW l \in Loops, NEW n, NEW i, Functor("listen", 0) # Functor(n, i)
        PROVE  Owed(l, n, i)' = Owed(l, n, i)
    <3>1. Owed(l, n, i) = Owed(l, n, i)' + 0
      BY Zenon, <1>4, <1>5, <2>3
    <3> QED
      BY Zenon, <1>5, <2>2, <3>1
  <2> QED
    BY Zenon, <2>1, <2>3 DEF SameOwed
<1>7. /\ numThreads' = numThreads /\ next' = next /\ caller' = caller /\ pc' = pc
      /\ quit' = quit /\ connections' = connections /\ started' = started
      /\ poolStarted' = poolStarted
  BY Zenon, <1>2 DEF startVars, poolVars
<1>8. StartType'
  BY Zenon, <1>1, <1>2, <1>7 DEF StartType
<1>9. QueueType'
  BY Zenon, <1>1, <1>2, <1>5 DEF QueueType
<1>10. PoolType' /\ PcType' /\ ConnType'
  BY Zenon, <1>1, <1>2, PoolTypeFrame, PcTypeFrame, ConnTypeFrame
<1>11. TypeOK'
  BY Zenon, <1>8, <1>9, <1>10, TypeNext
<1>12. StartInv'
  <2>1. \E t \in Callers : caller'[t] # "not yet"
    BY Zenon, <1>3, <1>4, <1>7, RunsAfterStart
  <2> QED
    BY Zenon, <1>1, <1>7, <2>1, StartFrame
<1>13. \A i \in Conns : ConnInv(i)'
  BY Zenon, <1>2, <1>5, <1>6, <1>7, NoConnectionTouched
<1>14. \A l \in Loops : LoopInv(l)'
  <2>1. \A l \in Loops : ran'[l] = ran[l] \/ pc[l] = "functors"
    BY Zenon, <1>1, <1>2, <1>4, <1>5 DEF QueueType
  <2> QED
    BY Zenon, <1>1, <1>2, <1>5, <1>7, <2>1, LoopRuns
<1> QED
  BY Zenon, <1>11, <1>12, <1>13, <1>14 DEF IInv
-----------------------------------------------------------------------------
(***************************************************************************)
(* A functor of one connection is queued or run: the others see nothing.   *)
(***************************************************************************)

ConnNames == Names \ {"listen"}

LEMMA FunctorTypes ==
  /\ {"connectEstablished", "connectDestroyed", "removeConnection"} \subseteq ConnNames
  /\ \A n \in ConnNames, i \in Conns : Functor(n, i) \in QueuedFunctor
<1>1. /\ {"connectEstablished", "connectDestroyed", "removeConnection"} \subseteq ConnNames
      /\ ConnNames \subseteq Names
  BY DEF ConnNames, Names
<1> QED
  BY Zenon, <1>1, FunctorsApart

LEMMA QueuesFor ==
  ASSUME TypeOK, NEW x \in Loops, NEW i \in Conns, NEW n \in ConnNames,
         Appends(x, Functor(n, i)), functors' = functors, ran' = ran
  PROVE  /\ pendingFunctors' \in [Loops -> Seq(QueuedFunctor)]
         /\ \A j \in Conns : j # i => SameOwed(j) /\ (InOrder(j) => InOrder(j)')
         /\ \A l \in Loops : \A m :
              Owed(l, m, i)' = IF l = x /\ m = n THEN Owed(l, m, i) + 1 ELSE Owed(l, m, i)
         /\ InOrder(i) /\ (n # "connectEstablished" \/ Owed(x, "connectDestroyed", i) = 0)
              => InOrder(i)'
<1>1. Functor(n, i) \in QueuedFunctor
  BY Zenon, FunctorTypes
<1>2. \A m, j : Functor(n, i) = Functor(m, j) <=> n = m /\ i = j
  BY FunctorsApart
<1>3. /\ pendingFunctors' \in [Loops -> Seq(QueuedFunctor)]
      /\ \A l \in Loops : \A m, j :
           Owed(l, m, j)' = Owed(l, m, j)
             + IF l = x /\ Functor(n, i) = Functor(m, j) THEN 1 ELSE 0
      /\ \A j : /\ InOrder(j)
                /\ \/ Functor(n, i) # Functor("connectEstablished", j)
                   \/ Owed(x, "connectDestroyed", j) = 0
                => InOrder(j)'
  BY Zenon, <1>1, Queues
<1>4. \A l \in Loops : \A m, j : Owed(l, m, j) \in Nat
  BY Zenon, OwedNat
<1>5. \A k \in Nat : k + 0 = k
  OBVIOUS
<1>6. ASSUME NEW l \in Loops, NEW m, NEW j, ~(l = x /\ m = n /\ j = i)
      PROVE  Owed(l, m, j)' = Owed(l, m, j)
  <2>1. ~(l = x /\ Functor(n, i) = Functor(m, j))
    BY <1>2, <1>6
  <2>2. Owed(l, m, j)' = Owed(l, m, j) + 0
    BY Zenon, <1>3, <2>1
  <2> QED
    BY Zenon, <1>4, <1>5, <2>2
<1>7. Owed(x, n, i)' = Owed(x, n, i) + 1
  BY Zenon, <1>3
<1>8. \A l \in Loops : \A m :
        Owed(l, m, i)' = IF l = x /\ m = n THEN Owed(l, m, i) + 1 ELSE Owed(l, m, i)
  BY Zenon, <1>6, <1>7
<1>9. \A j \in Conns : j # i => SameOwed(j)
  BY Zenon, <1>6 DEF SameOwed
<1>10. ASSUME NEW j \in Conns, j # i, InOrder(j) PROVE InOrder(j)'
  <2>1. Functor(n, i) # Functor("connectEstablished", j)
    BY <1>2, <1>10
  <2> QED
    BY Zenon, <1>3, <1>10, <2>1
<1>11. InOrder(i) /\ (n # "connectEstablished" \/ Owed(x, "connectDestroyed", i) = 0)
         => InOrder(i)'
  BY Zenon, <1>2, <1>3
<1> QED
  BY Zenon, <1>3, <1>8, <1>9, <1>10, <1>11

LEMMA RunsFor ==
  ASSUME TypeOK, NEW y \in Loops, NEW i \in Conns, NEW n \in ConnNames,
         RunsNext(y), Front(y) = Functor(n, i), pendingFunctors' = pendingFunctors
  PROVE  /\ ran' \in [Loops -> Nat]
         /\ \A l \in Loops : ran[l] <= Len(functors[l]) => ran'[l] <= Len(functors'[l])
         /\ \A j \in Conns : j # i => SameOwed(j)
         /\ \A j \in Conns : InOrder(j) => InOrder(j)'
         /\ \A l \in Loops : \A m :
              /\ Owed(l, m, i) = IF l = y /\ m = n THEN Owed(l, m, i)' + 1 ELSE Owed(l, m, i)'
              /\ Owed(l, m, i)' \in Nat
         /\ InOrder(i) /\ n = "connectDestroyed" => Owed(y, "connectEstablished", i)' = 0
<1>1. \A m, j : Front(y) = Functor(m, j) <=> n = m /\ i = j
  BY FunctorsApart
<1>2. /\ ran' \in [Loops -> Nat]
      /\ \A l \in Loops : ran[l] <= Len(functors[l]) => ran'[l] <= Len(functors'[l])
      /\ \A l \in Loops : \A m, j :
           /\ Owed(l, m, j) =
                Owed(l, m, j)' + IF l = y /\ Front(y) = Functor(m, j) THEN 1 ELSE 0
           /\ Owed(l, m, j)' \in Nat
      /\ \A j : InOrder(j) => InOrder(j)'
      /\ \A j : InOrder(j) /\ Front(y) = Functor("connectDestroyed", j) =>
                  Owed(y, "connectEstablished", j)' = 0
  BY Zenon, Runs
<1>3. \A k \in Nat : k + 0 = k
  OBVIOUS
<1>4. ASSUME NEW l \in Loops, NEW m, NEW j, ~(l = y /\ m = n /\ j = i)
      PROVE  Owed(l, m, j)' = Owed(l, m, j)
  <2>1. ~(l = y /\ Front(y) = Functor(m, j))
    BY <1>1, <1>4
  <2>2. Owed(l, m, j) = Owed(l, m, j)' + 0
    BY Zenon, <1>2, <2>1
  <2> QED
    BY Zenon, <1>2, <1>3, <2>2
<1>5. Owed(y, n, i) = Owed(y, n, i)' + 1
  BY Zenon, <1>1, <1>2
<1>6. \A l \in Loops : \A m :
        Owed(l, m, i) = IF l = y /\ m = n THEN Owed(l, m, i)' + 1 ELSE Owed(l, m, i)'
  BY Zenon, <1>4, <1>5
<1>7. \A j \in Conns : j # i => SameOwed(j)
  BY Zenon, <1>4 DEF SameOwed
<1> QED
  BY Zenon, <1>1, <1>2, <1>6, <1>7

LEMMA RunsAndQueuesFor ==
  ASSUME TypeOK, NEW y \in Loops, NEW x \in Loops, NEW i \in Conns,
         RunsNext(y), Front(y) = Functor("removeConnection", i),
         Appends(x, Functor("connectDestroyed", i))
  PROVE  /\ ran' \in [Loops -> Nat] /\ pendingFunctors' \in [Loops -> Seq(QueuedFunctor)]
         /\ \A l \in Loops : ran[l] <= Len(functors[l]) => ran'[l] <= Len(functors'[l])
         /\ \A j \in Conns : j # i => SameOwed(j)
         /\ \A j \in Conns : InOrder(j) => InOrder(j)'
         /\ \A l \in Loops :
              /\ Owed(l, "connectEstablished", i)' = Owed(l, "connectEstablished", i)
              /\ Owed(l, "connectDestroyed", i)' =
                   IF l = x THEN Owed(l, "connectDestroyed", i) + 1
                            ELSE Owed(l, "connectDestroyed", i)
              /\ Owed(l, "removeConnection", i) =
                   IF l = y THEN Owed(l, "removeConnection", i)' + 1
                            ELSE Owed(l, "removeConnection", i)'
              /\ Owed(l, "removeConnection", i)' \in Nat
<1> DEFINE g == Functor("connectDestroyed", i)
<1>1. g \in QueuedFunctor
  BY Zenon, FunctorTypes
<1>2. /\ \A m, j : Front(y) = Functor(m, j) <=> m = "removeConnection" /\ i = j
      /\ \A m, j : g = Functor(m, j) <=> m = "connectDestroyed" /\ i = j
  BY FunctorsApart
<1>3. Appends(x, g)
  OBVIOUS
<1> HIDE DEF g
<1>4. /\ ran' \in [Loops -> Nat] /\ pendingFunctors' \in [Loops -> Seq(QueuedFunctor)]
      /\ \A l \in Loops : ran[l] <= Len(functors[l]) => ran'[l] <= Len(functors'[l])
      /\ \A l \in Loops : \A m, j :
           Owed(l, m, j)' + (IF l = y /\ Front(y) = Functor(m, j) THEN 1 ELSE 0) =
             Owed(l, m, j) + IF l = x /\ g = Functor(m, j) THEN 1 ELSE 0
      /\ \A j : InOrder(j) /\ g # Functor("connectEstablished", j) => InOrder(j)'
  BY Zenon, <1>1, <1>3, RunsAndQueues
<1>5. \A l \in Loops : \A m, j : Owed(l, m, j) \in Nat
  BY Zenon, OwedNat
<1>6. \A l \in Loops : \A m, j : Owed(l, m, j)' \in Nat
  <2>1. ASSUME NEW l \in Loops, NEW f
        PROVE  /\ Count(functors'[l], ran'[l] + 1, f) \in Nat
               /\ Count(pendingFunctors'[l], 1, f) \in Nat
    <3>1. /\ functors'[l] \in Seq(QueuedFunctor) /\ pendingFunctors'[l] \in Seq(QueuedFunctor)
          /\ ran'[l] \in Nat
      BY Zenon, <1>4, QueueTypes DEF RunsNext
    <3>2. /\ Len(functors'[l]) \in Nat /\ Len(pendingFunctors'[l]) \in Nat
          /\ ran'[l] + 1 \in Nat /\ 1 \in Nat
      BY <3>1
    <3> QED
      BY Zenon, <3>2, CountNat
  <2>2. \A a, b \in Nat : a + b \in Nat
    OBVIOUS
  <2> QED
    BY Zenon, <2>1, <2>2 DEF Owed
<1>7. \A a, b \in Nat : a + 0 = b + 0 => a = b
  OBVIOUS
<1>8. ASSUME NEW l \in Loops, NEW m, NEW j, m = "connectEstablished" \/ j # i
      PROVE  Owed(l, m, j)' = Owed(l, m, j)
  <2>1. "connectEstablished" # "removeConnection" /\ "connectEstablished" # "connectDestroyed"
    OBVIOUS
  <2>2. Front(y) # Functor(m, j) /\ g # Functor(m, j)
    BY <1>2, <1>8, <2>1
  <2>3. Owed(l, m, j)' + 0 = Owed(l, m, j) + 0
    BY Zenon, <1>4, <2>2
  <2> QED
    BY Zenon, <1>5, <1>6, <1>7, <2>3
<1>9. ASSUME NEW l \in Loops
      PROVE  /\ Owed(l, "connectDestroyed", i)' =
                  IF l = x THEN Owed(l, "connectDestroyed", i) + 1
                           ELSE Owed(l, "connectDestroyed", i)
             /\ Owed(l, "removeConnection", i) =
                  IF l = y THEN Owed(l, "removeConnection", i)' + 1
                           ELSE Owed(l, "removeConnection", i)'
  <2>1. /\ Front(y) # Functor("connectDestroyed", i) /\ g = Functor("connectDestroyed", i)
        /\ g # Functor("removeConnection", i)
    BY FunctorsApart DEF g
  <2>2. Owed(l, "connectDestroyed", i)' + 0 =
          Owed(l, "connectDestroyed", i) + IF l = x THEN 1 ELSE 0
    BY Zenon, <1>4, <2>1
  <2>3. Owed(l, "removeConnection", i)' + (IF l = y THEN 1 ELSE 0) =
          Owed(l, "removeConnection", i) + 0
    BY Zenon, <1>4, <2>1
  <2>4. \A a, b \in Nat : /\ a + 0 = b + 1 => a = b + 1
                          /\ a + 0 = b + 0 => a = b
                          /\ b + 1 = a + 0 => a = b + 1
                          /\ b + 0 = a + 0 => a = b
    OBVIOUS
  <2>5. /\ Owed(l, "connectDestroyed", i)' \in Nat /\ Owed(l, "connectDestroyed", i) \in Nat
        /\ Owed(l, "removeConnection", i)' \in Nat /\ Owed(l, "removeConnection", i) \in Nat
    BY Zenon, <1>5, <1>6
  <2> QED
    BY Zenon, <2>2, <2>3, <2>4, <2>5
<1>10. \A j \in Conns : j # i => SameOwed(j)
  BY Zenon, <1>8 DEF SameOwed
<1>11. \A j \in Conns : InOrder(j) => InOrder(j)'
  <2>1. "connectEstablished" # "connectDestroyed"
    OBVIOUS
  <2> QED
    BY Zenon, <1>2, <1>4, <2>1
<1> QED
  BY Zenon, <1>4, <1>6, <1>8, <1>9, <1>10, <1>11
\* A step that touches one connection.
LEMMA OneTouched ==
  ASSUME IInv, NEW i \in Conns, TypeOK', StartInv', Eases,
         \A l \in Loops : LoopInv(l)', ConnInv(i)',
         \A j \in Conns : j # i => Same(j) /\ SameOwed(j) /\ (InOrder(j) => InOrder(j)')
  PROVE  IInv'
<1>1. \A j \in Conns : TypeOK /\ ConnInv(j) /\ InOrder(j)
  BY Zenon, IInvParts
<1>2. ASSUME NEW j \in Conns PROVE ConnInv(j)'
  BY Zenon, <1>1, ConnFrame
<1> QED
  BY Zenon, <1>2 DEF IInv

\* The functions of the connections, when one of them changes.
LEMMA FunctionSet ==
  ASSUME NEW S, NEW T, NEW f \in [S -> T], NEW i \in S, NEW v \in T, NEW g,
         g = [f EXCEPT ![i] = v]
  PROVE  g \in [S -> T] /\ g[i] = v /\ \A j \in S : j # i => g[j] = f[j]
  BY Zenon

\* What the inductive invariant says of a connection.
LEMMA ConnFacts ==
  ASSUME IInv, NEW i \in Conns
  PROVE  /\ TaleOf(i) /\ NoStray(i) /\ InOrder(i)
         /\ state[i] = "none" <=> i >= nextConnId
         /\ loopOf[i] \in Loops /\ base \in Loops
         /\ Est(i) \in Nat /\ Des(i) \in Nat /\ Rem(i) \in Nat
         /\ ups[i] \in Nat /\ downs[i] \in Nat /\ registered[i] \in BOOLEAN
         /\ state[i] \in {"none", "kConnecting", "kConnected", "kDisconnected"}
<1>1. TypeOK /\ ConnInv(i) /\ ConnType
  BY Zenon, IInvParts
<1>2. loopOf[i] \in Loops /\ base \in Loops
  BY Zenon, <1>1, LoopsType DEF ConnType
<1> QED
  BY Zenon, <1>1, <1>2, OwedNat DEF ConnType, ConnInv, Est, Des, Rem

\* Only what is on its way to the right loop changes.
LEMMA NoStrayFrame ==
  ASSUME NEW i, NoStray(i), loopOf'[i] = loopOf[i],
         \A l \in Loops :
           /\ l # loopOf[i] =>
                /\ Owed(l, "connectEstablished", i)' = Owed(l, "connectEstablished", i)
                /\ Owed(l, "connectDestroyed", i)' = Owed(l, "connectDestroyed", i)
           /\ l # base => Owed(l, "removeConnection", i)' = Owed(l, "removeConnection", i)
  PROVE  NoStray(i)'
  BY Zenon DEF NoStray

\* handleClose(), and what the close callback does then.
LEMMA HandleClosePreserves ==
  ASSUME IInv, NEW i \in Conns, HandleClose(i)
  PROVE  IInv'
<1>1. /\ TypeOK /\ StartInv /\ StartType /\ PoolType /\ PcType /\ QueueType /\ ConnType
      /\ \A l \in Loops : LoopInv(l)
  BY Zenon, IInvParts
<1>2. /\ registered[i] /\ state[i] = "kConnected" /\ (loopOf[i] = base => server = "up")
      /\ state' = [state EXCEPT ![i] = "kDisconnected"]
      /\ downs' = [downs EXCEPT ![i] = @ + 1]
      /\ RemoveConnection(i)
      /\ UNCHANGED <<startVars, listenning>> /\ next' = next /\ nextConnId' = nextConnId
      /\ server' = server /\ UNCHANGED <<pc, quit>> /\ functors' = functors /\ ran' = ran
      /\ loopOf' = loopOf /\ registered' = registered /\ closed' = closed /\ ups' = ups
      /\ pc' = pc /\ quit' = quit
  BY Zenon DEF HandleClose, CloseConnection, BaseFree, loopVars
<1>3. /\ TaleOf(i) /\ NoStray(i) /\ InOrder(i) /\ (state[i] = "none" <=> i >= nextConnId)
      /\ loopOf[i] \in Loops /\ base \in Loops
      /\ Est(i) \in Nat /\ Des(i) \in Nat /\ Rem(i) \in Nat /\ downs[i] \in Nat
  BY Zenon, ConnFacts
<1>4. numThreads' = numThreads /\ caller' = caller
  BY Zenon, <1>2 DEF startVars
<1>5. downs[i] + 1 \in Nat
  BY <1>3
<1>6. /\ state' \in [Conns -> {"none", "kConnecting", "kConnected", "kDisconnected"}]
      /\ state'[i] = "kDisconnected" /\ \A j \in Conns : j # i => state'[j] = state[j]
      /\ downs' \in [Conns -> Nat]
      /\ downs'[i] = downs[i] + 1 /\ \A j \in Conns : j # i => downs'[j] = downs[j]
  BY Zenon, <1>1, <1>2, <1>5, FunctionSet DEF ConnType
<1>7. ConnType'
  BY Zenon, <1>1, <1>2, <1>6 DEF ConnType
<1>8. PICK n \in ConnNames, x \in Loops :
        /\ Appends(x, Functor(n, i))
        /\ \/ /\ loopOf[i] = base /\ n = "connectDestroyed" /\ x = base
              /\ connections' = connections \ {i}
           \/ /\ loopOf[i] # base /\ n = "removeConnection" /\ x = base
              /\ connections' = connections
  <2>1. "connectDestroyed" \in ConnNames /\ "removeConnection" \in ConnNames
    BY Zenon, FunctorTypes
  <2> QED
    BY Zenon, <1>2, <1>3, <2>1 DEF RemoveConnection, RemoveConnectionInLoop, Appends
<1>9. /\ pendingFunctors' \in [Loops -> Seq(QueuedFunctor)]
      /\ \A j \in Conns : j # i => SameOwed(j) /\ (InOrder(j) => InOrder(j)')
      /\ \A l \in Loops : \A m :
           Owed(l, m, i)' = IF l = x /\ m = n THEN Owed(l, m, i) + 1 ELSE Owed(l, m, i)
      /\ InOrder(i) /\ n # "connectEstablished" => InOrder(i)'
  BY Zenon, <1>1, <1>2, <1>8, QueuesFor
<1>10. /\ connections' \subseteq connections
       /\ \A j \in Conns : j # i => (j \in connections' <=> j \in connections)
  BY Zenon, <1>8
<1>11. TypeOK'
  <2>1. QueueType' /\ PoolType'
    BY Zenon, <1>1, <1>2, <1>9, <1>10 DEF QueueType, PoolType
  <2> QED
    BY Zenon, <1>1, <1>2, <1>7, <2>1, TypeNext, StartTypeFrame, PcTypeFrame
<1>12. StartInv'
  <2>1. state[i] # "none"
    BY Zenon, <1>2
  <2>2. \E t \in Callers : caller'[t] # "not yet"
    BY Zenon, <1>4, <2>1, NoneBeforeStart
  <2> QED
    BY Zenon, <1>1, <1>2, <1>4, <2>2, StartFrame
<1>13. \A l \in Loops : LoopInv(l)'
  <2>1. connections = {} => connections' = {}
    BY Zenon, <1>10
  <2> QED
    BY Zenon, <1>1, <1>2, <1>4, <2>1, LoopRuns
<1>14. ASSUME NEW j \in Conns, j # i PROVE Same(j)
  BY Zenon, <1>2, <1>6, <1>10, <1>14 DEF Same
<1>15. Eases
  BY Zenon, <1>2, <1>4 DEF Eases
<1>16. InOrder(i)'
  BY Zenon, <1>3, <1>8, <1>9
<1>17. TaleOf(i)' /\ NoStray(i)'
  <2>1. CASE loopOf[i] = base
    <3>1. n = "connectDestroyed" /\ x = base /\ i \notin connections'
      BY Zenon, <1>8, <2>1
    <3>2. Est(i)' = Est(i) /\ Des(i)' = Des(i) + 1 /\ Rem(i)' = Rem(i)
      BY Zenon, <1>2, <1>3, <1>9, <2>1, <3>1 DEF Est, Des, Rem
    <3>3. TaleOf(i)'
      BY SMTT(30), <1>2, <1>3, <1>4, <1>6, <2>1, <3>1, <3>2 DEF TaleOf, Tale
    <3>4. NoStray(i)'
      <4>1. \A l \in Loops :
              /\ l # loopOf[i] =>
                   /\ Owed(l, "connectEstablished", i)' = Owed(l, "connectEstablished", i)
                   /\ Owed(l, "connectDestroyed", i)' = Owed(l, "connectDestroyed", i)
              /\ l # base => Owed(l, "removeConnection", i)' = Owed(l, "removeConnection", i)
        BY Zenon, <1>9, <2>1, <3>1
      <4> QED
        BY Zenon, <1>2, <1>3, <4>1, NoStrayFrame
    <3> QED
      BY Zenon, <3>3, <3>4
  <2>2. CASE loopOf[i] # base
    <3>1. n = "removeConnection" /\ x = base /\ connections' = connections
      BY Zenon, <1>8, <2>2
    <3>2. Est(i)' = Est(i) /\ Des(i)' = Des(i) /\ Rem(i)' = Rem(i) + 1
      BY Zenon, <1>2, <1>3, <1>9, <2>2, <3>1 DEF Est, Des, Rem
    <3>3. TaleOf(i)'
      BY SMTT(30), <1>2, <1>3, <1>4, <1>6, <2>2, <3>1, <3>2 DEF TaleOf, Tale
    <3>4. NoStray(i)'
      <4>1. \A l \in Loops :
              /\ l # loopOf[i] =>
                   /\ Owed(l, "connectEstablished", i)' = Owed(l, "connectEstablished", i)
                   /\ Owed(l, "connectDestroyed", i)' = Owed(l, "connectDestroyed", i)
              /\ l # base => Owed(l, "removeConnection", i)' = Owed(l, "removeConnection", i)
        BY Zenon, <1>9, <3>1
      <4> QED
        BY Zenon, <1>2, <1>3, <4>1, NoStrayFrame
    <3> QED
      BY Zenon, <3>3, <3>4
  <2> QED
    BY Zenon, <2>1, <2>2
<1>18. (state[i] = "none" <=> i >= nextConnId)'
  BY Zenon, <1>2, <1>3, <1>6
<1>19. ConnInv(i)'
  BY Zenon, <1>16, <1>17, <1>18 DEF ConnInv
<1> QED
  BY Zenon, <1>9, <1>11, <1>12, <1>13, <1>14, <1>15, <1>19, OneTouched
\* newConnection() hands a connection to the loop that getNextLoop() finds.
LEMMA NextLoopFound ==
  ASSUME IInv
  PROVE  /\ NextLoop \in Loops
         /\ NextLoop = base <=> numThreads = 0
         /\ numThreads = 0 => next \in 0 .. MaxThreads /\ (next = 0 \/ next < numThreads)
         /\ numThreads # 0 => /\ Following(next) \in 0 .. MaxThreads
                              /\ Following(next) = 0 \/ Following(next) < numThreads
<1>1. /\ numThreads \in 0 .. MaxThreads /\ next \in 0 .. MaxThreads
      /\ next = 0 \/ next < numThreads
  BY Zenon, IInvParts DEF StartType, PoolType, StartInv
<1> QED
  BY <1>1, ServerAssumption DEF NextLoop, Following, Loops, base

LEMMA NewConnectionPreserves ==
  ASSUME IInv, NewConnection
  PROVE  IInv'
<1>0. PICK i, x : i = nextConnId /\ x = NextLoop
  BY Zenon
<1>1. /\ TypeOK /\ StartInv /\ StartType /\ PoolType /\ PcType /\ QueueType /\ ConnType
      /\ \A l \in Loops : LoopInv(l)
  BY Zenon, IInvParts
<1>2. /\ server = "up" /\ listenning /\ i <= MaxConnections
      /\ nextConnId' = i + 1 /\ next' = (IF numThreads = 0 THEN next ELSE Following(next))
      /\ connections' = connections \cup {i}
      /\ loopOf' = [loopOf EXCEPT ![i] = x]
      /\ UNCHANGED <<startVars, listenning>> /\ server' = server
      /\ UNCHANGED <<pc, quit>> /\ functors' = functors /\ ran' = ran
      /\ closed' = closed /\ downs' = downs /\ pc' = pc /\ quit' = quit
  BY Zenon, <1>0 DEF NewConnection, BaseFree, loopVars
<1>3. \/ /\ x = base
         /\ state' = [state EXCEPT ![i] = "kConnected"]
         /\ registered' = [registered EXCEPT ![i] = TRUE]
         /\ ups' = [ups EXCEPT ![i] = @ + 1]
         /\ pendingFunctors' = pendingFunctors
      \/ /\ x # base
         /\ state' = [state EXCEPT ![i] = "kConnecting"]
         /\ Appends(x, Functor("connectEstablished", i))
         /\ registered' = registered /\ ups' = ups
  BY Zenon, <1>0 DEF NewConnection, ConnectEstablished, Appends
<1>4. /\ x \in Loops /\ (x = base <=> numThreads = 0)
      /\ next' \in 0 .. MaxThreads /\ (next' = 0 \/ next' < numThreads)
  BY Zenon, <1>0, <1>2, NextLoopFound
<1>5. numThreads' = numThreads /\ caller' = caller /\ listenning' = listenning
  BY Zenon, <1>2 DEF startVars
<1>6. /\ i \in Conns /\ i >= nextConnId /\ ~(i >= nextConnId')
      /\ nextConnId' \in 1 .. MaxConnections + 1
      /\ \A j \in Conns : j # i => (j >= nextConnId' <=> j >= nextConnId)
  <2>1. nextConnId \in 1 .. MaxConnections + 1
    BY Zenon, <1>1 DEF PoolType
  <2> QED
    BY <1>0, <1>2, <2>1, ServerAssumption DEF Conns
<1>7. /\ TaleOf(i) /\ NoStray(i) /\ InOrder(i) /\ (state[i] = "none" <=> i >= nextConnId)
      /\ loopOf[i] \in Loops /\ base \in Loops
      /\ ups[i] \in Nat /\ registered[i] \in BOOLEAN
  BY Zenon, <1>6, ConnFacts
<1>8. state[i] = "none"
  BY Zenon, <1>6, <1>7
<1>9. /\ ~registered[i] /\ i \notin connections /\ ups[i] = 0 /\ downs[i] = 0
      /\ Est(i) = 0 /\ Des(i) = 0 /\ Rem(i) = 0
  BY <1>7, <1>8 DEF TaleOf, Tale
<1>10. \A l \in Loops : /\ Owed(l, "connectEstablished", i) = 0
                        /\ Owed(l, "connectDestroyed", i) = 0
                        /\ Owed(l, "removeConnection", i) = 0
  BY Zenon, <1>7, <1>9 DEF NoStray, Est, Des, Rem
<1>11. /\ loopOf' \in [Conns -> Loops]
       /\ loopOf'[i] = x /\ \A j \in Conns : j # i => loopOf'[j] = loopOf[j]
  BY Zenon, <1>1, <1>2, <1>4, <1>6, FunctionSet DEF ConnType
<1>12. /\ i \in connections' /\ connections' \subseteq Conns
       /\ \A j \in Conns : j # i => (j \in connections' <=> j \in connections)
  BY Zenon, <1>1, <1>2, <1>6 DEF PoolType
<1>13. StartInv'
  <2>1. \E t \in Callers : caller'[t] # "not yet"
    BY Zenon, <1>1, <1>2, <1>5 DEF StartInv
  <2> QED
    BY Zenon, <1>4, <1>5, <2>1 DEF StartInv
<1>14. \A l \in Loops : LoopInv(l)'
  BY Zenon, <1>1, <1>2 DEF LoopInv
<1>15. Eases
  BY Zenon, <1>2, <1>5 DEF Eases
<1>16. PoolType' /\ StartType' /\ PcType'
  <2>1. PoolType'
    BY Zenon, <1>1, <1>2, <1>4, <1>6, <1>12 DEF PoolType
  <2> QED
    BY Zenon, <1>1, <1>2, <2>1, StartTypeFrame, PcTypeFrame
<1>17. CASE x = base
  <2>1. /\ state' = [state EXCEPT ![i] = "kConnected"]
        /\ registered' = [registered EXCEPT ![i] = TRUE]
        /\ ups' = [ups EXCEPT ![i] = ups[i] + 1]
        /\ pendingFunctors' = pendingFunctors
    BY Zenon, <1>3, <1>17
  <2>2. ups[i] + 1 \in Nat /\ ups[i] + 1 = 1
    BY <1>9
  <2>3. /\ state' \in [Conns -> {"none", "kConnecting", "kConnected", "kDisconnected"}]
        /\ state'[i] = "kConnected" /\ \A j \in Conns : j # i => state'[j] = state[j]
    BY Zenon, <1>1, <1>6, <2>1, FunctionSet DEF ConnType
  <2>4. /\ registered' \in [Conns -> BOOLEAN]
        /\ registered'[i] = TRUE /\ \A j \in Conns : j # i => registered'[j] = registered[j]
    BY Zenon, <1>1, <1>6, <2>1, FunctionSet DEF ConnType
  <2>5. /\ ups' \in [Conns -> Nat]
        /\ ups'[i] = 1 /\ \A j \in Conns : j # i => ups'[j] = ups[j]
    BY Zenon, <1>1, <1>6, <2>1, <2>2, FunctionSet DEF ConnType
  <2>6. TypeOK'
    <3>1. ConnType' /\ QueueType'
      BY Zenon, <1>1, <1>2, <1>11, <2>1, <2>3, <2>4, <2>5 DEF ConnType, QueueType
    <3> QED
      BY Zenon, <1>16, <3>1, TypeNext
  <2>7. (\A l, m, j : Owed(l, m, j)' = Owed(l, m, j)) /\ (\A j : InOrder(j)' <=> InOrder(j))
    BY Zenon, <1>2, <2>1, Steady
  <2>8. ASSUME NEW j \in Conns, j # i PROVE Same(j) /\ SameOwed(j) /\ (InOrder(j) => InOrder(j)')
    <3>1. Same(j)
      BY Zenon, <1>2, <1>6, <1>11, <1>12, <2>3, <2>4, <2>5, <2>8 DEF Same
    <3> QED
      BY Zenon, <2>7, <3>1 DEF SameOwed
  <2>9. Est(i)' = 0 /\ Des(i)' = 0 /\ Rem(i)' = 0 /\ NoStray(i)'
    BY Zenon, <1>4, <1>7, <1>10, <1>11, <2>7 DEF Est, Des, Rem, NoStray
  <2>10. TaleOf(i)'
    BY SMTT(30), <1>2, <1>9, <1>11, <1>12, <1>17, <2>3, <2>4, <2>5, <2>9 DEF TaleOf, Tale
  <2>11. ConnInv(i)'
    <3>1. state'[i] # "none"
      BY Zenon, <2>3
    <3> QED
      BY Zenon, <1>6, <1>7, <2>7, <2>9, <2>10, <3>1 DEF ConnInv
  <2> QED
    BY Zenon, <1>6, <1>13, <1>14, <1>15, <2>6, <2>8, <2>11, OneTouched
<1>18. CASE x # base
  <2>1. /\ state' = [state EXCEPT ![i] = "kConnecting"]
        /\ Appends(x, Functor("connectEstablished", i))
        /\ registered' = registered /\ ups' = ups
    BY Zenon, <1>3, <1>18
  <2>2. /\ state' \in [Conns -> {"none", "kConnecting", "kConnected", "kDisconnected"}]
        /\ state'[i] = "kConnecting" /\ \A j \in Conns : j # i => state'[j] = state[j]
    BY Zenon, <1>1, <1>6, <2>1, FunctionSet DEF ConnType
  <2>3. "connectEstablished" \in ConnNames
    BY Zenon, FunctorTypes
  <2>4. /\ pendingFunctors' \in [Loops -> Seq(QueuedFunctor)]
        /\ \A j \in Conns : j # i => SameOwed(j) /\ (InOrder(j) => InOrder(j)')
        /\ \A l \in Loops : \A m :
             Owed(l, m, i)' = IF l = x /\ m = "connectEstablished" THEN Owed(l, m, i) + 1
                                                                   ELSE Owed(l, m, i)
        /\ InOrder(i) /\ Owed(x, "connectDestroyed", i) = 0 => InOrder(i)'
    BY Zenon, <1>1, <1>2, <1>4, <1>6, <2>1, <2>3, QueuesFor
  <2>5. TypeOK'
    <3>1. ConnType' /\ QueueType'
      BY Zenon, <1>1, <1>2, <1>11, <2>1, <2>2, <2>4 DEF ConnType, QueueType
    <3> QED
      BY Zenon, <1>16, <3>1, TypeNext
  <2>6. ASSUME NEW j \in Conns, j # i PROVE Same(j)
    BY Zenon, <1>2, <1>6, <1>11, <1>12, <2>1, <2>2, <2>6 DEF Same
  <2>7. /\ \A l \in Loops : /\ l # x => Owed(l, "connectEstablished", i)' = 0
                            /\ Owed(l, "connectDestroyed", i)' = 0
                            /\ Owed(l, "removeConnection", i)' = 0
        /\ Owed(x, "connectEstablished", i)' = 0 + 1
    <3>1. "connectEstablished" # "connectDestroyed" /\ "connectEstablished" # "removeConnection"
      OBVIOUS
    <3>2. ASSUME NEW l \in Loops
          PROVE  /\ l # x => Owed(l, "connectEstablished", i)' = 0
                 /\ Owed(l, "connectDestroyed", i)' = 0
                 /\ Owed(l, "removeConnection", i)' = 0
      BY Zenon, <1>10, <2>4, <3>1
    <3>3. Owed(x, "connectEstablished", i)' = Owed(x, "connectEstablished", i) + 1
      BY Zenon, <1>4, <2>4
    <3>4. Owed(x, "connectEstablished", i) = 0
      BY Zenon, <1>4, <1>10
    <3> QED
      BY Zenon, <3>2, <3>3, <3>4
  <2>8. Est(i)' = 1 /\ Des(i)' = 0 /\ Rem(i)' = 0 /\ NoStray(i)'
    <3>1. 0 + 1 = 1
      OBVIOUS
    <3> QED
      BY Zenon, <1>4, <1>7, <1>11, <2>7, <3>1 DEF Est, Des, Rem, NoStray
  <2>9. TaleOf(i)'
    BY SMTT(30), <1>2, <1>9, <1>11, <1>12, <1>18, <2>1, <2>2, <2>8 DEF TaleOf, Tale
  <2>10. ConnInv(i)'
    <3>1. state'[i] # "none"
      BY Zenon, <2>2
    <3>2. InOrder(i)'
      BY Zenon, <1>4, <1>7, <1>10, <2>4
    <3> QED
      BY Zenon, <1>6, <2>8, <2>9, <3>1, <3>2 DEF ConnInv
  <2> QED
    BY Zenon, <1>6, <1>13, <1>14, <1>15, <2>4, <2>5, <2>6, <2>10, OneTouched
<1> QED
  BY Zenon, <1>17, <1>18
LEMMA TakeFunctorsPreserves ==
  ASSUME IInv, NEW x \in Loops, TakeFunctors(x)
  PROVE  IInv'
<1>1. /\ TypeOK /\ StartInv /\ StartType /\ PoolType /\ PcType /\ QueueType /\ ConnType
      /\ \A l \in Loops : LoopInv(l)
  BY Zenon, IInvParts
<1>2. /\ pc[x] = "poll" /\ pc' = [pc EXCEPT ![x] = "functors"]
      /\ functors' = [functors EXCEPT ![x] = pendingFunctors[x]]
      /\ pendingFunctors' = [pendingFunctors EXCEPT ![x] = <<>>]
      /\ UNCHANGED <<startVars, listenning>> /\ UNCHANGED poolVars /\ server' = server
      /\ UNCHANGED <<poolVars, server>> /\ quit' = quit /\ ran' = ran /\ UNCHANGED connVars
  BY Zenon DEF TakeFunctors
<1>3. functors[x] = <<>> /\ ran[x] = 0
  <2>1. pc[x] # "functors"
    BY Zenon, <1>2
  <2> QED
    BY Zenon, <1>1, <2>1 DEF LoopInv
<1>4. /\ functors' \in [Loops -> Seq(QueuedFunctor)]
      /\ pendingFunctors' \in [Loops -> Seq(QueuedFunctor)]
      /\ functors'[x] = pendingFunctors[x]
      /\ \A l \in Loops : l # x => functors'[l] = functors[l]
      /\ \A l \in Loops : \A n, i : Owed(l, n, i)' = Owed(l, n, i)
      /\ \A i : InOrder(i) => InOrder(i)'
  BY Zenon, <1>1, <1>2, <1>3, Takes
<1>5. /\ numThreads' = numThreads /\ caller' = caller /\ listenning' = listenning
      /\ next' = next /\ nextConnId' = nextConnId /\ connections' = connections
  BY Zenon, <1>2 DEF startVars, poolVars
<1>6. /\ pc' \in [Loops -> {"poll", "functors", "exited"}] /\ pc'[x] = "functors"
      /\ \A l \in Loops : l # x => pc'[l] = pc[l]
  BY Zenon, <1>1, <1>2, FunctionSet DEF PcType
<1>7. TypeOK'
  <2>1. PcType' /\ QueueType'
    BY Zenon, <1>1, <1>2, <1>4, <1>6 DEF PcType, QueueType
  <2> QED
    BY Zenon, <1>1, <1>2, <2>1, TypeNext, StartTypeFrame, PoolTypeFrame, ConnTypeFrame
<1>8. StartInv'
  <2>1. \A l \in Loops : pendingFunctors'[l] \in {pendingFunctors[l], <<>>}
    BY Zenon, <1>1, <1>2 DEF QueueType
  <2>2. \A l \in Loops : functors'[l] \in {functors[l], pendingFunctors[l]}
    BY Zenon, <1>4
  <2> QED
    BY Zenon, <1>1, <1>5, <2>1, <2>2 DEF StartInv
<1>9. ASSUME NEW l \in Loops PROVE LoopInv(l)'
  <2>1. CASE l = x
    <3>1. Len(functors'[x]) \in Nat /\ ran'[x] = 0
      BY Zenon, <1>1, <1>2, <1>3, <1>4, QueueTypes
    <3>2. ran'[x] <= Len(functors'[x])
      BY <3>1
    <3> QED
      BY Zenon, <1>1, <1>2, <1>5, <1>6, <2>1, <3>2 DEF LoopInv
  <2>2. CASE l # x
    BY Zenon, <1>1, <1>2, <1>4, <1>5, <1>6, <2>2, LoopFrame
  <2> QED
    BY Zenon, <2>1, <2>2
<1>10. \A i \in Conns : SameOwed(i)
  BY Zenon, <1>4 DEF SameOwed
<1>11. \A i \in Conns : ConnInv(i)'
  BY Zenon, <1>2, <1>4, <1>5, <1>10, NoConnectionTouched
<1> QED
  BY Zenon, <1>7, <1>8, <1>9, <1>11 DEF IInv

\* What running a functor of a connection leaves alone.
RunFrame(l) ==
  /\ UNCHANGED <<startVars, listenning>> /\ next' = next /\ nextConnId' = nextConnId
  /\ server' = server /\ UNCHANGED <<pc, quit>> /\ functors' = functors
  /\ loopOf' = loopOf /\ closed' = closed /\ ran' = [ran EXCEPT ![l] = @ + 1]

LEMMA RunKeeps ==
  ASSUME IInv, NEW l \in Loops, RunsNext(l), pc[l] = "functors", RunFrame(l),
         \A k \in Loops : ran[k] <= Len(functors[k]) => ran'[k] <= Len(functors'[k]),
         connections = {} => connections' = {}, connections' \subseteq connections,
         ran' \in [Loops -> Nat], pendingFunctors' \in [Loops -> Seq(QueuedFunctor)]
  PROVE  /\ StartInv' /\ Eases /\ \A k \in Loops : LoopInv(k)'
         /\ ConnType' => TypeOK'
<1>1. /\ TypeOK /\ StartInv /\ StartType /\ PoolType /\ PcType /\ QueueType /\ ConnType
      /\ \A k \in Loops : LoopInv(k)
  BY Zenon, IInvParts
<1>2. /\ numThreads' = numThreads /\ caller' = caller /\ next' = next /\ server' = server
      /\ pc' = pc /\ quit' = quit /\ functors' = functors /\ nextConnId' = nextConnId
      /\ ran' = [ran EXCEPT ![l] = @ + 1] /\ UNCHANGED <<startVars, listenning>>
      /\ UNCHANGED <<pc, quit>>
  BY Zenon DEF RunFrame, startVars
<1>3. StartInv'
  <2>1. \E t \in Callers : caller'[t] # "not yet"
    BY Zenon, <1>2, RunsAfterStart
  <2> QED
    BY Zenon, <1>1, <1>2, <2>1, StartFrame
<1>4. Eases
  BY Zenon, <1>2 DEF Eases
<1>5. \A k \in Loops : LoopInv(k)'
  <2>1. \A k \in Loops : ran'[k] = ran[k] \/ pc[k] = "functors"
    BY Zenon, <1>1, <1>2 DEF QueueType
  <2> QED
    BY Zenon, <1>1, <1>2, <2>1, LoopRuns
<1>6. StartType' /\ PoolType' /\ PcType' /\ QueueType'
  <2>1. PoolType' /\ QueueType'
    BY Zenon, <1>1, <1>2 DEF PoolType, QueueType
  <2> QED
    BY Zenon, <1>1, <1>2, <2>1, StartTypeFrame, PcTypeFrame
<1> QED
  BY Zenon, <1>3, <1>4, <1>5, <1>6, TypeNext
\* connectEstablished(), in the loop of the connection.
LEMMA RunEstablishedPreserves ==
  ASSUME IInv, NEW l \in Loops, NEW i \in Conns, IsNext(l, "connectEstablished", i),
         RunFrame(l), ConnectEstablished(i), UNCHANGED <<connections, pendingFunctors, downs>>
  PROVE  IInv'
<1>1. TypeOK /\ ConnType /\ QueueType
  BY Zenon, IInvParts
<1>2. /\ functors' = functors /\ ran' = [ran EXCEPT ![l] = @ + 1] /\ loopOf' = loopOf
      /\ closed' = closed /\ nextConnId' = nextConnId /\ server' = server
      /\ numThreads' = numThreads
      /\ connections' = connections /\ pendingFunctors' = pendingFunctors /\ downs' = downs
  BY Zenon DEF RunFrame, startVars
<1>3. /\ TaleOf(i) /\ NoStray(i) /\ InOrder(i) /\ (state[i] = "none" <=> i >= nextConnId)
      /\ loopOf[i] \in Loops /\ base \in Loops
      /\ Est(i) \in Nat /\ Des(i) \in Nat /\ Rem(i) \in Nat /\ ups[i] \in Nat
  BY Zenon, ConnFacts
<1>4. /\ pc[l] = "functors" /\ RunsNext(l) /\ Front(l) = Functor("connectEstablished", i)
  BY Zenon, <1>2, NextIsFront
<1>5. "connectEstablished" \in ConnNames
  BY Zenon, FunctorTypes
<1>6. /\ ran' \in [Loops -> Nat]
      /\ \A k \in Loops : ran[k] <= Len(functors[k]) => ran'[k] <= Len(functors'[k])
      /\ \A j \in Conns : j # i => SameOwed(j)
      /\ \A j \in Conns : InOrder(j) => InOrder(j)'
      /\ \A k \in Loops : \A m :
           /\ Owed(k, m, i) = IF k = l /\ m = "connectEstablished" THEN Owed(k, m, i)' + 1
                                                                  ELSE Owed(k, m, i)'
           /\ Owed(k, m, i)' \in Nat
  BY Zenon, <1>1, <1>2, <1>4, <1>5, RunsFor
<1>7. /\ Owed(l, "connectEstablished", i) = Owed(l, "connectEstablished", i)' + 1
      /\ Owed(l, "connectEstablished", i)' \in Nat
  BY Zenon, <1>6
<1>8. l = loopOf[i]
  <2>1. Owed(l, "connectEstablished", i) # 0
    BY <1>7
  <2> QED
    BY Zenon, <1>3, <2>1 DEF NoStray
<1>9. Est(i) = Est(i)' + 1 /\ Est(i)' \in Nat /\ Des(i)' = Des(i) /\ Rem(i)' = Rem(i)
  <2>1. /\ "connectDestroyed" # "connectEstablished"
        /\ "removeConnection" # "connectEstablished"
    OBVIOUS
  <2> QED
    BY Zenon, <1>2, <1>3, <1>6, <1>7, <1>8, <2>1 DEF Est, Des, Rem
<1>10. NoStray(i)'
  <2>1. \A k \in Loops :
          /\ k # loopOf[i] =>
               /\ Owed(k, "connectEstablished", i)' = Owed(k, "connectEstablished", i)
               /\ Owed(k, "connectDestroyed", i)' = Owed(k, "connectDestroyed", i)
          /\ k # base => Owed(k, "removeConnection", i)' = Owed(k, "removeConnection", i)
    BY Zenon, <1>6, <1>8
  <2> QED
    BY Zenon, <1>2, <1>3, <2>1, NoStrayFrame
<1>11. ups[i] + 1 \in Nat
  BY <1>3
<1>12. /\ state' = [state EXCEPT ![i] = "kConnected"]
       /\ registered' = [registered EXCEPT ![i] = TRUE]
       /\ ups' = [ups EXCEPT ![i] = ups[i] + 1]
  BY Zenon DEF ConnectEstablished
<1>13. /\ state' \in [Conns -> {"none", "kConnecting", "kConnected", "kDisconnected"}]
       /\ state'[i] = "kConnected" /\ \A j \in Conns : j # i => state'[j] = state[j]
  BY Zenon, <1>1, <1>12, FunctionSet DEF ConnType
<1>14. /\ registered' \in [Conns -> BOOLEAN]
       /\ registered'[i] = TRUE /\ \A j \in Conns : j # i => registered'[j] = registered[j]
  BY Zenon, <1>1, <1>12, FunctionSet DEF ConnType
<1>15. /\ ups' \in [Conns -> Nat]
       /\ ups'[i] = ups[i] + 1 /\ \A j \in Conns : j # i => ups'[j] = ups[j]
  BY Zenon, <1>1, <1>11, <1>12, FunctionSet DEF ConnType
<1>16. ConnType'
  BY Zenon, <1>1, <1>2, <1>13, <1>14, <1>15 DEF ConnType
<1>17. StartInv' /\ Eases /\ (\A k \in Loops : LoopInv(k)') /\ TypeOK'
  <2>1. /\ pendingFunctors' \in [Loops -> Seq(QueuedFunctor)]
        /\ connections' \subseteq connections /\ (connections = {} => connections' = {})
    BY Zenon, <1>1, <1>2 DEF QueueType
  <2> QED
    BY Zenon, <1>4, <1>6, <1>16, <2>1, RunKeeps
<1>18. /\ Est(i)' = 0 /\ state[i] = "kConnecting" /\ TaleOf(i)'
  BY SMTT(30), <1>2, <1>3, <1>9, <1>13, <1>14, <1>15 DEF TaleOf, Tale
<1>19. ConnInv(i)'
  <2>1. state[i] # "none" /\ state'[i] # "none"
    BY Zenon, <1>13, <1>18
  <2> QED
    BY Zenon, <1>2, <1>3, <1>6, <1>10, <1>18, <2>1 DEF ConnInv
<1>20. ASSUME NEW j \in Conns, j # i PROVE Same(j)
  BY Zenon, <1>2, <1>13, <1>14, <1>15, <1>20 DEF Same
<1> QED
  BY Zenon, <1>6, <1>17, <1>19, <1>20, OneTouched

\* connectDestroyed(), of one connection.
LEMMA DestroyOne ==
  ASSUME ConnType, NEW i \in Conns, ConnectDestroyed({i})
  PROVE  /\ state' \in [Conns -> {"none", "kConnecting", "kConnected", "kDisconnected"}]
         /\ state'[i] = IF state[i] = "kConnected" THEN "kDisconnected" ELSE state[i]
         /\ downs' \in [Conns -> Nat]
         /\ downs'[i] = IF state[i] = "kConnected" THEN downs[i] + 1 ELSE downs[i]
         /\ registered' \in [Conns -> BOOLEAN] /\ ~registered'[i]
         /\ \A j \in Conns : j # i => /\ state'[j] = state[j] /\ downs'[j] = downs[j]
                                      /\ registered'[j] = registered[j]
<1>1. \A j \in Conns : /\ state[j] \in {"none", "kConnecting", "kConnected", "kDisconnected"}
                       /\ downs[j] \in Nat /\ registered[j] \in BOOLEAN
  BY Zenon DEF ConnType
<1>2. /\ state' = [j \in Conns |-> IF j \in Undone({i}) THEN "kDisconnected" ELSE state[j]]
      /\ downs' = [j \in Conns |-> IF j \in Undone({i}) THEN downs[j] + 1 ELSE downs[j]]
      /\ registered' = [j \in Conns |-> registered[j] /\ j \notin {i}]
  BY Zenon DEF ConnectDestroyed
<1>3. \A j \in Conns : j \in Undone({i}) <=> j = i /\ state[i] = "kConnected"
  BY Zenon DEF Undone
<1>4. \A j \in Conns : downs[j] + 1 \in Nat
  BY <1>1
<1>5. /\ state' \in [Conns -> {"none", "kConnecting", "kConnected", "kDisconnected"}]
      /\ state'[i] = IF state[i] = "kConnected" THEN "kDisconnected" ELSE state[i]
      /\ \A j \in Conns : j # i => state'[j] = state[j]
  BY Zenon, <1>1, <1>2, <1>3
<1>6. /\ downs' \in [Conns -> Nat]
      /\ downs'[i] = IF state[i] = "kConnected" THEN downs[i] + 1 ELSE downs[i]
      /\ \A j \in Conns : j # i => downs'[j] = downs[j]
  BY Zenon, <1>1, <1>2, <1>3, <1>4
<1>7. /\ registered' \in [Conns -> BOOLEAN] /\ ~registered'[i]
      /\ \A j \in Conns : j # i => registered'[j] = registered[j]
  BY Zenon, <1>1, <1>2
<1> QED
  BY Zenon, <1>5, <1>6, <1>7
\* connectDestroyed(), in the loop of the connection.
LEMMA RunDestroyedPreserves ==
  ASSUME IInv, NEW l \in Loops, NEW i \in Conns, IsNext(l, "connectDestroyed", i),
         RunFrame(l), ConnectDestroyed({i}), UNCHANGED <<connections, pendingFunctors, ups>>
  PROVE  IInv'
<1>1. TypeOK /\ ConnType /\ QueueType
  BY Zenon, IInvParts
<1>2. /\ functors' = functors /\ ran' = [ran EXCEPT ![l] = @ + 1] /\ loopOf' = loopOf
      /\ closed' = closed /\ nextConnId' = nextConnId /\ server' = server
      /\ numThreads' = numThreads
      /\ connections' = connections /\ pendingFunctors' = pendingFunctors /\ ups' = ups
  BY Zenon DEF RunFrame, startVars
<1>3. /\ TaleOf(i) /\ NoStray(i) /\ InOrder(i) /\ (state[i] = "none" <=> i >= nextConnId)
      /\ loopOf[i] \in Loops /\ base \in Loops
      /\ Est(i) \in Nat /\ Des(i) \in Nat /\ Rem(i) \in Nat /\ downs[i] \in Nat
  BY Zenon, ConnFacts
<1>4. pc[l] = "functors" /\ RunsNext(l) /\ Front(l) = Functor("connectDestroyed", i)
  BY Zenon, <1>2, NextIsFront
<1>5. "connectDestroyed" \in ConnNames
  BY Zenon, FunctorTypes
<1>6. /\ ran' \in [Loops -> Nat]
      /\ \A k \in Loops : ran[k] <= Len(functors[k]) => ran'[k] <= Len(functors'[k])
      /\ \A j \in Conns : j # i => SameOwed(j)
      /\ \A j \in Conns : InOrder(j) => InOrder(j)'
      /\ \A k \in Loops : \A m :
           /\ Owed(k, m, i) = IF k = l /\ m = "connectDestroyed" THEN Owed(k, m, i)' + 1
                                                                ELSE Owed(k, m, i)'
           /\ Owed(k, m, i)' \in Nat
      /\ InOrder(i) => Owed(l, "connectEstablished", i)' = 0
  BY Zenon, <1>1, <1>2, <1>4, <1>5, RunsFor
<1>7. /\ Owed(l, "connectDestroyed", i) = Owed(l, "connectDestroyed", i)' + 1
      /\ Owed(l, "connectDestroyed", i)' \in Nat
  BY Zenon, <1>6
<1>8. l = loopOf[i]
  <2>1. Owed(l, "connectDestroyed", i) # 0
    BY <1>7
  <2> QED
    BY Zenon, <1>3, <2>1 DEF NoStray
<1>9. /\ Est(i)' = Est(i) /\ Est(i)' = 0 /\ Rem(i)' = Rem(i)
      /\ Des(i) = Des(i)' + 1 /\ Des(i)' \in Nat
  <2>1. /\ "connectEstablished" # "connectDestroyed"
        /\ "removeConnection" # "connectDestroyed"
    OBVIOUS
  <2> QED
    BY Zenon, <1>2, <1>3, <1>6, <1>7, <1>8, <2>1 DEF Est, Des, Rem
<1>10. NoStray(i)'
  <2>1. \A k \in Loops :
          /\ k # loopOf[i] =>
               /\ Owed(k, "connectEstablished", i)' = Owed(k, "connectEstablished", i)
               /\ Owed(k, "connectDestroyed", i)' = Owed(k, "connectDestroyed", i)
          /\ k # base => Owed(k, "removeConnection", i)' = Owed(k, "removeConnection", i)
    BY Zenon, <1>6, <1>8
  <2> QED
    BY Zenon, <1>2, <1>3, <2>1, NoStrayFrame
<1>11. /\ state' \in [Conns -> {"none", "kConnecting", "kConnected", "kDisconnected"}]
       /\ state'[i] = IF state[i] = "kConnected" THEN "kDisconnected" ELSE state[i]
       /\ downs' \in [Conns -> Nat]
       /\ downs'[i] = IF state[i] = "kConnected" THEN downs[i] + 1 ELSE downs[i]
       /\ registered' \in [Conns -> BOOLEAN] /\ ~registered'[i]
       /\ \A j \in Conns : j # i => /\ state'[j] = state[j] /\ downs'[j] = downs[j]
                                    /\ registered'[j] = registered[j]
  BY Zenon, <1>1, DestroyOne
<1>12. ConnType'
  BY Zenon, <1>1, <1>2, <1>11 DEF ConnType
<1>13. StartInv' /\ Eases /\ (\A k \in Loops : LoopInv(k)') /\ TypeOK'
  <2>1. /\ pendingFunctors' \in [Loops -> Seq(QueuedFunctor)]
        /\ connections' \subseteq connections /\ (connections = {} => connections' = {})
    BY Zenon, <1>1, <1>2 DEF QueueType
  <2> QED
    BY Zenon, <1>4, <1>6, <1>12, <2>1, RunKeeps
<1>14. TaleOf(i)'
  BY SMTT(30), <1>2, <1>3, <1>9, <1>11 DEF TaleOf, Tale
<1>15. ConnInv(i)'
  <2>1. state'[i] = "none" <=> state[i] = "none"
    BY Zenon, <1>11
  <2> QED
    BY Zenon, <1>2, <1>3, <1>6, <1>10, <1>14, <2>1 DEF ConnInv
<1>16. ASSUME NEW j \in Conns, j # i PROVE Same(j)
  BY Zenon, <1>2, <1>11, <1>16 DEF Same
<1> QED
  BY Zenon, <1>6, <1>13, <1>15, <1>16, OneTouched

\* removeConnectionInLoop(), in the base loop.
LEMMA RunRemovePreserves ==
  ASSUME IInv, NEW l \in Loops, NEW i \in Conns, IsNext(l, "removeConnection", i),
         RunFrame(l), MayRun(l), server # "dead", RemoveConnectionInLoop(i),
         UNCHANGED <<state, registered, ups, downs>>
  PROVE  IInv'
<1>1. TypeOK /\ ConnType /\ QueueType /\ PoolType
  BY Zenon, IInvParts
<1>2. /\ functors' = functors /\ ran' = [ran EXCEPT ![l] = @ + 1] /\ loopOf' = loopOf
      /\ closed' = closed /\ nextConnId' = nextConnId /\ server' = server
      /\ numThreads' = numThreads
      /\ state' = state /\ registered' = registered /\ ups' = ups /\ downs' = downs
      /\ UNCHANGED connVars
  BY Zenon DEF RunFrame, startVars, connVars
<1>3. /\ TaleOf(i) /\ NoStray(i) /\ InOrder(i) /\ (state[i] = "none" <=> i >= nextConnId)
      /\ loopOf[i] \in Loops /\ base \in Loops
      /\ Est(i) \in Nat /\ Des(i) \in Nat /\ Rem(i) \in Nat
  BY Zenon, ConnFacts
<1>4. pc[l] = "functors" /\ RunsNext(l) /\ Front(l) = Functor("removeConnection", i)
  BY Zenon, <1>2, NextIsFront
<1>5. connections' = connections \ {i} /\ Appends(loopOf[i], Functor("connectDestroyed", i))
  BY Zenon DEF RemoveConnectionInLoop, Appends
<1>6. /\ ran' \in [Loops -> Nat] /\ pendingFunctors' \in [Loops -> Seq(QueuedFunctor)]
      /\ \A k \in Loops : ran[k] <= Len(functors[k]) => ran'[k] <= Len(functors'[k])
      /\ \A j \in Conns : j # i => SameOwed(j)
      /\ \A j \in Conns : InOrder(j) => InOrder(j)'
      /\ \A k \in Loops :
           /\ Owed(k, "connectEstablished", i)' = Owed(k, "connectEstablished", i)
           /\ Owed(k, "connectDestroyed", i)' =
                IF k = loopOf[i] THEN Owed(k, "connectDestroyed", i) + 1
                                 ELSE Owed(k, "connectDestroyed", i)
           /\ Owed(k, "removeConnection", i) =
                IF k = l THEN Owed(k, "removeConnection", i)' + 1
                         ELSE Owed(k, "removeConnection", i)'
           /\ Owed(k, "removeConnection", i)' \in Nat
  BY Zenon, <1>1, <1>3, <1>4, <1>5, RunsAndQueuesFor
<1>7. /\ Owed(l, "removeConnection", i) = Owed(l, "removeConnection", i)' + 1
      /\ Owed(l, "removeConnection", i)' \in Nat
  BY Zenon, <1>6
<1>8. l = base
  <2>1. Owed(l, "removeConnection", i) # 0
    BY <1>7
  <2> QED
    BY Zenon, <1>3, <2>1 DEF NoStray
<1>9. server = "up"
  BY Zenon, <1>1, <1>8 DEF MayRun, PoolType
<1>10. /\ Est(i)' = Est(i) /\ Des(i)' = Des(i) + 1
       /\ Rem(i) = Rem(i)' + 1 /\ Rem(i)' \in Nat
  BY Zenon, <1>2, <1>3, <1>6, <1>7, <1>8 DEF Est, Des, Rem
<1>11. NoStray(i)'
  BY Zenon, <1>2, <1>3, <1>6, <1>8, NoStrayFrame
<1>12. StartInv' /\ Eases /\ (\A k \in Loops : LoopInv(k)') /\ TypeOK'
  <2>1. connections' \subseteq connections /\ (connections = {} => connections' = {})
    BY Zenon, <1>5
  <2>2. ConnType'
    BY Zenon, <1>1, <1>2, ConnTypeFrame
  <2> QED
    BY Zenon, <1>4, <1>6, <2>1, <2>2, RunKeeps
<1>13. i \notin connections' /\ \A j \in Conns : j # i => (j \in connections' <=> j \in connections)
  BY Zenon, <1>5
<1>14. TaleOf(i)'
  BY SMTT(30), <1>2, <1>3, <1>9, <1>10, <1>13 DEF TaleOf, Tale
<1>15. ConnInv(i)'
  BY Zenon, <1>2, <1>3, <1>6, <1>11, <1>14 DEF ConnInv
<1>16. ASSUME NEW j \in Conns, j # i PROVE Same(j)
  BY Zenon, <1>2, <1>13, <1>16 DEF Same
<1> QED
  BY Zenon, <1>6, <1>12, <1>15, <1>16, OneTouched

LEMMA RunFunctorPreserves ==
  ASSUME IInv, NEW l \in Loops, NEW i \in Conns, RunFunctor(l, i)
  PROVE  IInv'
<1>1. RunFrame(l) /\ MayRun(l)
  BY Zenon DEF RunFunctor, RunFrame
<1>2. \/ /\ IsNext(l, "connectEstablished", i)
         /\ ConnectEstablished(i)
         /\ UNCHANGED <<connections, pendingFunctors, downs>>
      \/ /\ IsNext(l, "connectDestroyed", i)
         /\ ConnectDestroyed({i})
         /\ UNCHANGED <<connections, pendingFunctors, ups>>
      \/ /\ IsNext(l, "removeConnection", i)
         /\ server # "dead"
         /\ RemoveConnectionInLoop(i)
         /\ UNCHANGED <<state, registered, ups, downs>>
  BY Zenon DEF RunFunctor
<1> QED
  BY Zenon, <1>1, <1>2, RunEstablishedPreserves, RunDestroyedPreserves, RunRemovePreserves
\* A batch is done; a loop that has been told to quit ends, and drops its queue.
LEMMA FunctorsDonePreserves ==
  ASSUME IInv, NEW x \in Loops, FunctorsDone(x)
  PROVE  IInv'
<1>1. /\ TypeOK /\ StartInv /\ StartType /\ PoolType /\ PcType /\ QueueType /\ ConnType
      /\ \A l \in Loops : LoopInv(l)
  BY Zenon, IInvParts
<1>2. /\ ran[x] = Len(functors[x])
      /\ pc' = [pc EXCEPT ![x] = IF quit[x] THEN "exited" ELSE "poll"]
      /\ functors' = [functors EXCEPT ![x] = <<>>] /\ ran' = [ran EXCEPT ![x] = 0]
      /\ pendingFunctors' = IF quit[x] THEN [pendingFunctors EXCEPT ![x] = <<>>]
                                       ELSE pendingFunctors
      /\ registered' = [i \in Conns |-> registered[i] /\ ~(quit[x] /\ loopOf[i] = x)]
      /\ UNCHANGED <<startVars, listenning>> /\ UNCHANGED <<poolVars, server>>
      /\ server' = server /\ quit' = quit /\ state' = state /\ loopOf' = loopOf
      /\ closed' = closed /\ ups' = ups /\ downs' = downs
  BY Zenon DEF FunctorsDone
<1>3. /\ numThreads' = numThreads /\ caller' = caller /\ listenning' = listenning
      /\ next' = next /\ nextConnId' = nextConnId /\ connections' = connections
  BY Zenon, <1>2 DEF startVars, poolVars
<1>4. quit[x] \in BOOLEAN
  BY Zenon, <1>1 DEF PcType
<1>5. /\ functors' \in [Loops -> Seq(QueuedFunctor)] /\ ran' \in [Loops -> Nat]
      /\ pendingFunctors' \in [Loops -> Seq(QueuedFunctor)]
      /\ functors'[x] = <<>> /\ ran'[x] = 0
      /\ quit[x] => pendingFunctors'[x] = <<>>
      /\ ~quit[x] => pendingFunctors' = pendingFunctors
      /\ \A l \in Loops : l # x => /\ functors'[l] = functors[l] /\ ran'[l] = ran[l]
                                   /\ pendingFunctors'[l] = pendingFunctors[l]
      /\ \A l \in Loops : \A n, i :
           Owed(l, n, i)' = IF quit[x] /\ l = x THEN 0 ELSE Owed(l, n, i)
      /\ \A i : InOrder(i) => InOrder(i)'
  BY Zenon, <1>1, <1>2, <1>4, Dones
<1>6. /\ pc' \in [Loops -> {"poll", "functors", "exited"}]
      /\ \A l \in Loops : l # x => pc'[l] = pc[l]
  <2>1. (IF quit[x] THEN "exited" ELSE "poll") \in {"poll", "functors", "exited"}
    BY Zenon
  <2> QED
    BY Zenon, <1>1, <1>2, <2>1, FunctionSet DEF PcType
<1>7. \A i \in Conns : registered[i] \in BOOLEAN
  BY Zenon, <1>1 DEF ConnType
<1>8. /\ registered' \in [Conns -> BOOLEAN]
      /\ \A i \in Conns : /\ ~quit[x] \/ loopOf[i] # x => registered'[i] = registered[i]
                          /\ quit[x] /\ loopOf[i] = x => ~registered'[i]
  BY Zenon, <1>2, <1>7
<1>9. TypeOK'
  <2>1. PcType' /\ QueueType'
    BY Zenon, <1>1, <1>2, <1>5, <1>6 DEF PcType, QueueType
  <2>2. ConnType'
    BY Zenon, <1>1, <1>2, <1>8 DEF ConnType
  <2> QED
    BY Zenon, <1>1, <1>2, <2>1, <2>2, TypeNext, StartTypeFrame, PoolTypeFrame
<1>10. StartInv'
  <2>1. \A l \in Loops : /\ pendingFunctors'[l] \in {pendingFunctors[l], <<>>}
                         /\ functors'[l] \in {functors[l], <<>>}
    BY Zenon, <1>5
  <2> QED
    BY Zenon, <1>1, <1>3, <2>1 DEF StartInv
<1>11. ASSUME NEW l \in Loops PROVE LoopInv(l)'
  <2>1. CASE l = x
    <3>1. ran'[x] <= Len(functors'[x])
      BY <1>5
    <3> QED
      BY Zenon, <1>1, <1>2, <1>3, <1>5, <2>1, <3>1 DEF LoopInv
  <2>2. CASE l # x
    BY Zenon, <1>1, <1>2, <1>3, <1>5, <1>6, <2>2, LoopFrame
  <2> QED
    BY Zenon, <2>1, <2>2
<1>12. Eases
  BY Zenon, <1>2, <1>3 DEF Eases
<1>13. ASSUME NEW i \in Conns PROVE ConnInv(i)'
  <2>1. /\ TaleOf(i) /\ NoStray(i) /\ InOrder(i) /\ ConnInv(i)
        /\ state[i] = "none" <=> i >= nextConnId
        /\ loopOf[i] \in Loops /\ base \in Loops /\ loopOf'[i] = loopOf[i]
        /\ InOrder(i)'
    BY Zenon, <1>2, <1>5, ConnFacts, IInvParts
  <2>2. CASE ~quit[x]
    <3>1. Same(i) /\ SameOwed(i)
      BY Zenon, <1>2, <1>3, <1>5, <1>8, <2>2 DEF Same, SameOwed
    <3> QED
      BY Zenon, <1>1, <1>12, <2>1, <3>1, ConnFrame
  <2>3. CASE quit[x]
    <3>1. server # "up" /\ connections = {} /\ x \in 1 .. numThreads
      BY Zenon, <1>1, <2>3 DEF LoopInv
    <3>2. x # base /\ numThreads # 0
      <4>1. numThreads \in 0 .. MaxThreads
        BY Zenon, <1>1 DEF StartType
      <4> QED
        BY <3>1, <4>1 DEF base
    <3>3. \A l \in Loops : \A n : /\ l = x => Owed(l, n, i)' = 0
                                  /\ l # x => Owed(l, n, i)' = Owed(l, n, i)
      BY Zenon, <1>5, <2>3
    <3>4. CASE loopOf[i] # x
      <4>1. SameOwed(i)
        BY Zenon, <2>1, <3>2, <3>3, <3>4 DEF SameOwed, NoStray
      <4>2. Same(i)
        BY Zenon, <1>2, <1>3, <1>8, <3>4 DEF Same
      <4> QED
        BY Zenon, <1>1, <1>12, <2>1, <4>1, <4>2, ConnFrame
    <3>5. CASE loopOf[i] = x
      <4>1. Est(i)' = 0 /\ Des(i)' = 0 /\ Rem(i)' = Rem(i) /\ ~registered'[i]
        BY Zenon, <1>8, <2>1, <2>3, <3>2, <3>3, <3>5 DEF Est, Des, Rem
      <4>2. NoStray(i)'
        BY Zenon, <2>1, <3>2, <3>3, <3>5 DEF NoStray
      <4>3. TaleOf(i)'
        BY SMTT(30), <1>2, <1>3, <2>1, <3>1, <3>2, <4>1 DEF TaleOf, Tale
      <4> QED
        BY Zenon, <1>2, <1>3, <2>1, <4>2, <4>3 DEF ConnInv
    <3> QED
      BY Zenon, <3>4, <3>5
  <2> QED
    BY Zenon, <2>2, <2>3
<1> QED
  BY Zenon, <1>9, <1>10, <1>11, <1>13 DEF IInv

\* A thread of the pool is told to quit.
LEMMA QuitLoopPreserves ==
  ASSUME IInv, NEW x \in Loops, QuitLoop(x)
  PROVE  IInv'
<1>1. /\ TypeOK /\ StartInv /\ StartType /\ PoolType /\ PcType /\ QueueType /\ ConnType
      /\ \A l \in Loops : LoopInv(l)
  BY Zenon, IInvParts
<1>2. /\ server = "dying" /\ connections = {} /\ x \in 1 .. numThreads
      /\ quit' = [quit EXCEPT ![x] = TRUE]
      /\ UNCHANGED <<startVars, listenning>> /\ UNCHANGED poolVars
      /\ UNCHANGED <<poolVars, server>> /\ server' = server /\ pc' = pc
      /\ functors' = functors /\ ran' = ran /\ pendingFunctors' = pendingFunctors
      /\ UNCHANGED connVars /\ UNCHANGED <<pendingFunctors, functors, ran>>
  BY Zenon DEF QuitLoop
<1>3. /\ numThreads' = numThreads /\ caller' = caller /\ listenning' = listenning
      /\ next' = next /\ nextConnId' = nextConnId /\ connections' = connections
  BY Zenon, <1>2 DEF startVars, poolVars
<1>4. /\ quit' \in [Loops -> BOOLEAN] /\ quit'[x]
      /\ \A l \in Loops : l # x => quit'[l] = quit[l]
  BY Zenon, <1>1, <1>2, FunctionSet DEF PcType
<1>5. TypeOK'
  <2>1. PcType'
    BY Zenon, <1>1, <1>2, <1>4 DEF PcType
  <2> QED
    BY Zenon, <1>1, <1>2, <2>1, TypeNext, StartTypeFrame, PoolTypeFrame, QueueTypeFrame,
       ConnTypeFrame
<1>6. StartInv'
  BY Zenon, <1>1, <1>2, <1>3, StartFrame
<1>7. ASSUME NEW l \in Loops PROVE LoopInv(l)'
  <2>1. CASE l = x
    <3>1. server' # "up"
      BY Zenon, <1>2
    <3> QED
      BY Zenon, <1>1, <1>2, <1>3, <2>1, <3>1 DEF LoopInv
  <2>2. CASE l # x
    BY Zenon, <1>1, <1>2, <1>3, <1>4, <2>2, LoopFrame
  <2> QED
    BY Zenon, <2>1, <2>2
<1>8. \A i \in Conns : SameOwed(i) /\ (InOrder(i) => InOrder(i)')
  BY Zenon, <1>2, Steady DEF SameOwed
<1>9. \A i \in Conns : ConnInv(i)'
  BY Zenon, <1>2, <1>3, <1>8, NoConnectionTouched
<1> QED
  BY Zenon, <1>5, <1>6, <1>7, <1>9 DEF IInv
\* The destructor destroys a connection, or asks its loop to.
LEMMA DestroyConnectionPreserves ==
  ASSUME IInv, NEW i \in Conns, DestroyConnection(i)
  PROVE  IInv'
<1>1. /\ TypeOK /\ StartInv /\ StartType /\ PoolType /\ PcType /\ QueueType /\ ConnType
      /\ \A l \in Loops : LoopInv(l)
  BY Zenon, IInvParts
<1>2. /\ server = "dying" /\ i \in connections /\ connections' = connections \ {i}
      /\ UNCHANGED <<startVars, listenning>> /\ next' = next /\ nextConnId' = nextConnId
      /\ server' = server /\ UNCHANGED <<pc, quit>> /\ pc' = pc /\ quit' = quit
      /\ functors' = functors /\ ran' = ran /\ loopOf' = loopOf /\ closed' = closed
      /\ ups' = ups
  BY Zenon DEF DestroyConnection, loopVars
<1>3. /\ loopOf[i] = base => ConnectDestroyed({i}) /\ pendingFunctors' = pendingFunctors
      /\ loopOf[i] # base => /\ Appends(loopOf[i], Functor("connectDestroyed", i))
                             /\ state' = state /\ registered' = registered /\ downs' = downs
  BY Zenon DEF DestroyConnection, Appends
<1>4. /\ TaleOf(i) /\ NoStray(i) /\ InOrder(i) /\ (state[i] = "none" <=> i >= nextConnId)
      /\ loopOf[i] \in Loops /\ base \in Loops
      /\ Est(i) \in Nat /\ Des(i) \in Nat /\ Rem(i) \in Nat /\ downs[i] \in Nat
  BY Zenon, ConnFacts
<1>5. numThreads' = numThreads /\ caller' = caller
  BY Zenon, <1>2 DEF startVars
<1>6. state[i] # "none"
  BY <1>2, <1>4 DEF TaleOf, Tale
<1>7. /\ connections' \subseteq connections /\ i \notin connections'
      /\ \A j \in Conns : j # i => (j \in connections' <=> j \in connections)
  BY Zenon, <1>2
<1>8. StartInv'
  <2>1. \E t \in Callers : caller'[t] # "not yet"
    BY Zenon, <1>5, <1>6, NoneBeforeStart
  <2> QED
    BY Zenon, <1>1, <1>2, <1>5, <2>1, StartFrame
<1>9. \A l \in Loops : LoopInv(l)'
  <2>1. connections = {} => connections' = {}
    BY Zenon, <1>7
  <2> QED
    BY Zenon, <1>1, <1>2, <1>5, <2>1, LoopRuns
<1>10. Eases
  BY Zenon, <1>2, <1>5 DEF Eases
<1>11. StartType' /\ PoolType' /\ PcType'
  <2>1. PoolType'
    BY Zenon, <1>1, <1>2, <1>7 DEF PoolType
  <2> QED
    BY Zenon, <1>1, <1>2, <2>1, StartTypeFrame, PcTypeFrame
<1>12. CASE loopOf[i] = base
  <2>1. ConnectDestroyed({i}) /\ pendingFunctors' = pendingFunctors
    BY Zenon, <1>3, <1>12
  <2>2. /\ state' \in [Conns -> {"none", "kConnecting", "kConnected", "kDisconnected"}]
        /\ state'[i] = IF state[i] = "kConnected" THEN "kDisconnected" ELSE state[i]
        /\ downs' \in [Conns -> Nat]
        /\ downs'[i] = IF state[i] = "kConnected" THEN downs[i] + 1 ELSE downs[i]
        /\ registered' \in [Conns -> BOOLEAN] /\ ~registered'[i]
        /\ \A j \in Conns : j # i => /\ state'[j] = state[j] /\ downs'[j] = downs[j]
                                     /\ registered'[j] = registered[j]
    BY Zenon, <1>1, <2>1, DestroyOne
  <2>3. TypeOK'
    <3>1. ConnType' /\ QueueType'
      BY Zenon, <1>1, <1>2, <2>1, <2>2 DEF ConnType, QueueType
    <3> QED
      BY Zenon, <1>11, <3>1, TypeNext
  <2>4. (\A l, m, j : Owed(l, m, j)' = Owed(l, m, j)) /\ (\A j : InOrder(j)' <=> InOrder(j))
    BY Zenon, <1>2, <2>1, Steady
  <2>5. ASSUME NEW j \in Conns, j # i PROVE Same(j) /\ SameOwed(j) /\ (InOrder(j) => InOrder(j)')
    <3>1. Same(j)
      BY Zenon, <1>2, <1>7, <2>2, <2>5 DEF Same
    <3> QED
      BY Zenon, <2>4, <3>1 DEF SameOwed
  <2>6. Est(i)' = Est(i) /\ Des(i)' = Des(i) /\ Rem(i)' = Rem(i)
    BY Zenon, <1>2, <2>4 DEF Est, Des, Rem
  <2>7. NoStray(i)'
    BY Zenon, <1>2, <1>4, <2>4 DEF NoStray
  <2>8. TaleOf(i)'
    BY SMTT(30), <1>2, <1>4, <1>5, <1>7, <1>12, <2>2, <2>6 DEF TaleOf, Tale
  <2>9. ConnInv(i)'
    <3>1. state'[i] # "none"
      BY Zenon, <1>6, <2>2
    <3> QED
      BY Zenon, <1>2, <1>4, <1>6, <2>4, <2>7, <2>8, <3>1 DEF ConnInv
  <2> QED
    BY Zenon, <1>8, <1>9, <1>10, <2>3, <2>5, <2>9, OneTouched
<1>13. CASE loopOf[i] # base
  <2>1. /\ Appends(loopOf[i], Functor("connectDestroyed", i))
        /\ state' = state /\ registered' = registered /\ downs' = downs
    BY Zenon, <1>3, <1>13
  <2>2. "connectDestroyed" \in ConnNames /\ "connectDestroyed" # "connectEstablished"
    BY Zenon, FunctorTypes
  <2>3. /\ pendingFunctors' \in [Loops -> Seq(QueuedFunctor)]
        /\ \A j \in Conns : j # i => SameOwed(j) /\ (InOrder(j) => InOrder(j)')
        /\ \A l \in Loops : \A m :
             Owed(l, m, i)' = IF l = loopOf[i] /\ m = "connectDestroyed"
                                THEN Owed(l, m, i) + 1 ELSE Owed(l, m, i)
        /\ InOrder(i) => InOrder(i)'
    BY Zenon, <1>1, <1>2, <1>4, <2>1, <2>2, QueuesFor
  <2>4. TypeOK'
    <3>1. ConnType' /\ QueueType'
      BY Zenon, <1>1, <1>2, <2>1, <2>3 DEF ConnType, QueueType
    <3> QED
      BY Zenon, <1>11, <3>1, TypeNext
  <2>5. ASSUME NEW j \in Conns, j # i PROVE Same(j)
    BY Zenon, <1>2, <1>7, <2>1, <2>5 DEF Same
  <2>6. Est(i)' = Est(i) /\ Des(i)' = Des(i) + 1 /\ Rem(i)' = Rem(i)
    BY Zenon, <1>2, <1>4, <2>3 DEF Est, Des, Rem
  <2>7. NoStray(i)'
    <3>1. \A l \in Loops :
            /\ l # loopOf[i] =>
                 /\ Owed(l, "connectEstablished", i)' = Owed(l, "connectEstablished", i)
                 /\ Owed(l, "connectDestroyed", i)' = Owed(l, "connectDestroyed", i)
            /\ l # base => Owed(l, "removeConnection", i)' = Owed(l, "removeConnection", i)
      BY Zenon, <2>3
    <3> QED
      BY Zenon, <1>2, <1>4, <3>1, NoStrayFrame
  <2>8. TaleOf(i)'
    <3>1. /\ state'[i] = state[i] /\ registered'[i] = registered[i] /\ downs'[i] = downs[i]
          /\ ups'[i] = ups[i] /\ loopOf'[i] = loopOf[i] /\ server' = "dying"
          /\ server = "dying" /\ i \in connections /\ i \notin connections'
      BY Zenon, <1>2, <1>7, <2>1
    <3>2. /\ Des(i) = 0 /\ Des(i)' = 1 /\ (registered[i] \/ Est(i)' = 1)
      <4>1. state[i] \in {"none", "kConnecting", "kConnected", "kDisconnected"}
        BY Zenon, ConnFacts
      <4> QED
        BY SMTT(30), <1>4, <1>6, <2>6, <3>1, <4>1 DEF TaleOf, Tale
    <3> QED
      BY SMTT(30), <1>4, <1>5, <1>13, <2>6, <3>1, <3>2 DEF TaleOf, Tale
  <2>9. ConnInv(i)'
    BY Zenon, <1>2, <1>4, <2>1, <2>3, <2>7, <2>8 DEF ConnInv
  <2> QED
    BY Zenon, <1>8, <1>9, <1>10, <2>3, <2>4, <2>5, <2>9, OneTouched
<1> QED
  BY Zenon, <1>12, <1>13

LEMMA NextIInv == IInv /\ [Next]_vars => IInv'
<1> SUFFICES ASSUME IInv, [Next]_vars PROVE IInv'
  BY Zenon
<1>1. ASSUME NEW n \in 1 .. MaxThreads, SetThreadNum(n) PROVE IInv'
  BY Zenon, <1>1, SetThreadNumPreserves
<1>2. ASSUME NEW t \in Callers, StartStep(t) PROVE IInv'
  BY Zenon, <1>2, StartPreserves, StartListenPreserves DEF StartStep
<1>3. ASSUME NEW l \in Loops, LoopStep(l) PROVE IInv'
  BY Zenon, <1>3, TakeFunctorsPreserves, RunFunctorPreserves, FunctorsDonePreserves,
     HandleClosePreserves DEF LoopStep
<1>4. ASSUME DtorStep PROVE IInv'
  BY Zenon, <1>4, DestroyConnectionPreserves, QuitLoopPreserves, ServerPreserves DEF DtorStep
<1>5. CASE Next
  BY Zenon, <1>1, <1>2, <1>3, <1>4, <1>5, NewConnectionPreserves, RunListenPreserves,
     ServerPreserves DEF Next
<1>6. CASE UNCHANGED vars
  BY Zenon, <1>6, ServerPreserves
<1> QED
  BY Zenon, <1>5, <1>6

-----------------------------------------------------------------------------
(***************************************************************************)
(* What the invariant says of the connections.                             *)
(***************************************************************************)

\* For a connection that nothing refers to, nothing is on its way.
LEMMA DeadIsDone ==
  ASSUME TypeOK, NEW i \in Conns, ~Alive(i), NEW l \in Loops, NEW n
  PROVE  Owed(l, n, i) = 0
<1>1. /\ \A k \in DOMAIN functors[l] : functors[l][k].conn # i
      /\ \A k \in DOMAIN pendingFunctors[l] : pendingFunctors[l][k].conn # i
  BY Zenon DEF Alive, Referred
<1>2. Functor(n, i).conn = i
  BY Zenon, FunctorsApart
<1>3. /\ functors[l] \in Seq(QueuedFunctor) /\ Len(functors[l]) \in Nat
      /\ pendingFunctors[l] \in Seq(QueuedFunctor) /\ Len(pendingFunctors[l]) \in Nat
      /\ ran[l] \in Nat /\ ran[l] + 1 \in Nat /\ 1 \in Nat
  <2>1. 1 \in Nat
    OBVIOUS
  <2> QED
    BY Zenon, <2>1, QueueTypes
<1>4. /\ \A k \in ran[l] + 1 .. Len(functors[l]) : k \in DOMAIN functors[l]
      /\ \A k \in 1 .. Len(pendingFunctors[l]) : k \in DOMAIN pendingFunctors[l]
  BY <1>3
<1>5. /\ Count(functors[l], ran[l] + 1, Functor(n, i)) = 0
      /\ Count(pendingFunctors[l], 1, Functor(n, i)) = 0
  <2>1. \A k \in ran[l] + 1 .. Len(functors[l]) : functors[l][k] # Functor(n, i)
    BY Zenon, <1>1, <1>2, <1>4
  <2>2. \A k \in 1 .. Len(pendingFunctors[l]) : pendingFunctors[l][k] # Functor(n, i)
    BY Zenon, <1>1, <1>2, <1>4
  <2> QED
    BY Zenon, <1>3, <2>1, <2>2, CountNat
<1> QED
  BY Zenon, <1>5, OwedNat

LEMMA IInvLiveOnce == IInv => ConnectionsLiveOnce
<1> SUFFICES ASSUME IInv PROVE LifeInv /\ UpThenDown
  BY Zenon DEF ConnectionsLiveOnce
<1>1. TypeOK
  BY Zenon, IInvParts
<1>2. ASSUME NEW i \in Conns, server # "dead"
      PROVE  /\ i \in connections => /\ Est(i) = (IF state[i] = "kConnecting" THEN 1 ELSE 0)
                                     /\ Rem(i) = (IF state[i] = "kDisconnected" THEN 1 ELSE 0)
                                     /\ Des(i) = 0
             /\ i \notin connections /\ registered[i] =>
                  Des(i) = 1 /\ (server = "up" => Rem(i) = 0)
  <2>1. TaleOf(i)
    BY Zenon, ConnFacts
  <2> QED
    BY <1>2, <2>1 DEF TaleOf, Tale
<1>3. LifeInv
  BY Zenon, <1>1, <1>2 DEF LifeInv, Est, Des, Rem
<1>4. ASSUME NEW i \in Conns
      PROVE  /\ downs[i] <= ups[i] /\ ups[i] <= 1
             /\ (server = "up" \/ numThreads = 0) /\ state[i] # "none" /\ ~Alive(i)
                  => ~registered[i] /\ downs[i] = ups[i]
  <2>1. /\ TaleOf(i) /\ loopOf[i] \in Loops
        /\ state[i] \in {"none", "kConnecting", "kConnected", "kDisconnected"}
    BY Zenon, ConnFacts
  <2>2. ~Alive(i) => i \notin connections /\ Des(i) = 0 /\ Est(i) = 0
    BY Zenon, <1>1, <2>1, DeadIsDone DEF Alive, Des, Est
  <2>3. downs[i] <= ups[i] /\ ups[i] <= 1
    BY <2>1 DEF TaleOf, Tale
  <2>4. /\ (server = "up" \/ numThreads = 0) /\ state[i] # "none" /\ ~Alive(i)
             => ~registered[i] /\ downs[i] = ups[i]
    BY <2>1, <2>2 DEF TaleOf, Tale
  <2> QED
    BY Zenon, <2>3, <2>4
<1> QED
  BY Zenon, <1>3, <1>4 DEF UpThenDown

\* However many threads, connections and callers of start() there are: in every
\* interleaving of the base loop, the I/O loops and the destructor a connection
\* is established once, removed once, and destroyed once, and its callback
\* reports it up once and then down once.  One whose connectDestroyed() is dropped
\* by a loop that quits in ~TcpServer() is not reported down.
THEOREM ConnectionsLiveOnceCorrect == Spec => []ConnectionsLiveOnce
<1>1. Init => IInv
  BY InitIInv
<1>2. IInv /\ [Next]_vars => IInv'
  BY NextIInv
<1>3. IInv => ConnectionsLiveOnce
  BY IInvLiveOnce
<1> QED
  BY <1>1, <1>2, <1>3, PTL DEF Spec
=============================================================================
