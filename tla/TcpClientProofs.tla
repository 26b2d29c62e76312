-------------------------- MODULE TcpClientProofs ---------------------------
(***************************************************************************)
(* OneAttemptOneSocket and NothingCallsTheDead hold in every reachable     *)
(* state of TcpClient, for any identities of connections and any delays.   *)
(***************************************************************************)
EXTENDS TcpClient, FiniteSetTheorems, TLAPS

start == Functor("startInLoop", 0)
stop == Functor("stopInLoop", 0)
reset == Functor("resetChannel", 0)
destroyed(i) == Functor("connectDestroyed", i)
Functors == {start, stop, reset} \cup {destroyed(i) : i \in Conns}

\* The functors that have not been run, in order.
Left == Len(functors) - ran
ToRun ==
  [k \in 1 .. Left + Len(pendingFunctors) |->
     IF k <= Left THEN functors[ran + k] ELSE pendingFunctors[k - Left]]

Has(s, f) == \E k \in DOMAIN s : s[k] = f

\* No functor but stopInLoop() is there twice.
Apart(s) == \A j, k \in DOMAIN s : s[j] = s[k] /\ j # k => s[j] = stop

QueueTypeOK ==
  /\ functors \in Seq(Functors)
  /\ pendingFunctors \in Seq(Functors)
  /\ ran <= Len(functors)
  /\ call \in {<<"none", 0>>, <<"connect", 1>>, <<"connect", 2>>, <<"stop", 1>>,
               <<"stop", 2>>, <<"disconnect", 1>>}

\* The functors that matter to what the client does.
StartQueued == Has(ToRun, start)
StopQueued == Has(ToRun, stop)
ResetQueued == Has(ToRun, reset)
Up == Cardinality(Registered)

\* connect() has not been called, or is being called by the other thread, or
\* has queued startInLoop().
Asked ==
  One("connect" \notin called) + One(call[1] = "connect") + One(StartQueued)

\* The one thing that the client does: it may be started, or waits to try again,
\* or connects, or is connected, or restarts.
Doing ==
  Asked + timers + due + One(channel = "watched") + Up + One(pc = "restart")

\* startInLoop() finds kDisconnected and no channel, whoever calls it.
StartInv ==
  /\ ~aborted
  /\ Doing <= 1
  /\ channel = "watched" <=> state = "kConnecting"
  /\ Asked > 0 => state = "kDisconnected" /\ channel = "null"
  /\ timers + due > 0 => state = "kDisconnected"
  /\ due > 0 \/ pc = "restart" => channel = "null"

\* resetChannel() and connectDestroyed() are queued once for each channel that
\* was removed and for each connection that was closed.
QueueInv ==
  /\ Apart(ToRun)
  /\ ResetQueued <=> channel = "removed"
  /\ \A i \in Conns : Has(ToRun, destroyed(i)) <=> conns[i] = "closed"

\* What poll() reported is still there when it is handled, and a connection
\* that is made in one iteration of the loop is reported in a later one, when
\* the channel that made it has been reset.
IterationInv ==
  /\ pc # "functors" => functors = <<>> /\ ran = 0
  /\ pc \in {"poll", "functors"} => active = {} /\ due = 0
  /\ active \subseteq Registered \cup {0}
  /\ 0 \in active => channel = "watched"
  /\ active \ {0} # {} => channel = "null"
  /\ channel = "removed" /\ Registered # {} =>
       \/ pc = "handling"
       \/ pc = "functors" /\ \E k \in ran + 1 .. Len(functors) : functors[k] = reset

\* The connection that the client knows is the one that knows the client.
OwnerInv ==
  /\ \A i \in Registered : closeCallback[i] = "client" => connection = i
  /\ client = "alive" => \A i \in Registered : closeCallback[i] = "client"
  /\ client = "alive" /\ connection # 0 => connection \in Registered

\* What is left when the client is gone, and when its connector is.
DeadInv ==
  /\ client = "dead" =>
       /\ call[1] = "none" /\ pc # "restart" /\ ~StartQueued
       /\ ~StopQueued /\ channel # "watched"
       /\ timers + due > 0 => ~connect
       /\ \A i \in Registered : closeCallback[i] = "detail"
  /\ ~connectorRefs => client = "dead" /\ channel = "null"

IInv ==
  /\ TypeOK
  /\ QueueTypeOK
  /\ StartInv
  /\ QueueInv
  /\ IterationInv
  /\ OwnerInv
  /\ DeadInv
  /\ NoSocketLeaks

-----------------------------------------------------------------------------
(***************************************************************************)
(* The queue of functors.                                                  *)
(***************************************************************************)

\* A functor is queued, and the first functor is run.
Appended(s, t, f) ==
  \E n \in Nat : /\ DOMAIN s = 1 .. n /\ DOMAIN t = 1 .. n + 1
                 /\ \A i \in 1 .. n : t[i] = s[i]
                 /\ t[n + 1] = f
Follows(s, t) ==
  \E n \in Nat : /\ DOMAIN s = 1 .. n + 1 /\ DOMAIN t = 1 .. n
                 /\ \A i \in 1 .. n : t[i] = s[i + 1]

\* What a functor that is queued adds.
LEMMA HasAppend ==
  ASSUME NEW s, NEW t, NEW f, Appended(s, t, f)
  PROVE  /\ \A g : Has(t, g) <=> Has(s, g) \/ g = f
         /\ Apart(s) /\ (~Has(s, f) \/ f = stop) => Apart(t)
<1> PICK n \in Nat : /\ DOMAIN s = 1 .. n /\ DOMAIN t = 1 .. n + 1
                     /\ \A i \in 1 .. n : t[i] = s[i]
                     /\ t[n + 1] = f
  BY Zenon DEF Appended
<1>1. DOMAIN t = DOMAIN s \cup {n + 1} /\ n + 1 \notin DOMAIN s
  OBVIOUS
<1>2. \A i \in DOMAIN s : t[i] = s[i]
  BY Zenon
<1>3. \A g : Has(t, g) <=> Has(s, g) \/ g = f
  BY <1>1, <1>2, Zenon DEF Has
<1>4. ASSUME Apart(s), ~Has(s, f) \/ f = stop PROVE Apart(t)
  <2> SUFFICES ASSUME NEW j \in DOMAIN t, NEW k \in DOMAIN t, t[j] = t[k], j # k
               PROVE  t[j] = stop
    BY Zenon DEF Apart
  <2>1. CASE j \in DOMAIN s /\ k \in DOMAIN s
    BY <1>2, <1>4, <2>1, Zenon DEF Apart
  <2>2. CASE j = n + 1
    BY <1>1, <1>2, <1>4, <2>2, Zenon DEF Has
  <2>3. CASE k = n + 1
    BY <1>1, <1>2, <1>4, <2>3, Zenon DEF Has
  <2> QED
    BY <1>1, <2>1, <2>2, <2>3, Zenon
<1> QED
  BY <1>3, <1>4, Zenon

\* What is left when the first functor has run.
LEMMA HasTail ==
  ASSUME NEW s, NEW t, Follows(s, t), Apart(s)
  PROVE  /\ Has(s, s[1])
         /\ \A g : g # s[1] => (Has(t, g) <=> Has(s, g))
         /\ s[1] # stop => ~Has(t, s[1])
         /\ Apart(t)
<1> PICK n \in Nat : /\ DOMAIN s = 1 .. n + 1 /\ DOMAIN t = 1 .. n
                     /\ \A i \in 1 .. n : t[i] = s[i + 1]
  BY Zenon DEF Follows
<1>1. 1 \in DOMAIN s /\ \A i \in DOMAIN t : i + 1 \in DOMAIN s /\ i + 1 # 1
  OBVIOUS
<1>2. \A i \in DOMAIN t : t[i] = s[i + 1]
  BY Zenon
<1>3. \A k \in DOMAIN s : k # 1 => k - 1 \in DOMAIN t /\ t[k - 1] = s[k]
  <2>1. \A k \in DOMAIN s : k # 1 => k - 1 \in DOMAIN t /\ (k - 1) + 1 = k
    OBVIOUS
  <2> QED
    BY <1>2, <2>1, Zenon
<1>4. Has(s, s[1])
  BY <1>1, Zenon DEF Has
<1>5. \A g : g # s[1] => (Has(t, g) <=> Has(s, g))
  <2> TAKE g
  <2>1. ASSUME g # s[1], Has(s, g) PROVE Has(t, g)
    <3>1. PICK k \in DOMAIN s : s[k] = g
      BY <2>1, Zenon DEF Has
    <3> QED
      BY <1>3, <2>1, <3>1, Zenon DEF Has
  <2>2. Has(t, g) => Has(s, g)
    BY <1>1, <1>2, Zenon DEF Has
  <2> QED
    BY <2>1, <2>2, Zenon
<1>6. s[1] # stop => ~Has(t, s[1])
  BY <1>1, <1>2, Zenon DEF Has, Apart
<1>7. Apart(t)
  <2> SUFFICES ASSUME NEW j \in DOMAIN t, NEW k \in DOMAIN t, t[j] = t[k], j # k
               PROVE  t[j] = stop
    BY Zenon DEF Apart
  <2>1. j + 1 # k + 1 /\ j + 1 \in DOMAIN s /\ k + 1 \in DOMAIN s
    OBVIOUS
  <2> QED
    BY <1>2, <2>1, Zenon DEF Apart
<1> QED
  BY <1>4, <1>5, <1>6, <1>7, Zenon

\* The functors that have not been run are those of the batch and of
\* pendingFunctors_.
LEMMA ToRunType ==
  ASSUME QueueTypeOK, ran \in Nat
  PROVE  /\ Left \in Nat /\ Len(functors) \in Nat /\ Len(pendingFunctors) \in Nat
         /\ DOMAIN pendingFunctors = 1 .. Len(pendingFunctors)
         /\ DOMAIN ToRun = 1 .. Left + Len(pendingFunctors)
         /\ \A k \in DOMAIN pendingFunctors : Has(ToRun, pendingFunctors[k])
         /\ \A k \in ran + 1 .. Len(functors) : Has(ToRun, functors[k])
         /\ \A g : Has(ToRun, g) =>
              \/ \E k \in DOMAIN pendingFunctors : pendingFunctors[k] = g
              \/ \E k \in ran + 1 .. Len(functors) : functors[k] = g
<1>1. /\ functors \in Seq(Functors) /\ pendingFunctors \in Seq(Functors)
      /\ Len(functors) \in Nat /\ Len(pendingFunctors) \in Nat
      /\ DOMAIN pendingFunctors = 1 .. Len(pendingFunctors)
      /\ ran <= Len(functors)
  BY DEF QueueTypeOK
<1>2. Left \in Nat /\ ran + Left = Len(functors)
  BY <1>1 DEF Left
<1>3. DOMAIN ToRun = 1 .. Left + Len(pendingFunctors)
  BY Zenon DEF ToRun
<1>4. \A k \in 1 .. Left + Len(pendingFunctors) :
        ToRun[k] = IF k <= Left THEN functors[ran + k] ELSE pendingFunctors[k - Left]
  BY Zenon DEF ToRun
<1>5. ASSUME NEW k \in DOMAIN pendingFunctors PROVE Has(ToRun, pendingFunctors[k])
  <2>1. Left + k \in DOMAIN ToRun /\ ~(Left + k <= Left) /\ (Left + k) - Left = k
    BY <1>1, <1>2, <1>3
  <2>2. ToRun[Left + k] = pendingFunctors[k]
    BY Zenon, <1>3, <1>4, <2>1
  <2> QED
    BY <2>1, <2>2, Zenon DEF Has
<1>6. ASSUME NEW k \in ran + 1 .. Len(functors) PROVE Has(ToRun, functors[k])
  <2>1. k - ran \in DOMAIN ToRun /\ k - ran <= Left /\ ran + (k - ran) = k
    BY <1>1, <1>2, <1>3
  <2>2. ToRun[k - ran] = functors[k]
    BY Zenon, <1>3, <1>4, <2>1
  <2> QED
    BY <2>1, <2>2, Zenon DEF Has
<1>7. ASSUME NEW g, Has(ToRun, g)
      PROVE  \/ \E k \in DOMAIN pendingFunctors : pendingFunctors[k] = g
             \/ \E k \in ran + 1 .. Len(functors) : functors[k] = g
  <2>1. PICK j \in DOMAIN ToRun : ToRun[j] = g
    BY <1>7, Zenon DEF Has
  <2>2. CASE j <= Left
    <3>1. ran + j \in ran + 1 .. Len(functors)
      BY <1>1, <1>2, <1>3, <2>2
    <3>2. ToRun[j] = functors[ran + j]
      BY Zenon, <1>3, <1>4, <2>2
    <3> QED
      BY <2>1, <3>1, <3>2, Zenon
  <2>3. CASE ~(j <= Left)
    <3>1. j - Left \in DOMAIN pendingFunctors
      BY <1>1, <1>2, <1>3, <2>3
    <3>2. ToRun[j] = pendingFunctors[j - Left]
      BY Zenon, <1>3, <1>4, <2>3
    <3> QED
      BY <2>1, <3>1, <3>2, Zenon
  <2> QED
    BY <2>2, <2>3, Zenon
<1> QED
  BY <1>1, <1>2, <1>3, <1>5, <1>6, <1>7, Zenon

\* They are those of pendingFunctors_ alone when there is no batch, and those of
\* the batch when it has just been taken.
LEMMA ToRunIdle ==
  ASSUME NEW q, NEW n \in Nat, n = Len(q)
  PROVE  /\ pendingFunctors = q /\ Left = 0 => ToRun = [k \in 1 .. n |-> q[k]]
         /\ pendingFunctors' = q /\ Left' = 0 => ToRun' = [k \in 1 .. n |-> q[k]]
         /\ functors' = q /\ ran' = 0 /\ pendingFunctors' = <<>> =>
              ToRun' = [k \in 1 .. n |-> q[k]]
<1>1. n - 0 = n
  OBVIOUS
<1>2. ASSUME pendingFunctors = q, Left = 0 PROVE ToRun = [k \in 1 .. n |-> q[k]]
  BY <1>2 DEF ToRun
<1>3. ASSUME pendingFunctors' = q, Left' = 0 PROVE ToRun' = [k \in 1 .. n |-> q[k]]
  BY <1>3 DEF ToRun
<1>4. ASSUME functors' = q, ran' = 0, pendingFunctors' = <<>>
      PROVE  ToRun' = [k \in 1 .. n |-> q[k]]
  <2>1. Left' = n
    BY Zenon, <1>1, <1>4 DEF Left
  <2> QED
    BY <1>4, <2>1 DEF ToRun
<1> QED
  BY Zenon, <1>2, <1>3, <1>4

\* The functors can be told apart.
LEMMA FunctorsApart ==
  /\ start # stop /\ start # reset /\ stop # reset
  /\ start \in Functors /\ stop \in Functors /\ reset \in Functors
  /\ \A i \in Conns : /\ destroyed(i) \in Functors /\ destroyed(i) # start
                      /\ destroyed(i) # stop /\ destroyed(i) # reset
  /\ \A i, j \in Conns : destroyed(i) = destroyed(j) => i = j
  BY Zenon DEF Functors, start, stop, reset, destroyed, Functor

\* What queueInLoop() does to the functors that are to be run.
LEMMA Queues ==
  ASSUME QueueTypeOK, ran \in Nat, NEW f \in Functors,
         pendingFunctors' = Append(pendingFunctors, f),
         UNCHANGED <<functors, ran>>
  PROVE  /\ pendingFunctors' \in Seq(Functors)
         /\ \A g : Has(ToRun', g) <=> Has(ToRun, g) \/ g = f
         /\ Apart(ToRun) /\ (~Has(ToRun, f) \/ f = stop) => Apart(ToRun')
<1> DEFINE p == Len(pendingFunctors)
<1>1. Left \in Nat /\ p \in Nat /\ DOMAIN ToRun = 1 .. Left + p
  BY Zenon, ToRunType
<1>2. /\ pendingFunctors' \in Seq(Functors) /\ Len(pendingFunctors') = p + 1
      /\ \A i \in 1 .. p : pendingFunctors'[i] = pendingFunctors[i]
      /\ pendingFunctors'[p + 1] = f
  BY DEF QueueTypeOK
<1>3. Left' = Left
  BY Zenon DEF Left
<1>4. /\ DOMAIN ToRun' = 1 .. Left + (p + 1)
      /\ \A k \in 1 .. Left + (p + 1) :
           ToRun'[k] = IF k <= Left THEN functors[ran + k] ELSE pendingFunctors'[k - Left]
  BY Zenon, <1>2, <1>3 DEF ToRun
<1>5. \A k \in 1 .. Left + p :
        ToRun[k] = IF k <= Left THEN functors[ran + k] ELSE pendingFunctors[k - Left]
  BY Zenon DEF ToRun
<1> HIDE DEF p
<1>6. /\ Left + p \in Nat /\ Left + (p + 1) = (Left + p) + 1
      /\ Left + p + 1 \in 1 .. Left + (p + 1) /\ ~(Left + p + 1 <= Left)
      /\ Left + p + 1 - Left = p + 1
      /\ \A k \in 1 .. Left + p :
           k \in 1 .. Left + (p + 1) /\ (~(k <= Left) => k - Left \in 1 .. p)
  BY <1>1
<1>7. ToRun'[Left + p + 1] = f
  <2> SUFFICES ASSUME NEW k, k = Left + p + 1 PROVE ToRun'[k] = f
    OBVIOUS
  <2>1. k \in 1 .. Left + (p + 1) /\ ~(k <= Left) /\ k - Left = p + 1
    BY <1>1
  <2>2. ToRun'[k] = pendingFunctors'[k - Left]
    BY Zenon, <1>4, <2>1
  <2> QED
    BY Zenon, <1>2, <2>1, <2>2
<1>8. ASSUME NEW k \in 1 .. Left + p PROVE ToRun'[k] = ToRun[k]
  <2>1. CASE k <= Left
    BY Zenon, <1>4, <1>5, <1>6, <2>1
  <2>2. CASE ~(k <= Left)
    BY Zenon, <1>2, <1>4, <1>5, <1>6, <2>2
  <2> QED
    BY Zenon, <2>1, <2>2
<1>9. DOMAIN ToRun' = 1 .. (Left + p) + 1
  BY Zenon, <1>4, <1>6
<1>10. Appended(ToRun, ToRun', f)
  BY Zenon, <1>1, <1>6, <1>7, <1>8, <1>9 DEF Appended
<1> QED
  BY Zenon, <1>2, <1>10, HasAppend

\* doPendingFunctors() runs the next functor of its batch.
LEMMA ToRunNext ==
  ASSUME QueueTypeOK, ran \in Nat, ran < Len(functors), ran' = ran + 1,
         UNCHANGED functors, NEW n, n = (Left - 1) + Len(pendingFunctors)
  PROVE  /\ n \in Nat /\ DOMAIN ToRun = 1 .. n + 1
         /\ ToRun[1] = functors[ran + 1]
         /\ functors[ran + 1] \in Functors
         /\ Left' = Left - 1 /\ Left - 1 \in Nat
         /\ \A k \in 1 .. n :
              ToRun[k + 1] = IF k <= Left - 1 THEN functors[ran' + k]
                                              ELSE pendingFunctors[k - (Left - 1)]
<1>1. /\ Left \in Nat /\ Len(pendingFunctors) \in Nat /\ Len(functors) \in Nat
      /\ DOMAIN ToRun = 1 .. Left + Len(pendingFunctors)
  BY Zenon, ToRunType
<1>2. functors[ran + 1] \in Functors
  BY <1>1 DEF QueueTypeOK
<1>3. /\ Left >= 1 /\ Left' = Left - 1 /\ Left - 1 \in Nat
  BY <1>1 DEF Left
<1>4. \A k \in 1 .. Left + Len(pendingFunctors) :
        ToRun[k] = IF k <= Left THEN functors[ran + k] ELSE pendingFunctors[k - Left]
  BY Zenon DEF ToRun
<1>5. /\ n \in Nat /\ n + 1 = Left + Len(pendingFunctors)
      /\ 1 \in 1 .. Left + Len(pendingFunctors) /\ 1 <= Left
  BY <1>1, <1>3
<1>6. \A k \in 1 .. n :
        /\ k + 1 \in 1 .. Left + Len(pendingFunctors)
        /\ k + 1 <= Left <=> k <= Left - 1
        /\ ran + (k + 1) = ran' + k /\ (k + 1) - Left = k - (Left - 1)
  BY <1>1, <1>5
<1>7. ToRun[1] = functors[ran + 1]
  BY Zenon, <1>4, <1>5
<1>8. \A k \in 1 .. n :
        ToRun[k + 1] = IF k <= Left - 1 THEN functors[ran' + k]
                                        ELSE pendingFunctors[k - (Left - 1)]
  BY <1>4, <1>6
<1> QED
  BY Zenon, <1>1, <1>2, <1>3, <1>5, <1>7, <1>8

\* What running a functor does to those that are to be run.
LEMMA Runs ==
  ASSUME QueueTypeOK, ran \in Nat, Apart(ToRun), ran < Len(functors),
         ran' = ran + 1, UNCHANGED <<functors, pendingFunctors>>
  PROVE  /\ functors[ran + 1] \in Functors /\ Has(ToRun, functors[ran + 1])
         /\ \A g : g # functors[ran + 1] => (Has(ToRun', g) <=> Has(ToRun, g))
         /\ functors[ran + 1] # stop => ~Has(ToRun', functors[ran + 1])
         /\ Apart(ToRun')
<1> DEFINE n == (Left - 1) + Len(pendingFunctors)
<1>1. /\ n \in Nat /\ DOMAIN ToRun = 1 .. n + 1
      /\ ToRun[1] = functors[ran + 1] /\ functors[ran + 1] \in Functors
      /\ Left' = Left - 1
      /\ \A k \in 1 .. n :
           ToRun[k + 1] = IF k <= Left - 1 THEN functors[ran' + k]
                                           ELSE pendingFunctors[k - (Left - 1)]
  BY Zenon, ToRunNext
<1>2. /\ DOMAIN ToRun' = 1 .. n
      /\ \A k \in 1 .. n :
           ToRun'[k] = IF k <= Left - 1 THEN functors[ran' + k]
                                        ELSE pendingFunctors[k - (Left - 1)]
  BY Zenon, <1>1 DEF ToRun
<1> HIDE DEF n
<1>3. \A k \in 1 .. n : ToRun'[k] = ToRun[k + 1]
  BY Zenon, <1>1, <1>2
<1>4. Follows(ToRun, ToRun')
  BY Zenon, <1>1, <1>2, <1>3 DEF Follows
<1> QED
  BY Zenon, <1>1, <1>4, HasTail

\* What running stopInLoop() does, when it removes the channel.
LEMMA RunsAndQueues ==
  ASSUME QueueTypeOK, ran \in Nat, Apart(ToRun), ran < Len(functors),
         ran' = ran + 1, UNCHANGED functors, functors[ran + 1] = stop,
         pendingFunctors' = Append(pendingFunctors, reset), ~Has(ToRun, reset)
  PROVE  /\ pendingFunctors' \in Seq(Functors)
         /\ Has(ToRun, stop)
         /\ \A g : g # stop => (Has(ToRun', g) <=> Has(ToRun, g) \/ g = reset)
         /\ Apart(ToRun')
<1> DEFINE p == Len(pendingFunctors)
           n == (Left - 1) + p
           t == [k \in 1 .. n |-> ToRun[k + 1]]
<1>1. /\ n \in Nat /\ DOMAIN ToRun = 1 .. n + 1
      /\ ToRun[1] = functors[ran + 1] /\ functors[ran + 1] \in Functors
      /\ Left' = Left - 1 /\ Left - 1 \in Nat
      /\ \A k \in 1 .. n :
           ToRun[k + 1] = IF k <= Left - 1 THEN functors[ran' + k]
                                           ELSE pendingFunctors[k - (Left - 1)]
  BY Zenon, ToRunNext
<1>2. DOMAIN t = 1 .. n /\ \A k \in 1 .. n : t[k] = ToRun[k + 1]
  BY Zenon
<1>3. /\ p \in Nat /\ reset \in Functors
      /\ pendingFunctors' \in Seq(Functors) /\ Len(pendingFunctors') = p + 1
      /\ \A i \in 1 .. p : pendingFunctors'[i] = pendingFunctors[i]
      /\ pendingFunctors'[p + 1] = reset
  BY FunctorsApart DEF QueueTypeOK
<1>4. /\ DOMAIN ToRun' = 1 .. (Left - 1) + (p + 1)
      /\ \A k \in 1 .. (Left - 1) + (p + 1) :
           ToRun'[k] = IF k <= Left - 1 THEN functors[ran' + k]
                                        ELSE pendingFunctors'[k - (Left - 1)]
  BY Zenon, <1>1, <1>3 DEF ToRun
<1>5. /\ (Left - 1) + (p + 1) = n + 1
      /\ n + 1 \in 1 .. (Left - 1) + (p + 1) /\ ~(n + 1 <= Left - 1)
      /\ n + 1 - (Left - 1) = p + 1
      /\ \A k \in 1 .. n :
           /\ k \in 1 .. (Left - 1) + (p + 1)
           /\ ~(k <= Left - 1) => k - (Left - 1) \in 1 .. p
  <2>1. Left - 1 \in Nat /\ p \in Nat
    BY Zenon, <1>1, <1>3
  <2>2. \A a, b \in Nat :
          /\ a + (b + 1) = (a + b) + 1
          /\ (a + b) + 1 \in 1 .. a + (b + 1) /\ ~((a + b) + 1 <= a)
          /\ (a + b) + 1 - a = b + 1
          /\ \A k \in 1 .. a + b :
               k \in 1 .. a + (b + 1) /\ (~(k <= a) => k - a \in 1 .. b)
    OBVIOUS
  <2> QED
    BY Zenon, <2>1, <2>2
<1> HIDE DEF p, n, t
<1>6. ToRun'[n + 1] = reset
  <2> SUFFICES ASSUME NEW k, k = n + 1 PROVE ToRun'[k] = reset
    OBVIOUS
  <2>1. /\ k \in 1 .. (Left - 1) + (p + 1) /\ ~(k <= Left - 1)
        /\ k - (Left - 1) = p + 1
    <3>1. Left - 1 \in Nat /\ p \in Nat /\ k = (Left - 1) + (p + 1)
      BY Zenon, <1>1, <1>3, <1>5
    <3>2. \A a, b \in Nat : \A c : c = a + (b + 1) =>
            c \in 1 .. a + (b + 1) /\ ~(c <= a) /\ c - a = b + 1
      OBVIOUS
    <3> QED
      BY Zenon, <3>1, <3>2
  <2>2. ToRun'[k] = pendingFunctors'[k - (Left - 1)]
    BY Zenon, <1>4, <2>1
  <2> QED
    BY Zenon, <1>3, <2>1, <2>2
<1>7. ASSUME NEW k \in 1 .. n PROVE ToRun'[k] = t[k]
  <2>1. CASE k <= Left - 1
    BY Zenon, <1>1, <1>2, <1>4, <1>5, <2>1
  <2>2. CASE ~(k <= Left - 1)
    BY Zenon, <1>1, <1>2, <1>3, <1>4, <1>5, <2>2
  <2> QED
    BY Zenon, <2>1, <2>2
<1>8. DOMAIN ToRun' = 1 .. n + 1
  BY Zenon, <1>4, <1>5
<1>9. Follows(ToRun, t)
  BY Zenon, <1>1, <1>2 DEF Follows
<1>10. Appended(t, ToRun', reset)
  BY Zenon, <1>1, <1>2, <1>6, <1>7, <1>8 DEF Appended
<1>11. /\ Has(ToRun, stop) /\ Apart(t)
       /\ \A g : g # stop => (Has(t, g) <=> Has(ToRun, g))
  BY Zenon, <1>1, <1>9, HasTail
<1>12. ~Has(t, reset)
  BY Zenon, <1>11, FunctorsApart
<1>13. /\ \A g : Has(ToRun', g) <=> Has(t, g) \/ g = reset
       /\ Apart(ToRun')
  BY Zenon, <1>10, <1>11, <1>12, HasAppend
<1> QED
  BY Zenon, <1>3, <1>11, <1>13

-----------------------------------------------------------------------------
(***************************************************************************)
(* What leaves a part of the invariant alone.                              *)
(***************************************************************************)

LEMMA AskedNat == Asked \in Nat /\ Asked' \in Nat
  BY DEF Asked, One

LEMMA UpOf ==
  ASSUME NEW S \in SUBSET Conns
  PROVE  /\ IsFiniteSet(S) /\ Cardinality(S) \in Nat
         /\ Cardinality(S) = 0 <=> S = {}
<1>1. IsFiniteSet(S)
  BY Zenon, ConnsAssumption, FS_Subset
<1> QED
  BY <1>1, FS_CardinalityType, FS_EmptySet

LEMMA UpNat ==
  /\ Up \in Nat /\ Up' \in Nat
  /\ Up = 0 <=> Registered = {}
  /\ Up' = 0 <=> Registered' = {}
<1>1. Registered \in SUBSET Conns /\ Registered' \in SUBSET Conns
  BY Zenon DEF Registered
<1> QED
  BY <1>1, UpOf, Zenon DEF Up

LEMMA StartFrame ==
  ASSUME timers \in Nat, due \in Nat, StartInv, Asked' <= Asked,
         UNCHANGED <<aborted, state, channel, timers, due>>,
         Registered' = Registered, pc' = "restart" => pc = "restart"
  PROVE  StartInv'
<1>1. Up' = Up
  BY Zenon DEF Up
<1>2. One(pc = "restart")' <= One(pc = "restart")
  BY DEF One
<1>3. One(channel = "watched")' = One(channel = "watched")
  BY Zenon DEF One
<1>4. One(pc = "restart") \in Nat /\ One(pc = "restart")' \in Nat
      /\ One(channel = "watched") \in Nat
  BY DEF One
<1>5. Doing' <= Doing /\ Doing \in Nat /\ Doing' \in Nat
  BY <1>1, <1>2, <1>3, <1>4, AskedNat, UpNat DEF Doing
<1>6. Doing' <= 1 /\ (Asked' > 0 => Asked > 0)
  BY <1>5, AskedNat DEF StartInv
<1> QED
  BY <1>6, Zenon DEF StartInv

LEMMA QueueFrame ==
  ASSUME QueueInv, ToRun' = ToRun, channel' = "removed" <=> channel = "removed",
         \A i \in Conns : conns'[i] = "closed" <=> conns[i] = "closed"
  PROVE  QueueInv'
  BY Zenon DEF QueueInv, ResetQueued

LEMMA IterationFrame ==
  ASSUME IterationInv, UNCHANGED <<pc, functors, ran, active, due, channel>>,
         Registered' = Registered
  PROVE  IterationInv'
  BY Zenon DEF IterationInv

LEMMA OwnerFrame ==
  ASSUME OwnerInv, UNCHANGED <<closeCallback, connection, client>>,
         Registered' = Registered
  PROVE  OwnerInv'
  BY Zenon DEF OwnerInv

LEMMA SocketFrame ==
  ASSUME NoSocketLeaks, UNCHANGED <<open, channel>>,
         \A i \in Conns : conns'[i] = "none" <=> conns[i] = "none"
  PROVE  NoSocketLeaks'
<1>1. {i \in Conns : conns'[i] # "none"} = {i \in Conns : conns[i] # "none"}
  BY Zenon
<1> QED
  BY <1>1, Zenon DEF NoSocketLeaks, One

LEMMA AliveFrame ==
  ASSUME DeadInv, client = "alive", UNCHANGED <<client, connectorRefs>>
  PROVE  DeadInv'
<1>1. "alive" # "dead"
  OBVIOUS
<1> QED
  BY <1>1, Zenon DEF DeadInv

LEMMA DeadFrame ==
  ASSUME DeadInv, client = "dead",
         UNCHANGED <<client, call, closeCallback, connect, connectorRefs>>,
         pc' # "restart", StartQueued' => StartQueued, StopQueued' => StopQueued,
         channel' # "watched", ~connectorRefs => channel' = "null",
         timers' + due' > 0 => timers + due > 0, Registered' \subseteq Registered
  PROVE  DeadInv'
<1>1. \A i \in Registered : closeCallback[i] = "detail"
  BY Zenon DEF DeadInv
<1> QED
  BY <1>1, Zenon DEF DeadInv

LEMMA QueueTypeFrame ==
  ASSUME QueueTypeOK, UNCHANGED <<functors, pendingFunctors, ran, call>>
  PROVE  QueueTypeOK'
  BY Zenon DEF QueueTypeOK

LEMMA ToRunFrame ==
  ASSUME UNCHANGED <<functors, pendingFunctors, ran>>
  PROVE  /\ ToRun' = ToRun
         /\ StartQueued' = StartQueued /\ StopQueued' = StopQueued
         /\ ResetQueued' = ResetQueued
  BY Zenon DEF ToRun, Left, StartQueued, StopQueued, ResetQueued

\* An iteration of the loop in which nothing is left to be handled.
LEMMA IterationIdle ==
  ASSUME pc' # "functors" => functors' = <<>> /\ ran' = 0,
         active' = {}, due' = 0, channel' # "removed" \/ Registered' = {}
  PROVE  IterationInv'
  BY Zenon DEF IterationInv

-----------------------------------------------------------------------------
(***************************************************************************)
(* startInLoop(), whoever calls it.                                        *)
(***************************************************************************)
Delays == kInitRetryDelayMs .. kMaxRetryDelayMs

\* It finds kDisconnected and no channel, and then connects, or sets a timer,
\* or does nothing.
StartEffect(c) ==
  /\ aborted' = aborted
  /\ gaveUp' \in BOOLEAN
  /\ retryDelayMs' \in Delays
  /\ \/ /\ c /\ channel' = "watched" /\ state' = "kConnecting"
        /\ timers' = timers /\ open' = open + 1
     \/ /\ c /\ channel' = "null" /\ state' = "kDisconnected"
        /\ timers' = timers + 1 /\ open' = open
     \/ /\ channel' = "null" /\ state' = "kDisconnected"
        /\ timers' = timers /\ open' = open

LEMMA StartHasEffect ==
  ASSUME TypeOK, channel = "null", NEW c \in BOOLEAN, NEW delay \in Delays,
         StartInLoop("kDisconnected", c, delay)
  PROVE  StartEffect(c)
<1>1. Doubled(delay) \in Delays
  BY DelayAssumption DEF Doubled, Delays
<1>2. gaveUp \in BOOLEAN
  BY Zenon DEF TypeOK
<1>4. CASE c /\ Connecting(delay)
  BY <1>2, <1>4 DEF Connecting, StartEffect
<1>5. CASE c /\ ConnectFails(delay)
  BY <1>1, <1>2, <1>5 DEF ConnectFails, Retry, StartEffect
<1>6. CASE c /\ GiveUp("kDisconnected", delay)
  BY <1>2, <1>6 DEF GiveUp, StartEffect
<1>7. CASE /\ state' = "kDisconnected" /\ retryDelayMs' = delay
           /\ UNCHANGED <<channel, timers, open, gaveUp, aborted>>
  BY <1>2, <1>7 DEF StartEffect
<1> QED
  BY <1>4, <1>5, <1>6, <1>7 DEF StartInLoop

\* When the client did nothing else, it makes one attempt, with one socket.
LEMMA StartsOnce ==
  ASSUME StartInv, NoSocketLeaks, channel = "null", NEW c, StartEffect(c),
         timers = 0, due' = 0, Asked' = 0, Registered' = {}, pc' # "restart",
         conns' = conns, open \in Nat
  PROVE  /\ StartInv' /\ NoSocketLeaks'
         /\ timers' \in Nat /\ open' \in Nat
         /\ state' \in {"kDisconnected", "kConnecting", "kConnected"}
         /\ channel' \in {"null", "watched", "removed"} /\ channel' # "removed"
<1>1. Up' = 0 /\ ~aborted
  BY UpNat, Zenon DEF StartInv
<1>2. One(pc = "restart")' = 0
  BY Zenon DEF One
<1> DEFINE n == Cardinality({i \in Conns : conns[i] # "none"})
<1>3. n \in Nat /\ open = 0 + n
  <2>1. {i \in Conns : conns[i] # "none"} \in SUBSET Conns
    OBVIOUS
  <2>2. n \in Nat
    BY <2>1, UpOf, Zenon
  <2>3. One(channel = "watched") = 0
    BY DEF One
  <2> QED
    BY <2>2, <2>3 DEF NoSocketLeaks
<1>4. NoSocketLeaks' <=> open' = One(channel = "watched")' + n
  BY Zenon DEF NoSocketLeaks
<1> HIDE DEF n
<1>5. CASE /\ channel' = "watched" /\ state' = "kConnecting"
           /\ timers' = timers /\ open' = open + 1
  <2>1. One(channel = "watched")' = 1
    BY <1>5 DEF One
  <2>2. Doing' = 0 + 0 + 0 + 1 + 0 + 0
    BY <1>1, <1>2, <1>5, <2>1, Zenon DEF Doing
  <2> QED
    BY <1>1, <1>3, <1>4, <1>5, <2>1, <2>2 DEF StartEffect, StartInv
<1>6. CASE /\ channel' = "null" /\ state' = "kDisconnected"
           /\ timers' \in {timers, timers + 1} /\ open' = open
  <2>1. One(channel = "watched")' = 0
    BY <1>6 DEF One
  <2>2. Doing' = 0 + timers' + 0 + 0 + 0 + 0
    BY <1>1, <1>2, <2>1, Zenon DEF Doing
  <2>3. timers' \in 0 .. 1
    BY <1>6
  <2>4. NoSocketLeaks'
    BY <1>3, <1>4, <1>6, <2>1
  <2>5. Doing' <= 1 /\ timers' \in Nat /\ open' \in Nat
    <3>1. timers' \in Nat
      BY <2>3
    <3>2. \A k \in 0 .. 1 : 0 + k + 0 + 0 + 0 + 0 <= 1
      OBVIOUS
    <3>3. Doing' <= 1
      BY Zenon, <2>2, <2>3, <3>2
    <3> QED
      BY Zenon, <1>6, <3>1, <3>3
  <2>6. ~aborted' /\ ~(Asked' > 0) /\ ~(due' > 0)
    BY <1>1 DEF StartEffect
  <2>7. StartInv'
    BY Zenon, <1>6, <2>5, <2>6 DEF StartInv
  <2> QED
    BY <1>6, <2>4, <2>5, <2>7
<1> QED
  BY <1>5, <1>6 DEF StartEffect

\* Whatever the client is doing, it is doing nothing else.
LEMMA OnlyOne ==
  ASSUME StartInv, timers \in Nat, due \in Nat
  PROVE  /\ Asked > 0 => /\ Asked = 1 /\ timers = 0 /\ due = 0 /\ Registered = {}
                         /\ channel # "watched" /\ pc # "restart"
         /\ due > 0 => /\ Asked = 0 /\ timers = 0 /\ due = 1 /\ Registered = {}
                       /\ channel # "watched" /\ pc # "restart"
         /\ timers > 0 => /\ Asked = 0 /\ timers = 1 /\ due = 0 /\ Registered = {}
                          /\ channel # "watched" /\ pc # "restart"
         /\ channel = "watched" =>
              /\ Asked = 0 /\ timers = 0 /\ due = 0 /\ Registered = {}
              /\ pc # "restart"
         /\ Registered # {} =>
              /\ Asked = 0 /\ timers = 0 /\ due = 0 /\ Up = 1
              /\ channel # "watched" /\ pc # "restart"
         /\ pc = "restart" =>
              /\ Asked = 0 /\ timers = 0 /\ due = 0 /\ Registered = {}
              /\ channel # "watched"
<1> DEFINE w == One(channel = "watched")
           r == One(pc = "restart")
<1>1. /\ w \in 0 .. 1 /\ (channel = "watched" <=> w = 1)
      /\ r \in 0 .. 1 /\ (pc = "restart" <=> r = 1)
  BY DEF One
<1>2. Asked \in Nat /\ Up \in Nat /\ (Up = 0 <=> Registered = {})
  BY AskedNat, UpNat, Zenon
<1>3. Asked + timers + due + w + Up + r <= 1
  BY Zenon DEF StartInv, Doing
<1> HIDE DEF w, r
<1>4. /\ Asked > 0 => /\ Asked = 1 /\ timers = 0 /\ due = 0 /\ Up = 0
                      /\ w = 0 /\ r = 0
      /\ due > 0 => /\ Asked = 0 /\ timers = 0 /\ due = 1 /\ Up = 0
                    /\ w = 0 /\ r = 0
      /\ timers > 0 => /\ Asked = 0 /\ timers = 1 /\ due = 0 /\ Up = 0
                       /\ w = 0 /\ r = 0
      /\ w = 1 => Asked = 0 /\ timers = 0 /\ due = 0 /\ Up = 0 /\ r = 0
      /\ Up > 0 => Asked = 0 /\ timers = 0 /\ due = 0 /\ Up = 1 /\ w = 0 /\ r = 0
      /\ r = 1 => Asked = 0 /\ timers = 0 /\ due = 0 /\ Up = 0 /\ w = 0
  BY <1>1, <1>2, <1>3
<1>5. Up # 0 => Up > 0
  BY <1>2
<1>6. 0 # 1
  OBVIOUS
<1> QED
  BY Zenon, <1>1, <1>2, <1>4, <1>5, <1>6

\* The parts of the invariant.
LEMMA Parts ==
  ASSUME IInv
  PROVE  /\ TypeOK /\ QueueTypeOK /\ StartInv /\ QueueInv /\ IterationInv
         /\ OwnerInv /\ DeadInv /\ NoSocketLeaks
         /\ timers \in Nat /\ due \in Nat /\ ran \in Nat /\ open \in Nat
         /\ connect \in BOOLEAN /\ retryDelayMs \in Delays
  BY Zenon DEF IInv, TypeOK, Delays

\* When nobody has asked for startInLoop() but the caller.
LEMMA AskedOf ==
  /\ Asked > 0 <=> "connect" \notin called \/ call[1] = "connect" \/ StartQueued
  /\ Asked' = 0 <=> "connect" \in called' /\ call'[1] # "connect" /\ ~StartQueued'
  /\ Asked = 0 <=> "connect" \in called /\ call[1] # "connect" /\ ~StartQueued
  BY DEF Asked, One

-----------------------------------------------------------------------------
(***************************************************************************)
(* Calls of user code in the loop.                                         *)
(***************************************************************************)

\* connect().
LEMMA ConnectInLoopPreserves ==
  ASSUME IInv, ConnectInLoop
  PROVE  IInv'
<1>1. /\ TypeOK /\ QueueTypeOK /\ StartInv /\ QueueInv /\ IterationInv
      /\ OwnerInv /\ DeadInv /\ NoSocketLeaks
      /\ timers \in Nat /\ due \in Nat /\ ran \in Nat /\ open \in Nat
      /\ connect \in BOOLEAN /\ retryDelayMs \in Delays
  BY Parts
<1>2. /\ client = "alive" /\ pc \in {"handling", "functors"}
      /\ "connect" \notin called /\ called' = called \cup {"connect"}
      /\ call' = call /\ wanted' = TRUE /\ connect' = TRUE
      /\ StartInLoop(state, TRUE, retryDelayMs)
      /\ pendingFunctors' = pendingFunctors /\ functors' = functors /\ ran' = ran
      /\ retry' = retry /\ connection' = connection /\ client' = client
      /\ connectorRefs' = connectorRefs /\ closeCallback' = closeCallback
      /\ conns' = conns /\ pc' = pc /\ active' = active /\ due' = due
  BY Zenon DEF ConnectInLoop, InCallback, MayCall, loopVars
<1>3. Asked > 0
  BY <1>2, AskedOf, Zenon
<1>4. /\ Asked = 1 /\ timers = 0 /\ due = 0 /\ Registered = {}
      /\ channel # "watched" /\ pc # "restart"
      /\ state = "kDisconnected" /\ channel = "null"
  BY Zenon, <1>1, <1>3, OnlyOne DEF StartInv
<1>5. StartEffect(TRUE)
  <2>1. StartInLoop("kDisconnected", TRUE, retryDelayMs)
    BY Zenon, <1>2, <1>4
  <2> QED
    BY Zenon, <1>1, <1>4, <2>1, StartHasEffect
<1>6. Registered' = Registered
  BY Zenon, <1>2 DEF Registered
<1>7. /\ ToRun' = ToRun /\ StartQueued' = StartQueued
  BY Zenon, <1>2, ToRunFrame
<1>8. call[1] # "connect" /\ ~StartQueued
  BY <1>2, <1>4 DEF Asked, One
<1>9. Asked' = 0
  BY Zenon, <1>2, <1>7, <1>8, AskedOf
<1>10. /\ StartInv' /\ NoSocketLeaks'
       /\ timers' \in Nat /\ open' \in Nat
       /\ state' \in {"kDisconnected", "kConnecting", "kConnected"}
       /\ channel' \in {"null", "watched", "removed"} /\ channel' # "removed"
  BY Zenon, <1>1, <1>2, <1>4, <1>5, <1>6, <1>9, StartsOnce
<1>11. active = {}
  BY Zenon, <1>1, <1>4 DEF IterationInv
<1>12. IterationInv'
  BY Zenon, <1>1, <1>2, <1>4, <1>10, <1>11, IterationIdle DEF IterationInv
<1>13. QueueInv'
  BY Zenon, <1>1, <1>2, <1>4, <1>7, <1>10, QueueFrame
<1>14. TypeOK'
  BY Zenon, <1>1, <1>2, <1>5, <1>10 DEF TypeOK, StartEffect, Delays
<1> QED
  BY Zenon, <1>1, <1>2, <1>6, <1>10, <1>12, <1>13, <1>14, QueueTypeFrame, OwnerFrame,
     AliveFrame DEF IInv

\* The timer of retry() calls startInLoop().
LEMMA FireTimerPreserves ==
  ASSUME IInv, FireTimer
  PROVE  IInv'
<1>1. /\ TypeOK /\ QueueTypeOK /\ StartInv /\ QueueInv /\ IterationInv
      /\ OwnerInv /\ DeadInv /\ NoSocketLeaks
      /\ timers \in Nat /\ due \in Nat /\ ran \in Nat /\ open \in Nat
      /\ connect \in BOOLEAN /\ retryDelayMs \in Delays
  BY Parts
<1>2. /\ pc = "handling" /\ due > 0 /\ due' = due - 1
      /\ StartInLoop(state, connect, retryDelayMs)
      /\ connect' = connect /\ pendingFunctors' = pendingFunctors
      /\ functors' = functors /\ ran' = ran
      /\ retry' = retry /\ wanted' = wanted /\ connection' = connection
      /\ client' = client /\ connectorRefs' = connectorRefs
      /\ closeCallback' = closeCallback /\ conns' = conns
      /\ call' = call /\ called' = called /\ pc' = pc /\ active' = active
  BY Zenon DEF FireTimer, clientVars, userVars
<1>3. timers + due > 0
  BY <1>1, <1>2
<1>4. /\ Asked = 0 /\ timers = 0 /\ due = 1 /\ Registered = {}
      /\ state = "kDisconnected" /\ channel = "null"
  BY Zenon, <1>1, <1>2, <1>3, OnlyOne DEF StartInv
<1>5. StartEffect(connect)
  <2>1. StartInLoop("kDisconnected", connect, retryDelayMs)
    BY Zenon, <1>2, <1>4
  <2> QED
    BY Zenon, <1>1, <1>4, <2>1, StartHasEffect
<1>6. Registered' = Registered /\ due' = 0 /\ pc' # "restart"
  <2>1. Registered' = Registered
    BY Zenon, <1>2 DEF Registered
  <2>2. due' = 0
    BY <1>2, <1>4
  <2> QED
    BY Zenon, <1>2, <2>1, <2>2
<1>7. ToRun' = ToRun /\ StartQueued' = StartQueued /\ StopQueued' = StopQueued
  BY Zenon, <1>2, ToRunFrame
<1>8. Asked' = 0
  BY Zenon, <1>2, <1>4, <1>7, AskedOf
<1>9. /\ StartInv' /\ NoSocketLeaks'
      /\ timers' \in Nat /\ open' \in Nat
      /\ state' \in {"kDisconnected", "kConnecting", "kConnected"}
      /\ channel' \in {"null", "watched", "removed"} /\ channel' # "removed"
  BY Zenon, <1>1, <1>2, <1>4, <1>5, <1>6, <1>8, StartsOnce
<1>10. active = {}
  BY Zenon, <1>1, <1>4 DEF IterationInv
<1>11. IterationInv'
  BY Zenon, <1>1, <1>2, <1>6, <1>9, <1>10, IterationIdle DEF IterationInv
<1>12. QueueInv'
  BY Zenon, <1>1, <1>2, <1>4, <1>7, <1>9, QueueFrame
<1>13. TypeOK'
  <2>1. due' \in Nat
    BY <1>6
  <2> QED
    BY Zenon, <1>1, <1>2, <1>5, <1>9, <2>1 DEF TypeOK, StartEffect, Delays
<1>14. DeadInv'
  <2>1. CASE client = "alive"
    BY Zenon, <1>1, <1>2, <2>1, AliveFrame
  <2>2. CASE client = "dead"
    <3>1. ~connect
      BY Zenon, <1>1, <1>3, <2>2 DEF DeadInv
    <3>2. channel' = "null"
      BY Zenon, <1>5, <3>1 DEF StartEffect
    <3>3. channel' # "watched"
      BY <3>2
    <3> QED
      BY Zenon, <1>1, <1>2, <1>3, <1>6, <1>7, <2>2, <3>2, <3>3, DeadFrame
  <2>3. client \in {"alive", "dead"}
    BY Zenon, <1>1 DEF TypeOK
  <2> QED
    BY <2>1, <2>2, <2>3
<1> QED
  BY Zenon, <1>1, <1>2, <1>6, <1>9, <1>11, <1>12, <1>13, <1>14, QueueTypeFrame,
     OwnerFrame DEF IInv

\* removeConnection() restarts the connector.
LEMMA RestartConnectorPreserves ==
  ASSUME IInv, RestartConnector
  PROVE  IInv'
<1>1. /\ TypeOK /\ QueueTypeOK /\ StartInv /\ QueueInv /\ IterationInv
      /\ OwnerInv /\ DeadInv /\ NoSocketLeaks
      /\ timers \in Nat /\ due \in Nat /\ ran \in Nat /\ open \in Nat
      /\ connect \in BOOLEAN /\ retryDelayMs \in Delays
  BY Parts
<1>2. /\ pc = "restart" /\ pc' = "handling"
      /\ connect' = TRUE
      /\ StartInLoop("kDisconnected", TRUE, kInitRetryDelayMs)
      /\ pendingFunctors' = pendingFunctors /\ functors' = functors /\ ran' = ran
      /\ retry' = retry /\ wanted' = wanted /\ connection' = connection
      /\ client' = client /\ connectorRefs' = connectorRefs
      /\ closeCallback' = closeCallback /\ conns' = conns
      /\ call' = call /\ called' = called /\ active' = active /\ due' = due
  BY Zenon DEF RestartConnector, Restart, clientVars, userVars
<1>3. /\ Asked = 0 /\ timers = 0 /\ due = 0 /\ Registered = {}
      /\ channel = "null"
  BY Zenon, <1>1, <1>2, OnlyOne DEF StartInv
<1>4. StartEffect(TRUE)
  <2>1. kInitRetryDelayMs \in Delays
    BY DelayAssumption DEF Delays
  <2> QED
    BY Zenon, <1>1, <1>2, <1>3, <2>1, StartHasEffect
<1>5. Registered' = Registered /\ pc' # "restart" /\ pc # "functors"
  <2>1. Registered' = Registered
    BY Zenon, <1>2 DEF Registered
  <2> QED
    BY <1>2, <2>1
<1>6. ToRun' = ToRun /\ StartQueued' = StartQueued
  BY Zenon, <1>2, ToRunFrame
<1>7. Asked' = 0
  BY Zenon, <1>2, <1>3, <1>6, AskedOf
<1>8. /\ StartInv' /\ NoSocketLeaks'
      /\ timers' \in Nat /\ open' \in Nat
      /\ state' \in {"kDisconnected", "kConnecting", "kConnected"}
      /\ channel' \in {"null", "watched", "removed"} /\ channel' # "removed"
  BY Zenon, <1>1, <1>2, <1>3, <1>4, <1>5, <1>7, StartsOnce
<1>9. active = {}
  BY Zenon, <1>1, <1>3 DEF IterationInv
<1>10. IterationInv'
  BY Zenon, <1>1, <1>2, <1>3, <1>5, <1>8, <1>9, IterationIdle DEF IterationInv
<1>11. QueueInv'
  BY Zenon, <1>1, <1>2, <1>3, <1>6, <1>8, QueueFrame
<1>12. TypeOK'
  BY Zenon, <1>1, <1>2, <1>4, <1>8 DEF TypeOK, StartEffect, Delays
<1>13. client = "alive"
  BY Zenon, <1>1, <1>2 DEF DeadInv, TypeOK
<1> QED
  BY Zenon, <1>1, <1>2, <1>5, <1>8, <1>10, <1>11, <1>12, <1>13, QueueTypeFrame,
     OwnerFrame, AliveFrame DEF IInv

\* startInLoop(), queued by connect() in another thread.
LEMMA RunStartPreserves ==
  ASSUME IInv, IsNext("startInLoop", 0), StartInLoop(state, connect, retryDelayMs),
         UNCHANGED <<pendingFunctors, conns>>
  PROVE  IInv'
<1>1. /\ TypeOK /\ QueueTypeOK /\ StartInv /\ QueueInv /\ IterationInv
      /\ OwnerInv /\ DeadInv /\ NoSocketLeaks
      /\ timers \in Nat /\ due \in Nat /\ ran \in Nat /\ open \in Nat
      /\ connect \in BOOLEAN /\ retryDelayMs \in Delays
  BY Parts
<1>2. /\ pc = "functors" /\ ran < Len(functors) /\ functors[ran + 1] = start
      /\ ran' = ran + 1
      /\ connect' = connect /\ pendingFunctors' = pendingFunctors
      /\ functors' = functors
      /\ retry' = retry /\ wanted' = wanted /\ connection' = connection
      /\ client' = client /\ connectorRefs' = connectorRefs
      /\ closeCallback' = closeCallback /\ conns' = conns
      /\ call' = call /\ called' = called /\ pc' = pc /\ active' = active
      /\ due' = due
  BY Zenon DEF IsNext, clientVars, userVars, start
<1>3. /\ Has(ToRun, start)
      /\ \A g : g # start => (Has(ToRun', g) <=> Has(ToRun, g))
      /\ ~Has(ToRun', start)
      /\ Apart(ToRun')
  <2>1. Apart(ToRun) /\ start # stop
    BY Zenon, <1>1, FunctorsApart DEF QueueInv
  <2> QED
    BY Zenon, <1>1, <1>2, <2>1, Runs
<1>4. StartQueued /\ ~StartQueued' /\ Asked > 0
  <2>1. StartQueued /\ ~StartQueued'
    BY Zenon, <1>3 DEF StartQueued
  <2> QED
    BY Zenon, <2>1, AskedOf
<1>5. /\ Asked = 1 /\ timers = 0 /\ due = 0 /\ Registered = {}
      /\ state = "kDisconnected" /\ channel = "null"
  BY Zenon, <1>1, <1>4, OnlyOne DEF StartInv
<1>6. StartEffect(connect)
  <2>1. StartInLoop("kDisconnected", connect, retryDelayMs)
    BY Zenon, <1>5
  <2> QED
    BY Zenon, <1>1, <1>5, <2>1, StartHasEffect
<1>7. Registered' = Registered /\ pc' # "restart"
  <2>1. Registered' = Registered
    BY Zenon, <1>2 DEF Registered
  <2> QED
    BY <1>2, <2>1
<1>8. Asked' = 0
  <2>1. "connect" \in called /\ call[1] # "connect"
    BY <1>4, <1>5 DEF Asked, One
  <2> QED
    BY Zenon, <1>2, <1>4, <2>1, AskedOf
<1>9. /\ StartInv' /\ NoSocketLeaks'
      /\ timers' \in Nat /\ open' \in Nat
      /\ state' \in {"kDisconnected", "kConnecting", "kConnected"}
      /\ channel' \in {"null", "watched", "removed"} /\ channel' # "removed"
  BY Zenon, <1>1, <1>2, <1>5, <1>6, <1>7, <1>8, StartsOnce
<1>10. active = {}
  BY Zenon, <1>1, <1>5 DEF IterationInv
<1>11. IterationInv'
  BY Zenon, <1>2, <1>5, <1>9, <1>10, IterationIdle
<1>12. QueueInv'
  <2>1. ResetQueued' <=> ResetQueued
    BY Zenon, <1>3, FunctorsApart DEF ResetQueued
  <2>2. \A i \in Conns : Has(ToRun', destroyed(i)) <=> Has(ToRun, destroyed(i))
    BY Zenon, <1>3, FunctorsApart
  <2>3. channel # "removed"
    BY <1>5
  <2> QED
    BY Zenon, <1>1, <1>2, <1>3, <1>9, <2>1, <2>2, <2>3 DEF QueueInv
<1>13. TypeOK' /\ QueueTypeOK'
  <2>1. ran' \in Nat /\ ran' <= Len(functors)
    BY <1>1, <1>2 DEF QueueTypeOK
  <2>2. QueueTypeOK'
    BY Zenon, <1>1, <1>2, <2>1 DEF QueueTypeOK
  <2> QED
    BY Zenon, <1>1, <1>2, <1>6, <1>9, <2>1, <2>2 DEF TypeOK, StartEffect, Delays
<1>14. client = "alive"
  BY Zenon, <1>1, <1>4 DEF DeadInv, TypeOK
<1> QED
  BY Zenon, <1>1, <1>2, <1>7, <1>9, <1>11, <1>12, <1>13, <1>14, OwnerFrame, AliveFrame
     DEF IInv

-----------------------------------------------------------------------------
(***************************************************************************)
(* What ends an attempt: stopInLoop(), handleError(), handleWrite().       *)
(***************************************************************************)

\* The attempt is over, and its socket closed; c says whether to try again.
StopEffect(c) ==
  /\ channel' = "removed" /\ state' = "kDisconnected"
  /\ pendingFunctors' = Append(pendingFunctors, reset)
  /\ timers' = IF c THEN timers + 1 ELSE timers
  /\ retryDelayMs' \in Delays
  /\ open' = open - 1
  /\ gaveUp' = gaveUp /\ aborted' = aborted

LEMMA StopHasEffect ==
  ASSUME TypeOK, NEW c \in BOOLEAN, Retry(c, retryDelayMs), RemoveAndResetChannel,
         open' = open - 1, UNCHANGED <<gaveUp, aborted>>
  PROVE  StopEffect(c)
<1>1. retryDelayMs \in Delays
  BY Zenon DEF TypeOK, Delays
<1>2. Doubled(retryDelayMs) \in Delays
  BY <1>1, DelayAssumption DEF Doubled, Delays
<1> QED
  BY <1>1, <1>2 DEF Retry, RemoveAndResetChannel, Queue, StopEffect, reset

\* The client waits for the timer, or for nothing.
LEMMA EndsAttempt ==
  ASSUME StartInv, NoSocketLeaks, timers \in Nat, due \in Nat, open \in Nat,
         channel = "watched", NEW c \in BOOLEAN, StopEffect(c),
         due' = due, Asked' = 0, Registered' = Registered, pc' = pc, conns' = conns
  PROVE  /\ StartInv' /\ NoSocketLeaks'
         /\ timers' \in Nat /\ open' \in Nat
         /\ (timers' + due' > 0 => c)
<1>1. /\ Asked = 0 /\ timers = 0 /\ due = 0 /\ Registered = {} /\ pc # "restart"
  BY Zenon, OnlyOne
<1>2. Up' = 0 /\ ~aborted
  BY Zenon, <1>1, UpNat DEF StartInv
<1>3. One(pc = "restart")' = 0 /\ One(channel = "watched")' = 0
  BY <1>1 DEF One, StopEffect
<1>4. timers' \in 0 .. 1 /\ (timers' > 0 => c)
  BY <1>1 DEF StopEffect
<1>5. Doing' = 0 + timers' + 0 + 0 + 0 + 0
  BY Zenon, <1>1, <1>2, <1>3 DEF Doing
<1>6. \A k \in 0 .. 1 : 0 + k + 0 + 0 + 0 + 0 <= 1 /\ k \in Nat
  OBVIOUS
<1>7. Doing' <= 1 /\ timers' \in Nat
  BY Zenon, <1>4, <1>5, <1>6
<1>8. ~aborted' /\ ~(Asked' > 0) /\ ~(due' > 0) /\ channel' # "watched"
      /\ state' = "kDisconnected" /\ state' # "kConnecting" /\ pc' # "restart"
  BY <1>1, <1>2 DEF StopEffect
<1>9. StartInv'
  BY Zenon, <1>7, <1>8 DEF StartInv
<1> DEFINE n == Cardinality({i \in Conns : conns[i] # "none"})
<1>10. n \in Nat /\ open = 1 + n
  <2>1. {i \in Conns : conns[i] # "none"} \in SUBSET Conns
    OBVIOUS
  <2>2. n \in Nat
    BY <2>1, UpOf, Zenon
  <2>3. One(channel = "watched") = 1
    BY DEF One
  <2> QED
    BY <2>2, <2>3 DEF NoSocketLeaks
<1>11. NoSocketLeaks' <=> open' = One(channel = "watched")' + n
  BY Zenon DEF NoSocketLeaks
<1> HIDE DEF n
<1>12. open' = open - 1
  BY Zenon DEF StopEffect
<1>13. NoSocketLeaks' /\ open' \in Nat
  BY <1>3, <1>10, <1>11, <1>12
<1>14. timers' + due' > 0 => c
  <2>1. due' = 0 /\ \A k \in 0 .. 1 : k + 0 > 0 => k > 0
    BY <1>1
  <2> QED
    BY Zenon, <1>4, <2>1
<1> QED
  BY Zenon, <1>7, <1>9, <1>13, <1>14

\* removeAndResetChannel() queues resetChannel().
LEMMA QueuesReset ==
  ASSUME QueueTypeOK, ran \in Nat, QueueInv, channel = "watched",
         channel' = "removed", pendingFunctors' = Append(pendingFunctors, reset),
         UNCHANGED <<functors, ran, call>>,
         \A i \in Conns : conns'[i] = "closed" <=> conns[i] = "closed"
  PROVE  /\ QueueTypeOK' /\ QueueInv'
         /\ (StartQueued' <=> StartQueued) /\ (StopQueued' <=> StopQueued)
<1>1. /\ pendingFunctors' \in Seq(Functors)
      /\ \A g : Has(ToRun', g) <=> Has(ToRun, g) \/ g = reset
      /\ Apart(ToRun) /\ (~Has(ToRun, reset) \/ reset = stop) => Apart(ToRun')
  BY Zenon, Queues, FunctorsApart
<1>2. channel # "removed"
  OBVIOUS
<1>3. ~Has(ToRun, reset) /\ Apart(ToRun)
  BY Zenon, <1>2 DEF QueueInv, ResetQueued
<1>4. Apart(ToRun')
  BY Zenon, <1>1, <1>3
<1>5. ResetQueued'
  BY Zenon, <1>1 DEF ResetQueued
<1>6. \A i \in Conns : Has(ToRun', destroyed(i)) <=> Has(ToRun, destroyed(i))
  BY Zenon, <1>1, FunctorsApart
<1>7. QueueInv'
  <2>1. \A i \in Conns : Has(ToRun, destroyed(i)) <=> conns[i] = "closed"
    BY Zenon DEF QueueInv
  <2>2. \A i \in Conns : Has(ToRun', destroyed(i)) <=> conns'[i] = "closed"
    BY Zenon, <1>6, <2>1
  <2>3. ResetQueued' <=> channel' = "removed"
    BY Zenon, <1>5
  <2> QED
    BY Zenon, <1>4, <2>2, <2>3 DEF QueueInv
<1>8. (StartQueued' <=> StartQueued) /\ (StopQueued' <=> StopQueued)
  BY Zenon, <1>1, FunctorsApart DEF StartQueued, StopQueued
<1>9. QueueTypeOK'
  BY Zenon, <1>1 DEF QueueTypeOK
<1> QED
  BY Zenon, <1>7, <1>8, <1>9

\* stopInLoop(), or what handles an error, when the loop has nothing of the
\* connector left to handle.
LEMMA StopPreserves ==
  ASSUME IInv, channel = "watched", NEW c \in BOOLEAN, StopEffect(c),
         active' = active \ {0}, called \subseteq called', connect' \in BOOLEAN,
         wanted' \in BOOLEAN,
         UNCHANGED <<retry, connection, connectorRefs, closeCallback, conns, call,
                     pc, due, functors, ran>>,
         client' \in {"alive", "dead"},
         client' = "dead" => /\ call[1] = "none" /\ ~StopQueued /\ connectorRefs
                             /\ ~c /\ client = "alive"
  PROVE  IInv'
<1>1. /\ TypeOK /\ QueueTypeOK /\ StartInv /\ QueueInv /\ IterationInv
      /\ OwnerInv /\ DeadInv /\ NoSocketLeaks
      /\ timers \in Nat /\ due \in Nat /\ ran \in Nat /\ open \in Nat
      /\ connect \in BOOLEAN /\ retryDelayMs \in Delays
  BY Parts
<1>2. /\ Asked = 0 /\ timers = 0 /\ due = 0 /\ Registered = {} /\ pc # "restart"
  BY Zenon, <1>1, OnlyOne
<1>3. /\ channel' = "removed" /\ state' = "kDisconnected"
      /\ pendingFunctors' = Append(pendingFunctors, reset)
  BY Zenon DEF StopEffect
<1>4. /\ QueueTypeOK' /\ QueueInv'
      /\ (StartQueued' <=> StartQueued) /\ (StopQueued' <=> StopQueued)
  BY Zenon, <1>1, <1>3, QueuesReset
<1>5. Asked' = 0
  BY Zenon, <1>2, <1>4, AskedOf
<1>6. Registered' = Registered
  BY Zenon DEF Registered
<1>7. /\ StartInv' /\ NoSocketLeaks'
      /\ timers' \in Nat /\ open' \in Nat
      /\ (timers' + due' > 0 => c)
  BY Zenon, <1>1, <1>5, <1>6, EndsAttempt
<1>8. active' = {}
  BY <1>1, <1>2 DEF IterationInv
<1>9. IterationInv'
  BY Zenon, <1>1, <1>2, <1>6, <1>8, IterationIdle DEF IterationInv
<1>10. OwnerInv'
  <2>1. client = "alive" /\ \A i \in Registered' : FALSE
    BY Zenon, <1>1, <1>2, <1>6 DEF DeadInv, TypeOK
  <2> QED
    BY Zenon, <1>1, <1>2, <2>1 DEF OwnerInv
<1>11. TypeOK'
  <2>1. active' \subseteq Conns \cup {0}
    BY <1>8
  <2> QED
    BY Zenon, <1>1, <1>3, <1>7, <2>1 DEF TypeOK, StopEffect, Delays
<1>12. DeadInv'
  <2>1. CASE client' = "alive"
    <3>1. client # "dead"
      BY Zenon, <1>1 DEF DeadInv
    <3>2. connectorRefs /\ client' # "dead"
      BY Zenon, <1>1, <2>1, <3>1 DEF DeadInv
    <3> QED
      BY Zenon, <3>2 DEF DeadInv
  <2>2. CASE client' = "dead"
    <3>1. ~StartQueued
      BY Zenon, <1>2, AskedOf
    <3>2. /\ call'[1] = "none" /\ pc' # "restart" /\ ~StartQueued'
          /\ ~StopQueued' /\ channel' # "watched" /\ connectorRefs'
      BY <1>2, <1>3, <1>4, <2>2, <3>1
    <3>3. ~(timers' + due' > 0)
      BY Zenon, <1>7, <2>2
    <3>4. \A i \in Registered' : FALSE
      BY Zenon, <1>2, <1>6
    <3> QED
      BY Zenon, <3>2, <3>3, <3>4 DEF DeadInv
  <2> QED
    BY <2>1, <2>2
<1> QED
  BY Zenon, <1>4, <1>7, <1>9, <1>10, <1>11, <1>12 DEF IInv

-----------------------------------------------------------------------------
(***************************************************************************)
(* Steps that leave the connector and the queue alone.                     *)
(***************************************************************************)

\* Nobody asks for startInLoop() who did not before.
LEMMA AskedLess ==
  ASSUME "connect" \in called => "connect" \in called',
         call'[1] = "connect" => call[1] = "connect", StartQueued' => StartQueued
  PROVE  Asked' <= Asked
<1>1. /\ One("connect" \notin called)' <= One("connect" \notin called)
      /\ One(call[1] = "connect")' <= One(call[1] = "connect")
      /\ One(StartQueued)' <= One(StartQueued)
  BY DEF One
<1>2. /\ One("connect" \notin called) \in Nat /\ One("connect" \notin called)' \in Nat
      /\ One(call[1] = "connect") \in Nat /\ One(call[1] = "connect")' \in Nat
      /\ One(StartQueued) \in Nat /\ One(StartQueued)' \in Nat
  BY DEF One
<1> QED
  BY <1>1, <1>2 DEF Asked

LEMMA AskedQuiet ==
  ASSUME UNCHANGED <<functors, pendingFunctors, ran>>,
         "connect" \in called => "connect" \in called',
         call'[1] = "connect" => call[1] = "connect"
  PROVE  Asked' <= Asked
<1>1. StartQueued' => StartQueued
  BY Zenon DEF StartQueued, ToRun, Left
<1> QED
  BY Zenon, <1>1, AskedLess

LEMMA TypeQuiet ==
  ASSUME TypeOK,
         UNCHANGED <<gaveUp, aborted, state, channel, retryDelayMs, timers, open,
                     due, ran, connection, pc, active>>,
         connect' \in BOOLEAN, retry' \in BOOLEAN, wanted' \in BOOLEAN,
         connectorRefs' \in BOOLEAN, client' \in {"alive", "dead"},
         conns' \in [Conns -> {"none", "up", "shut", "closed"}],
         closeCallback' \in [Conns -> {"client", "detail"}]
  PROVE  TypeOK'
  BY Zenon DEF TypeOK

\* The types of what such steps may assign.
LEMMA TypeParts ==
  ASSUME TypeOK
  PROVE  /\ retry \in BOOLEAN /\ wanted \in BOOLEAN /\ connectorRefs \in BOOLEAN
         /\ client \in {"alive", "dead"} /\ connection \in Conns \cup {0}
         /\ conns \in [Conns -> {"none", "up", "shut", "closed"}]
         /\ closeCallback \in [Conns -> {"client", "detail"}]
         /\ gaveUp \in BOOLEAN
  BY Zenon DEF TypeOK

LEMMA QuietPreserves ==
  ASSUME IInv,
         UNCHANGED <<aborted, state, channel, timers, open, pendingFunctors,
                     functors, ran, active, due, pc>>,
         Registered' = Registered,
         \A i \in Conns : conns'[i] = "closed" <=> conns[i] = "closed",
         \A i \in Conns : conns'[i] = "none" <=> conns[i] = "none",
         Asked' <= Asked, TypeOK', QueueTypeOK', OwnerInv', DeadInv'
  PROVE  IInv'
<1>1. /\ TypeOK /\ QueueTypeOK /\ StartInv /\ QueueInv /\ IterationInv
      /\ OwnerInv /\ DeadInv /\ NoSocketLeaks
      /\ timers \in Nat /\ due \in Nat /\ ran \in Nat /\ open \in Nat
      /\ connect \in BOOLEAN /\ retryDelayMs \in Delays
  BY Parts
<1>2. StartInv'
  BY Zenon, <1>1, StartFrame
<1>3. QueueInv'
  BY Zenon, <1>1, ToRunFrame, QueueFrame
<1>4. IterationInv'
  BY Zenon, <1>1, IterationFrame
<1>5. NoSocketLeaks'
  BY Zenon, <1>1, SocketFrame
<1> QED
  BY Zenon, <1>2, <1>3, <1>4, <1>5 DEF IInv

\* shutdown() of the connection leaves it with the loop.
LEMMA ShutDownFrame ==
  ASSUME conns \in [Conns -> {"none", "up", "shut", "closed"}], conns' = ShutDown
  PROVE  /\ conns' \in [Conns -> {"none", "up", "shut", "closed"}]
         /\ Registered' = Registered
         /\ \A i \in Conns : conns'[i] = "closed" <=> conns[i] = "closed"
         /\ \A i \in Conns : conns'[i] = "none" <=> conns[i] = "none"
<1>1. \A i \in Conns : \/ conns'[i] = conns[i]
                       \/ conns'[i] = "shut" /\ conns[i] = "up"
  BY DEF ShutDown
<1>2. conns' \in [Conns -> {"none", "up", "shut", "closed"}]
  BY DEF ShutDown
<1> QED
  BY <1>1, <1>2 DEF Registered

\* No functor refers to the connector.
LEMMA NotQueued ==
  ASSUME QueueTypeOK, ran \in Nat
  PROVE  ConnectorQueued <=> StartQueued \/ StopQueued \/ ResetQueued
<1>1. Bound(start) /\ Bound(stop) /\ Bound(reset)
  BY DEF Bound, start, stop, reset, Functor
<1>2. \A f \in Functors : Bound(f) => f \in {start, stop, reset}
  BY DEF Bound, start, stop, reset, destroyed, Functor, Functors
<1>3. ASSUME StartQueued \/ StopQueued \/ ResetQueued PROVE ConnectorQueued
  <2>1. PICK g \in {start, stop, reset} : Has(ToRun, g)
    BY Zenon, <1>3 DEF StartQueued, StopQueued, ResetQueued
  <2>2. Bound(g)
    BY Zenon, <1>1
  <2> QED
    BY Zenon, <2>1, <2>2, ToRunType DEF ConnectorQueued
<1>4. ASSUME ConnectorQueued PROVE StartQueued \/ StopQueued \/ ResetQueued
  <2>1. /\ \A k \in DOMAIN pendingFunctors : pendingFunctors[k] \in Functors
        /\ \A k \in ran + 1 .. Len(functors) : functors[k] \in Functors
    BY DEF QueueTypeOK
  <2>2. \E f \in Functors : Bound(f) /\ Has(ToRun, f)
    BY Zenon, <1>4, <2>1, ToRunType DEF ConnectorQueued
  <2> QED
    BY Zenon, <1>2, <2>2 DEF StartQueued, StopQueued, ResetQueued
<1> QED
  BY Zenon, <1>3, <1>4

\* stop().
LEMMA StopInCallbackPreserves ==
  ASSUME IInv, StopInCallback
  PROVE  IInv'
<1>1. /\ TypeOK /\ QueueTypeOK /\ StartInv /\ QueueInv /\ IterationInv
      /\ OwnerInv /\ DeadInv /\ NoSocketLeaks
      /\ timers \in Nat /\ due \in Nat /\ ran \in Nat /\ open \in Nat
      /\ connect \in BOOLEAN /\ retryDelayMs \in Delays
  BY Parts
<1>2. /\ client = "alive" /\ 0 \notin active
      /\ called' = called \cup {"stop"} /\ call' = call
      /\ wanted' = FALSE /\ connect' = FALSE /\ StopInLoop(FALSE)
      /\ retry' = retry /\ connection' = connection /\ client' = client
      /\ connectorRefs' = connectorRefs /\ closeCallback' = closeCallback
      /\ conns' = conns /\ pc' = pc /\ active' = active /\ due' = due
      /\ functors' = functors /\ ran' = ran
  BY Zenon DEF StopInCallback, InCallback, MayCall, loopVars
<1>3. CASE state = "kConnecting"
  <2>1. channel = "watched"
    BY Zenon, <1>1, <1>3 DEF StartInv
  <2>2. StopEffect(FALSE)
    <3>1. /\ Retry(FALSE, retryDelayMs) /\ RemoveAndResetChannel /\ open' = open - 1
          /\ gaveUp' = gaveUp /\ aborted' = aborted
      BY Zenon, <1>2, <1>3 DEF StopInLoop
    <3> QED
      BY Zenon, <1>1, <3>1, StopHasEffect
  <2>3. active' = active \ {0} /\ client' # "dead"
    BY <1>2
  <2> QED
    BY Zenon, <1>1, <1>2, <2>1, <2>2, <2>3, StopPreserves
<1>4. CASE state # "kConnecting"
  <2>1. /\ state' = state /\ channel' = channel /\ retryDelayMs' = retryDelayMs
        /\ timers' = timers /\ open' = open /\ gaveUp' = gaveUp
        /\ aborted' = aborted /\ pendingFunctors' = pendingFunctors
    BY Zenon, <1>2, <1>4 DEF StopInLoop, attempt
  <2>2. Registered' = Registered
    BY Zenon, <1>2 DEF Registered
  <2>3. Asked' <= Asked
    <3>1. "connect" \in called => "connect" \in called'
      BY <1>2
    <3> QED
      BY Zenon, <1>2, <2>1, <3>1, AskedQuiet
  <2>4. TypeOK'
    <3>1. connect' \in BOOLEAN /\ wanted' \in BOOLEAN
      BY Zenon, <1>2
    <3> QED
      BY Zenon, <1>1, <1>2, <2>1, <3>1, TypeParts, TypeQuiet
  <2>5. QueueTypeOK' /\ OwnerInv'
    BY Zenon, <1>1, <1>2, <2>1, <2>2, QueueTypeFrame, OwnerFrame
  <2>6. DeadInv'
    BY Zenon, <1>1, <1>2, AliveFrame
  <2> QED
    BY Zenon, <1>2, <2>1, <2>2, <2>3, <2>4, <2>5, <2>6, QuietPreserves
<1> QED
  BY <1>3, <1>4

\* disconnect().
LEMMA DisconnectInLoopPreserves ==
  ASSUME IInv, DisconnectInLoop
  PROVE  IInv'
<1>1. /\ TypeOK /\ QueueTypeOK /\ StartInv /\ QueueInv /\ IterationInv
      /\ OwnerInv /\ DeadInv /\ NoSocketLeaks
      /\ timers \in Nat /\ due \in Nat /\ ran \in Nat /\ open \in Nat
      /\ connect \in BOOLEAN /\ retryDelayMs \in Delays
  BY Parts
<1>2. /\ client = "alive"
      /\ called' = called \cup {"disconnect"} /\ call' = call
      /\ wanted' = FALSE /\ connect' = connect /\ conns' = ShutDown
      /\ state' = state /\ channel' = channel /\ retryDelayMs' = retryDelayMs
      /\ timers' = timers /\ open' = open /\ gaveUp' = gaveUp
      /\ aborted' = aborted /\ pendingFunctors' = pendingFunctors
      /\ retry' = retry /\ connection' = connection /\ client' = client
      /\ connectorRefs' = connectorRefs /\ closeCallback' = closeCallback
      /\ pc' = pc /\ active' = active /\ due' = due
      /\ functors' = functors /\ ran' = ran
  BY Zenon DEF DisconnectInLoop, InCallback, MayCall, loopVars, attempt
<1>3. /\ conns' \in [Conns -> {"none", "up", "shut", "closed"}]
      /\ Registered' = Registered
      /\ \A i \in Conns : conns'[i] = "closed" <=> conns[i] = "closed"
      /\ \A i \in Conns : conns'[i] = "none" <=> conns[i] = "none"
  BY Zenon, <1>1, <1>2, ShutDownFrame DEF TypeOK
<1>4. Asked' <= Asked
  <2>1. "connect" \in called => "connect" \in called'
    BY <1>2
  <2> QED
    BY Zenon, <1>2, <2>1, AskedQuiet
<1>5. TypeOK'
  <2>1. wanted' \in BOOLEAN
    BY Zenon, <1>2
  <2> QED
    BY Zenon, <1>1, <1>2, <1>3, <2>1, TypeParts, TypeQuiet
<1>6. QueueTypeOK' /\ OwnerInv'
  BY Zenon, <1>1, <1>2, <1>3, QueueTypeFrame, OwnerFrame
<1>7. DeadInv'
  BY Zenon, <1>1, <1>2, AliveFrame
<1> QED
  BY Zenon, <1>2, <1>3, <1>4, <1>5, <1>6, <1>7, QuietPreserves

\* enableRetry().
LEMMA EnableRetryPreserves ==
  ASSUME IInv, EnableRetry
  PROVE  IInv'
<1>1. /\ TypeOK /\ QueueTypeOK /\ StartInv /\ QueueInv /\ IterationInv
      /\ OwnerInv /\ DeadInv /\ NoSocketLeaks
      /\ timers \in Nat /\ due \in Nat /\ ran \in Nat /\ open \in Nat
      /\ connect \in BOOLEAN /\ retryDelayMs \in Delays
  BY Parts
<1>2. /\ client = "alive" /\ retry' = TRUE
      /\ called' = called /\ call' = call /\ wanted' = wanted
      /\ connect' = connect /\ conns' = conns
      /\ state' = state /\ channel' = channel /\ retryDelayMs' = retryDelayMs
      /\ timers' = timers /\ open' = open /\ gaveUp' = gaveUp
      /\ aborted' = aborted /\ pendingFunctors' = pendingFunctors
      /\ connection' = connection /\ client' = client
      /\ connectorRefs' = connectorRefs /\ closeCallback' = closeCallback
      /\ pc' = pc /\ active' = active /\ due' = due
      /\ functors' = functors /\ ran' = ran
  BY Zenon DEF EnableRetry, InCallback, userVars, loopVars, attempt
<1>3. Registered' = Registered
  BY Zenon, <1>2 DEF Registered
<1>4. Asked' <= Asked
  <2>1. "connect" \in called => "connect" \in called'
    BY <1>2
  <2> QED
    BY Zenon, <1>2, <2>1, AskedQuiet
<1>5. TypeOK'
  <2>1. retry' \in BOOLEAN
    BY Zenon, <1>2
  <2> QED
    BY Zenon, <1>1, <1>2, <2>1, TypeParts, TypeQuiet
<1>6. QueueTypeOK' /\ OwnerInv'
  BY Zenon, <1>1, <1>2, <1>3, QueueTypeFrame, OwnerFrame
<1>7. DeadInv'
  BY Zenon, <1>1, <1>2, AliveFrame
<1> QED
  BY Zenon, <1>2, <1>3, <1>4, <1>5, <1>6, <1>7, QuietPreserves

\* ~TcpClient() with a connection.
LEMMA DestroyConnectedPreserves ==
  ASSUME IInv, DestroyConnected
  PROVE  IInv'
<1>1. /\ TypeOK /\ QueueTypeOK /\ StartInv /\ QueueInv /\ IterationInv
      /\ OwnerInv /\ DeadInv /\ NoSocketLeaks
      /\ timers \in Nat /\ due \in Nat /\ ran \in Nat /\ open \in Nat
      /\ connect \in BOOLEAN /\ retryDelayMs \in Delays
  BY Parts
<1>2. /\ client = "alive" /\ pc \in {"handling", "functors"}
      /\ call[1] = "none" /\ ~ConnectorQueued /\ connection # 0
      /\ client' = "dead" /\ connectorRefs' = FALSE
      /\ closeCallback' = [closeCallback EXCEPT ![connection] = "detail"]
      /\ called' = called /\ call' = call /\ wanted' = wanted
      /\ connect' = connect /\ conns' = conns /\ retry' = retry
      /\ state' = state /\ channel' = channel /\ retryDelayMs' = retryDelayMs
      /\ timers' = timers /\ open' = open /\ gaveUp' = gaveUp
      /\ aborted' = aborted /\ pendingFunctors' = pendingFunctors
      /\ connection' = connection
      /\ pc' = pc /\ active' = active /\ due' = due
      /\ functors' = functors /\ ran' = ran
  BY Zenon DEF DestroyConnected, InCallback, userVars, loopVars, attempt
<1>3. Registered' = Registered
  BY Zenon, <1>2 DEF Registered
<1>4. Asked' <= Asked
  BY Zenon, <1>2, AskedQuiet
<1>5. connection \in Registered /\ \A i \in Registered : i = connection
  BY Zenon, <1>1, <1>2 DEF OwnerInv
<1>6. closeCallback' \in [Conns -> {"client", "detail"}]
      /\ \A i \in Registered : closeCallback'[i] = "detail"
  <2>1. closeCallback \in [Conns -> {"client", "detail"}] /\ Registered \subseteq Conns
    BY Zenon, <1>1, TypeParts DEF Registered
  <2> QED
    BY <1>2, <1>5, <2>1
<1>7. TypeOK'
  <2>1. connectorRefs' \in BOOLEAN /\ client' \in {"alive", "dead"}
    BY Zenon, <1>2
  <2> QED
    BY Zenon, <1>1, <1>2, <1>6, <2>1, TypeParts, TypeQuiet
<1>8. QueueTypeOK'
  BY Zenon, <1>1, <1>2, QueueTypeFrame
<1>9. OwnerInv'
  <2>1. client' # "alive"
    BY <1>2
  <2> QED
    BY Zenon, <1>2, <1>3, <1>5, <2>1 DEF OwnerInv
<1>10. DeadInv'
  <2>1. ~StartQueued /\ ~StopQueued /\ ~ResetQueued
    BY Zenon, <1>1, <1>2, NotQueued
  <2>2. timers = 0 /\ due = 0 /\ channel # "watched"
    BY Zenon, <1>1, <1>5, OnlyOne
  <2>3. channel = "null" /\ ~(timers + due > 0) /\ pc # "restart"
    <3>1. channel # "removed"
      BY Zenon, <1>1, <2>1 DEF QueueInv
    <3>2. channel \in {"null", "watched", "removed"}
      BY Zenon, <1>1 DEF TypeOK
    <3> QED
      BY <1>2, <2>2, <3>1, <3>2
  <2>4. StartQueued' = StartQueued /\ StopQueued' = StopQueued
    BY Zenon, <1>2, ToRunFrame
  <2> QED
    BY Zenon, <1>2, <1>3, <1>6, <2>1, <2>2, <2>3, <2>4 DEF DeadInv
<1> QED
  BY Zenon, <1>2, <1>3, <1>4, <1>7, <1>8, <1>9, <1>10, QuietPreserves

\* ~TcpClient() without one.
LEMMA DestroyUnconnectedPreserves ==
  ASSUME IInv, DestroyUnconnected
  PROVE  IInv'
<1>1. /\ TypeOK /\ QueueTypeOK /\ StartInv /\ QueueInv /\ IterationInv
      /\ OwnerInv /\ DeadInv /\ NoSocketLeaks
      /\ timers \in Nat /\ due \in Nat /\ ran \in Nat /\ open \in Nat
      /\ connect \in BOOLEAN /\ retryDelayMs \in Delays
  BY Parts
<1>2. /\ client = "alive" /\ pc \in {"handling", "functors"} /\ 0 \notin active
      /\ call[1] = "none" /\ ~ConnectorQueued /\ connection = 0
      /\ client' = "dead" /\ connect' = FALSE /\ StopInLoop(FALSE)
      /\ retry' = retry /\ wanted' = wanted /\ connection' = connection
      /\ connectorRefs' = connectorRefs /\ closeCallback' = closeCallback
      /\ conns' = conns /\ called' = called /\ call' = call
      /\ pc' = pc /\ active' = active /\ due' = due
      /\ functors' = functors /\ ran' = ran
  BY Zenon DEF DestroyUnconnected, InCallback, userVars, loopVars
<1>3. ~StartQueued /\ ~StopQueued /\ ~ResetQueued
  BY Zenon, <1>1, <1>2, NotQueued
<1>4. connectorRefs
  <2>1. client # "dead"
    BY <1>2
  <2> QED
    BY Zenon, <1>1, <2>1 DEF DeadInv
<1>5. connect' \in BOOLEAN /\ client' \in {"alive", "dead"} /\ FALSE \in BOOLEAN
  BY Zenon, <1>2
<1>6. CASE state = "kConnecting"
  <2>1. channel = "watched"
    BY Zenon, <1>1, <1>6 DEF StartInv
  <2>2. StopEffect(FALSE)
    <3>1. /\ Retry(FALSE, retryDelayMs) /\ RemoveAndResetChannel /\ open' = open - 1
          /\ gaveUp' = gaveUp /\ aborted' = aborted
      BY Zenon, <1>2, <1>6 DEF StopInLoop
    <3> QED
      BY Zenon, <1>1, <3>1, StopHasEffect
  <2>3. active' = active \ {0}
    BY <1>2
  <2>4. called \subseteq called' /\ wanted' \in BOOLEAN
    BY Zenon, <1>1, <1>2, TypeParts
  <2> QED
    BY Zenon, <1>2, <1>3, <1>4, <1>5, <2>1, <2>2, <2>3, <2>4, StopPreserves
<1>7. CASE state # "kConnecting"
  <2>1. /\ state' = state /\ channel' = channel /\ retryDelayMs' = retryDelayMs
        /\ timers' = timers /\ open' = open /\ gaveUp' = gaveUp
        /\ aborted' = aborted /\ pendingFunctors' = pendingFunctors
    BY Zenon, <1>2, <1>7 DEF StopInLoop, attempt
  <2>2. Registered' = Registered
    BY Zenon, <1>2 DEF Registered
  <2>3. Asked' <= Asked
    BY Zenon, <1>2, <2>1, AskedQuiet
  <2>4. TypeOK'
    BY Zenon, <1>1, <1>2, <1>5, <2>1, TypeParts, TypeQuiet
  <2>5. QueueTypeOK'
    BY Zenon, <1>1, <1>2, <2>1, QueueTypeFrame
  <2>6. \A i \in Registered : FALSE
    <3>1. 0 \notin Registered
      BY ConnsAssumption DEF Registered
    <3> QED
      BY Zenon, <1>1, <1>2, <3>1 DEF OwnerInv
  <2>7. OwnerInv'
    <3>1. client' # "alive"
      BY <1>2
    <3> QED
      BY Zenon, <2>2, <2>6, <3>1 DEF OwnerInv
  <2>8. DeadInv'
    <3>1. StartQueued' = StartQueued /\ StopQueued' = StopQueued
      BY Zenon, <1>2, <2>1, ToRunFrame
    <3>2. channel # "watched" /\ pc # "restart"
      <4>1. pc # "restart"
        BY <1>2
      <4> QED
        BY Zenon, <1>1, <1>7, <4>1 DEF StartInv
    <3> QED
      BY Zenon, <1>2, <1>3, <1>4, <2>1, <2>2, <2>6, <3>1, <3>2 DEF DeadInv
  <2> QED
    BY Zenon, <1>2, <2>1, <2>2, <2>3, <2>4, <2>5, <2>7, <2>8, QuietPreserves
<1> QED
  BY <1>6, <1>7

\* The second that ~TcpClient() waits is over.
LEMMA RemoveConnectorPreserves ==
  ASSUME IInv, RemoveConnector
  PROVE  IInv'
<1>1. /\ TypeOK /\ QueueTypeOK /\ StartInv /\ QueueInv /\ IterationInv
      /\ OwnerInv /\ DeadInv /\ NoSocketLeaks
      /\ timers \in Nat /\ due \in Nat /\ ran \in Nat /\ open \in Nat
      /\ connect \in BOOLEAN /\ retryDelayMs \in Delays
  BY Parts
<1>2. /\ client = "dead" /\ ~ConnectorQueued /\ connectorRefs' = FALSE
      /\ called' = called /\ call' = call /\ wanted' = wanted
      /\ connect' = connect /\ conns' = conns /\ retry' = retry
      /\ state' = state /\ channel' = channel /\ retryDelayMs' = retryDelayMs
      /\ timers' = timers /\ open' = open /\ gaveUp' = gaveUp
      /\ aborted' = aborted /\ pendingFunctors' = pendingFunctors
      /\ connection' = connection /\ client' = client
      /\ closeCallback' = closeCallback
      /\ pc' = pc /\ active' = active /\ due' = due
      /\ functors' = functors /\ ran' = ran
  BY Zenon DEF RemoveConnector, userVars, loopVars, attempt
<1>3. Registered' = Registered
  BY Zenon, <1>2 DEF Registered
<1>4. Asked' <= Asked
  BY Zenon, <1>2, AskedQuiet
<1>5. TypeOK'
  <2>1. connectorRefs' \in BOOLEAN
    BY Zenon, <1>2
  <2> QED
    BY Zenon, <1>1, <1>2, <2>1, TypeParts, TypeQuiet
<1>6. QueueTypeOK' /\ OwnerInv'
  BY Zenon, <1>1, <1>2, <1>3, QueueTypeFrame, OwnerFrame
<1>7. DeadInv'
  <2>1. ~ResetQueued
    BY Zenon, <1>1, <1>2, NotQueued
  <2>2. channel = "null"
    <3>1. channel # "removed"
      BY Zenon, <1>1, <2>1 DEF QueueInv
    <3>2. channel \in {"null", "watched", "removed"} /\ channel # "watched"
      BY Zenon, <1>1, <1>2 DEF TypeOK, DeadInv
    <3> QED
      BY <3>1, <3>2
  <2>3. StartQueued' = StartQueued /\ StopQueued' = StopQueued
    BY Zenon, <1>2, ToRunFrame
  <2> QED
    BY Zenon, <1>1, <1>2, <1>3, <2>2, <2>3 DEF DeadInv
<1> QED
  BY Zenon, <1>2, <1>3, <1>4, <1>5, <1>6, <1>7, QuietPreserves

-----------------------------------------------------------------------------
(***************************************************************************)
(* Calls of another thread.                                                *)
(***************************************************************************)

\* The client is there while it is called.
LEMMA CalledAlive ==
  ASSUME TypeOK, DeadInv, call[1] # "none"
  PROVE  client = "alive"
  BY Zenon DEF TypeOK, DeadInv

LEMMA CallFromPreserves ==
  ASSUME IInv, NEW name \in {"connect", "stop", "disconnect"}, CallFrom(name)
  PROVE  IInv'
<1>1. /\ TypeOK /\ QueueTypeOK /\ StartInv /\ QueueInv /\ IterationInv
      /\ OwnerInv /\ DeadInv /\ NoSocketLeaks
      /\ timers \in Nat /\ due \in Nat /\ ran \in Nat /\ open \in Nat
      /\ connect \in BOOLEAN /\ retryDelayMs \in Delays
  BY Parts
<1>2. /\ client = "alive" /\ call[1] = "none" /\ name \notin called
      /\ called' = called \cup {name} /\ call' = <<name, 1>>
      /\ wanted' = (name = "connect") /\ connectorRefs' = connectorRefs
      /\ connect' = connect /\ conns' = conns /\ retry' = retry
      /\ state' = state /\ channel' = channel /\ retryDelayMs' = retryDelayMs
      /\ timers' = timers /\ open' = open /\ gaveUp' = gaveUp
      /\ aborted' = aborted /\ pendingFunctors' = pendingFunctors
      /\ connection' = connection /\ client' = client
      /\ closeCallback' = closeCallback
      /\ pc' = pc /\ active' = active /\ due' = due
      /\ functors' = functors /\ ran' = ran
  BY Zenon DEF CallFrom, loopVars, attempt
<1>3. Registered' = Registered
  BY Zenon, <1>2 DEF Registered
<1>4. Asked' <= Asked
  <2>1. call'[1] = name
    BY <1>2
  <2>2. CASE name # "connect"
    <3>1. "connect" \in called => "connect" \in called'
      BY <1>2
    <3> QED
      BY Zenon, <1>2, <2>1, <2>2, <3>1, AskedQuiet
  <2>3. CASE name = "connect"
    <3>1. /\ One("connect" \notin called) = 1 /\ One("connect" \notin called)' = 0
          /\ One(call[1] = "connect") = 0 /\ One(call[1] = "connect")' = 1
      BY <1>2, <2>1, <2>3 DEF One
    <3>2. One(StartQueued)' = One(StartQueued) /\ One(StartQueued) \in Nat
      <4>1. One(StartQueued)' = One(StartQueued)
        BY Zenon, <1>2 DEF One, StartQueued, ToRun, Left
      <4>2. One(StartQueued) \in Nat
        BY DEF One
      <4> QED
        BY Zenon, <4>1, <4>2
    <3> QED
      BY <3>1, <3>2 DEF Asked
  <2> QED
    BY <2>2, <2>3
<1>5. TypeOK'
  <2>1. wanted' \in BOOLEAN
    BY Zenon, <1>2
  <2> QED
    BY Zenon, <1>1, <1>2, <2>1, TypeParts, TypeQuiet
<1>6. QueueTypeOK'
  <2>1. call' \in {<<"none", 0>>, <<"connect", 1>>, <<"connect", 2>>, <<"stop", 1>>,
                   <<"stop", 2>>, <<"disconnect", 1>>}
    BY Zenon, <1>2
  <2> QED
    BY Zenon, <1>1, <1>2, <2>1 DEF QueueTypeOK
<1>7. OwnerInv' /\ DeadInv'
  BY Zenon, <1>1, <1>2, <1>3, OwnerFrame, AliveFrame
<1> QED
  BY Zenon, <1>2, <1>3, <1>4, <1>5, <1>6, <1>7, QuietPreserves

LEMMA CallAssignsPreserves ==
  ASSUME IInv, CallAssigns
  PROVE  IInv'
<1>1. /\ TypeOK /\ QueueTypeOK /\ StartInv /\ QueueInv /\ IterationInv
      /\ OwnerInv /\ DeadInv /\ NoSocketLeaks
      /\ timers \in Nat /\ due \in Nat /\ ran \in Nat /\ open \in Nat
      /\ connect \in BOOLEAN /\ retryDelayMs \in Delays
  BY Parts
<1>2. /\ call \in {<<"connect", 1>>, <<"stop", 1>>} /\ call' = <<call[1], 2>>
      /\ connect' = (call[1] = "connect")
      /\ wanted' = wanted /\ connectorRefs' = connectorRefs
      /\ called' = called /\ conns' = conns /\ retry' = retry
      /\ state' = state /\ channel' = channel /\ retryDelayMs' = retryDelayMs
      /\ timers' = timers /\ open' = open /\ gaveUp' = gaveUp
      /\ aborted' = aborted /\ pendingFunctors' = pendingFunctors
      /\ connection' = connection /\ client' = client
      /\ closeCallback' = closeCallback
      /\ pc' = pc /\ active' = active /\ due' = due
      /\ functors' = functors /\ ran' = ran
  BY Zenon DEF CallAssigns, clientVars, loopVars, attempt
<1>3. /\ call'[1] = call[1] /\ call[1] # "none"
      /\ call' \in {<<"none", 0>>, <<"connect", 1>>, <<"connect", 2>>, <<"stop", 1>>,
                    <<"stop", 2>>, <<"disconnect", 1>>}
  BY <1>2
<1>4. Registered' = Registered
  BY Zenon, <1>2 DEF Registered
<1>5. Asked' <= Asked
  BY Zenon, <1>2, <1>3, AskedQuiet
<1>6. TypeOK'
  <2>1. connect' \in BOOLEAN
    BY Zenon, <1>2
  <2> QED
    BY Zenon, <1>1, <1>2, <2>1, TypeParts, TypeQuiet
<1>7. QueueTypeOK'
  BY Zenon, <1>1, <1>2, <1>3 DEF QueueTypeOK
<1>8. OwnerInv' /\ DeadInv'
  BY Zenon, <1>1, <1>2, <1>3, <1>4, CalledAlive, OwnerFrame, AliveFrame
<1> QED
  BY Zenon, <1>2, <1>4, <1>5, <1>6, <1>7, <1>8, QuietPreserves

LEMMA CallShutsDownPreserves ==
  ASSUME IInv, CallShutsDown
  PROVE  IInv'
<1>1. /\ TypeOK /\ QueueTypeOK /\ StartInv /\ QueueInv /\ IterationInv
      /\ OwnerInv /\ DeadInv /\ NoSocketLeaks
      /\ timers \in Nat /\ due \in Nat /\ ran \in Nat /\ open \in Nat
      /\ connect \in BOOLEAN /\ retryDelayMs \in Delays
  BY Parts
<1>2. /\ call = <<"disconnect", 1>> /\ call' = <<"none", 0>>
      /\ conns' = ShutDown /\ connect' = connect
      /\ wanted' = wanted /\ connectorRefs' = connectorRefs
      /\ called' = called /\ retry' = retry
      /\ state' = state /\ channel' = channel /\ retryDelayMs' = retryDelayMs
      /\ timers' = timers /\ open' = open /\ gaveUp' = gaveUp
      /\ aborted' = aborted /\ pendingFunctors' = pendingFunctors
      /\ connection' = connection /\ client' = client
      /\ closeCallback' = closeCallback
      /\ pc' = pc /\ active' = active /\ due' = due
      /\ functors' = functors /\ ran' = ran
  BY Zenon DEF CallShutsDown, clientVars, loopVars, attempt
<1>3. /\ call'[1] # "connect" /\ call[1] # "none"
      /\ call' \in {<<"none", 0>>, <<"connect", 1>>, <<"connect", 2>>, <<"stop", 1>>,
                    <<"stop", 2>>, <<"disconnect", 1>>}
  BY <1>2
<1>4. /\ conns' \in [Conns -> {"none", "up", "shut", "closed"}]
      /\ Registered' = Registered
      /\ \A i \in Conns : conns'[i] = "closed" <=> conns[i] = "closed"
      /\ \A i \in Conns : conns'[i] = "none" <=> conns[i] = "none"
  BY Zenon, <1>1, <1>2, TypeParts, ShutDownFrame
<1>5. Asked' <= Asked
  BY Zenon, <1>2, <1>3, AskedQuiet
<1>6. TypeOK'
  BY Zenon, <1>1, <1>2, <1>4, TypeParts, TypeQuiet
<1>7. QueueTypeOK'
  BY Zenon, <1>1, <1>2, <1>3 DEF QueueTypeOK
<1>8. OwnerInv' /\ DeadInv'
  BY Zenon, <1>1, <1>2, <1>3, <1>4, CalledAlive, OwnerFrame, AliveFrame
<1> QED
  BY Zenon, <1>2, <1>4, <1>5, <1>6, <1>7, <1>8, QuietPreserves

LEMMA CallQueuesPreserves ==
  ASSUME IInv, CallQueues
  PROVE  IInv'
<1>1. /\ TypeOK /\ QueueTypeOK /\ StartInv /\ QueueInv /\ IterationInv
      /\ OwnerInv /\ DeadInv /\ NoSocketLeaks
      /\ timers \in Nat /\ due \in Nat /\ ran \in Nat /\ open \in Nat
      /\ connect \in BOOLEAN /\ retryDelayMs \in Delays
  BY Parts
<1> DEFINE f == IF call[1] = "connect" THEN start ELSE stop
<1>2. /\ call[2] = 2 /\ call' = <<"none", 0>>
      /\ connect' = connect /\ conns' = conns
      /\ wanted' = wanted /\ connectorRefs' = connectorRefs
      /\ called' = called /\ retry' = retry
      /\ state' = state /\ channel' = channel /\ retryDelayMs' = retryDelayMs
      /\ timers' = timers /\ open' = open /\ gaveUp' = gaveUp
      /\ aborted' = aborted
      /\ connection' = connection /\ client' = client
      /\ closeCallback' = closeCallback
      /\ pc' = pc /\ active' = active /\ due' = due
      /\ functors' = functors /\ ran' = ran
  BY Zenon DEF CallQueues, clientVars, loopVars, attempt
<1>3. pendingFunctors' = Append(pendingFunctors, f)
  BY DEF CallQueues, Queue, start, stop
<1>4. /\ call'[1] = "none" /\ call[1] \in {"connect", "stop"} /\ call[1] # "none"
      /\ call' \in {<<"none", 0>>, <<"connect", 1>>, <<"connect", 2>>, <<"stop", 1>>,
                    <<"stop", 2>>, <<"disconnect", 1>>}
  <2>1. call \in {<<"none", 0>>, <<"connect", 1>>, <<"connect", 2>>, <<"stop", 1>>,
                  <<"stop", 2>>, <<"disconnect", 1>>}
    BY Zenon, <1>1 DEF QueueTypeOK
  <2> QED
    BY <1>2, <2>1
<1>5. f \in Functors /\ f \in {start, stop}
  BY FunctorsApart
<1>6. call[1] = "connect" => f = start /\ ~StartQueued
  <2>1. SUFFICES ASSUME call[1] = "connect" PROVE ~StartQueued
    BY Zenon
  <2>2. Asked = 1
    BY Zenon, <1>1, <2>1, AskedOf, OnlyOne
  <2> QED
    BY <2>1, <2>2 DEF Asked, One
<1>7. call[1] # "connect" => f = stop
  BY Zenon
<1> HIDE DEF f
<1>8. /\ pendingFunctors' \in Seq(Functors)
      /\ \A g : Has(ToRun', g) <=> Has(ToRun, g) \/ g = f
      /\ Apart(ToRun) /\ (~Has(ToRun, f) \/ f = stop) => Apart(ToRun')
  BY Zenon, <1>1, <1>2, <1>3, <1>5, Queues
<1>9. Asked' <= Asked
  <2>1. CASE call[1] # "connect"
    <3>1. StartQueued' => StartQueued
      BY Zenon, <1>7, <1>8, <2>1, FunctorsApart DEF StartQueued
    <3> QED
      BY Zenon, <1>2, <1>4, <2>1, <3>1, AskedLess
  <2>2. CASE call[1] = "connect"
    <3>1. /\ One(call[1] = "connect") = 1 /\ One(call[1] = "connect")' = 0
          /\ One(StartQueued) = 0 /\ One(StartQueued)' \in 0 .. 1
      BY <1>4, <1>6, <2>2 DEF One
    <3>2. /\ One("connect" \notin called)' = One("connect" \notin called)
          /\ One("connect" \notin called) \in Nat
      BY <1>2 DEF One
    <3> QED
      BY <3>1, <3>2 DEF Asked
  <2> QED
    BY <2>1, <2>2
<1>10. Registered' = Registered
  BY Zenon, <1>2 DEF Registered
<1>11. StartInv'
  BY Zenon, <1>1, <1>2, <1>9, <1>10, StartFrame
<1>12. QueueInv'
  <2>1. Apart(ToRun')
    BY Zenon, <1>1, <1>6, <1>7, <1>8 DEF QueueInv, StartQueued
  <2>2. ResetQueued' <=> ResetQueued
    BY Zenon, <1>5, <1>8, FunctorsApart DEF ResetQueued
  <2>3. \A i \in Conns : Has(ToRun', destroyed(i)) <=> Has(ToRun, destroyed(i))
    BY Zenon, <1>5, <1>8, FunctorsApart
  <2> QED
    BY Zenon, <1>1, <1>2, <2>1, <2>2, <2>3 DEF QueueInv
<1>13. IterationInv' /\ NoSocketLeaks'
  BY Zenon, <1>1, <1>2, <1>10, IterationFrame, SocketFrame
<1>14. TypeOK'
  BY Zenon, <1>1, <1>2, TypeParts, TypeQuiet
<1>15. QueueTypeOK'
  BY Zenon, <1>1, <1>2, <1>4, <1>8 DEF QueueTypeOK
<1>16. OwnerInv' /\ DeadInv'
  BY Zenon, <1>1, <1>2, <1>4, <1>10, CalledAlive, OwnerFrame, AliveFrame
<1> QED
  BY Zenon, <1>11, <1>12, <1>13, <1>14, <1>15, <1>16 DEF IInv

-----------------------------------------------------------------------------
(***************************************************************************)
(* The loop.                                                               *)
(***************************************************************************)

LEMMA TypeLoop ==
  ASSUME TypeOK,
         UNCHANGED <<connect, gaveUp, aborted, state, channel, retryDelayMs, open,
                     retry, wanted, connectorRefs, connection, client, conns,
                     closeCallback>>,
         timers' \in Nat, due' \in Nat, ran' \in Nat,
         pc' \in {"poll", "handling", "restart", "functors"},
         active' \subseteq Conns \cup {0}
  PROVE  TypeOK'
  BY DEF TypeOK

LEMMA PollPreserves ==
  ASSUME IInv, Poll
  PROVE  IInv'
<1>1. /\ TypeOK /\ QueueTypeOK /\ StartInv /\ QueueInv /\ IterationInv
      /\ OwnerInv /\ DeadInv /\ NoSocketLeaks
      /\ timers \in Nat /\ due \in Nat /\ ran \in Nat /\ open \in Nat
      /\ connect \in BOOLEAN /\ retryDelayMs \in Delays
  BY Parts
<1>2. /\ pc = "poll" /\ pc' = "handling"
      /\ active' \in SUBSET (Registered \cup (IF channel = "watched" THEN {0} ELSE {}))
      /\ due' \in 0 .. (IF channel = "removed" THEN 0 ELSE timers)
      /\ timers' = timers - due'
      /\ connect' = connect /\ state' = state /\ channel' = channel
      /\ retryDelayMs' = retryDelayMs /\ open' = open /\ gaveUp' = gaveUp
      /\ aborted' = aborted /\ pendingFunctors' = pendingFunctors
      /\ retry' = retry /\ wanted' = wanted /\ connection' = connection
      /\ client' = client /\ connectorRefs' = connectorRefs
      /\ closeCallback' = closeCallback /\ conns' = conns
      /\ call' = call /\ called' = called /\ functors' = functors /\ ran' = ran
  BY Zenon DEF Poll, clientVars, userVars
<1>3. /\ active = {} /\ due = 0 /\ functors = <<>> /\ ran = 0
      /\ (Registered # {} => channel # "removed")
  <2>1. pc # "functors" /\ pc # "handling" /\ pc \in {"poll", "functors"}
    BY <1>2
  <2> QED
    BY Zenon, <1>1, <2>1 DEF IterationInv
<1>4. /\ due' \in Nat /\ timers' \in Nat /\ timers' + due' = timers + due
      /\ due' <= timers /\ (due' > 0 => channel # "removed")
  <2>1. /\ due' \in 0 .. timers /\ (channel = "removed" => due' \in 0 .. 0)
    <3>1. 0 .. 0 \subseteq 0 .. timers
      BY <1>1
    <3>2. due' \in 0 .. (IF channel = "removed" THEN 0 ELSE timers)
      BY Zenon, <1>2
    <3> QED
      BY Zenon, <3>1, <3>2
  <2>2. timers \in Nat /\ timers' = timers - due' /\ due = 0
    BY Zenon, <1>1, <1>2, <1>3
  <2>3. due' \in Nat /\ timers' \in Nat /\ timers' + due' = timers + due /\ due' <= timers
    <3>1. \A t \in Nat : \A d \in 0 .. t :
            d \in Nat /\ t - d \in Nat /\ (t - d) + d = t + 0 /\ d <= t
      OBVIOUS
    <3> QED
      BY Zenon, <2>1, <2>2, <3>1
  <2>4. due' > 0 => ~(due' \in 0 .. 0)
    OBVIOUS
  <2> QED
    BY Zenon, <2>1, <2>3, <2>4
<1>5. Registered' = Registered /\ Asked' = Asked
  BY Zenon, <1>2 DEF Registered, Asked, StartQueued, ToRun, Left
<1>6. due' > 0 => channel = "null"
  <2>1. SUFFICES ASSUME due' > 0 PROVE channel = "null"
    OBVIOUS
  <2>2. timers > 0
    BY <1>1, <1>4, <2>1
  <2>3. channel # "watched" /\ channel # "removed"
    BY Zenon, <1>1, <1>4, <2>1, <2>2, OnlyOne
  <2> QED
    BY <1>1, <2>3 DEF TypeOK
<1>7. StartInv'
  <2>1. pc' # "restart" /\ pc # "restart"
    BY <1>2
  <2>2. /\ One(channel = "watched")' = One(channel = "watched")
        /\ One(pc = "restart")' = One(pc = "restart")
        /\ Up' = Up
    BY Zenon, <1>2, <1>5, <2>1 DEF One, Up
  <2>3. One(channel = "watched") \in Nat /\ One(pc = "restart") \in Nat
    BY DEF One
  <2>4. Doing' = Doing
    <3>1. Doing' = Asked + timers' + due' + One(channel = "watched") + Up
                   + One(pc = "restart")
      BY Zenon, <1>5, <2>2 DEF Doing
    <3>2. Doing = Asked + timers + due + One(channel = "watched") + Up
                  + One(pc = "restart")
      BY Zenon DEF Doing
    <3>3. Asked \in Nat /\ Up \in Nat
      BY Zenon, AskedNat, UpNat
    <3>4. timers \in Nat /\ due \in Nat /\ timers' \in Nat /\ due' \in Nat
          /\ timers' + due' = timers + due
      BY Zenon, <1>1, <1>4
    <3>5. \A a, b, c \in Nat : a + b + c = a + (b + c)
      OBVIOUS
    <3>6. Asked + timers' + due' = Asked + timers + due
      <4>1. Asked + timers' + due' = Asked + (timers' + due')
        BY Zenon, <3>3, <3>4, <3>5
      <4>2. Asked + timers + due = Asked + (timers + due)
        BY Zenon, <3>3, <3>4, <3>5
      <4> QED
        BY Zenon, <3>4, <4>1, <4>2
    <3> QED
      BY Zenon, <3>1, <3>2, <3>6
  <2> QED
    BY Zenon, <1>1, <1>2, <1>4, <1>5, <1>6, <2>1, <2>4 DEF StartInv
<1>8. QueueInv'
  BY Zenon, <1>1, <1>2, ToRunFrame, QueueFrame
<1>9. active' \subseteq Registered \cup {0} /\ (0 \in active' => channel = "watched")
  <2>1. 0 \notin Registered
    BY ConnsAssumption DEF Registered
  <2> QED
    BY <1>2, <2>1
<1>10. IterationInv'
  <2>1. ASSUME active' \ {0} # {} PROVE channel = "null"
    <3>1. Registered # {}
      BY <1>9, <2>1
    <3>2. channel # "watched" /\ channel # "removed"
      BY Zenon, <1>1, <1>3, <3>1, OnlyOne
    <3> QED
      BY <1>1, <3>2 DEF TypeOK
  <2>2. pc' # "functors" /\ pc' # "poll"
    BY <1>2
  <2> QED
    BY Zenon, <1>2, <1>3, <1>5, <1>9, <2>1, <2>2 DEF IterationInv
<1>11. TypeOK'
  <2>1. active' \subseteq Conns \cup {0}
    BY <1>9 DEF Registered
  <2>2. pc' \in {"poll", "handling", "restart", "functors"}
    BY Zenon, <1>2
  <2>3. ran' \in Nat
    BY Zenon, <1>1, <1>2
  <2> QED
    BY Zenon, <1>1, <1>2, <1>4, <2>1, <2>2, <2>3, TypeLoop
<1>12. QueueTypeOK' /\ OwnerInv' /\ NoSocketLeaks'
  BY Zenon, <1>1, <1>2, <1>5, QueueTypeFrame, OwnerFrame, SocketFrame
<1>13. DeadInv'
  <2>1. StartQueued' = StartQueued /\ StopQueued' = StopQueued
    BY Zenon, <1>2, ToRunFrame
  <2>2. pc' # "restart"
    BY <1>2
  <2> QED
    BY Zenon, <1>1, <1>2, <1>4, <1>5, <2>1, <2>2 DEF DeadInv
<1> QED
  BY Zenon, <1>7, <1>8, <1>10, <1>11, <1>12, <1>13 DEF IInv

\* What handles the channel of an attempt that failed.
LEMMA HandleFailedPreserves ==
  ASSUME IInv, HandleFailed
  PROVE  IInv'
<1>1. /\ TypeOK /\ QueueTypeOK /\ StartInv /\ QueueInv /\ IterationInv
      /\ OwnerInv /\ DeadInv /\ NoSocketLeaks
      /\ timers \in Nat /\ due \in Nat /\ ran \in Nat /\ open \in Nat
      /\ connect \in BOOLEAN /\ retryDelayMs \in Delays
  BY Parts
<1>2. /\ active' = active \ {0} /\ ConnectionFailed
      /\ connect' = connect /\ retry' = retry /\ wanted' = wanted
      /\ connection' = connection /\ client' = client
      /\ connectorRefs' = connectorRefs /\ closeCallback' = closeCallback
      /\ conns' = conns /\ call' = call /\ called' = called
      /\ pc' = pc /\ due' = due /\ functors' = functors /\ ran' = ran
  BY Zenon DEF HandleFailed, clientVars, userVars
<1>3. channel = "watched"
  BY Zenon, <1>1, <1>2 DEF ConnectionFailed, StartInv
<1>4. StopEffect(connect)
  <2>1. /\ Retry(connect, retryDelayMs) /\ RemoveAndResetChannel /\ open' = open - 1
        /\ gaveUp' = gaveUp /\ aborted' = aborted
    BY Zenon, <1>2 DEF ConnectionFailed
  <2> QED
    BY Zenon, <1>1, <2>1, StopHasEffect
<1>5. client' # "dead" /\ client' \in {"alive", "dead"}
  BY Zenon, <1>1, <1>2, <1>3 DEF DeadInv, TypeOK
<1>6. called \subseteq called' /\ connect' \in BOOLEAN /\ wanted' \in BOOLEAN
  BY Zenon, <1>1, <1>2, TypeParts
<1> QED
  BY Zenon, <1>1, <1>2, <1>3, <1>4, <1>5, <1>6, StopPreserves

\* How many connections there are, when one is made and when one is deleted.
LEMMA ConnsCount ==
  ASSUME conns \in [Conns -> {"none", "up", "shut", "closed"}], NEW i \in Conns
  PROVE  /\ Cardinality({j \in Conns : conns[j] # "none"}) \in Nat
         /\ conns[i] = "none" /\ conns' = [conns EXCEPT ![i] = "up"] =>
              Cardinality({j \in Conns : conns'[j] # "none"}) =
              Cardinality({j \in Conns : conns[j] # "none"}) + 1
         /\ conns[i] # "none" /\ conns' = [conns EXCEPT ![i] = "none"] =>
              Cardinality({j \in Conns : conns'[j] # "none"}) =
              Cardinality({j \in Conns : conns[j] # "none"}) - 1
<1> DEFINE S == {j \in Conns : conns[j] # "none"}
           T == {j \in Conns : conns'[j] # "none"}
<1>1. S \in SUBSET Conns
  OBVIOUS
<1>2. IsFiniteSet(S) /\ Cardinality(S) \in Nat
  BY Zenon, <1>1, UpOf
<1>3. ASSUME conns[i] = "none", conns' = [conns EXCEPT ![i] = "up"]
      PROVE  T = S \cup {i} /\ i \notin S
  BY <1>3
<1>4. ASSUME conns[i] # "none", conns' = [conns EXCEPT ![i] = "none"]
      PROVE  T = S \ {i} /\ i \in S
  BY <1>4
<1> HIDE DEF S, T
<1>5. i \notin S => Cardinality(S \cup {i}) = Cardinality(S) + 1
  BY Zenon, <1>2, FS_AddElement
<1>6. i \in S => Cardinality(S \ {i}) = Cardinality(S) - 1
  BY <1>2, FS_RemoveElement
<1>7. /\ conns[i] = "none" /\ conns' = [conns EXCEPT ![i] = "up"] =>
           Cardinality(T) = Cardinality(S) + 1
      /\ conns[i] # "none" /\ conns' = [conns EXCEPT ![i] = "none"] =>
           Cardinality(T) = Cardinality(S) - 1
  BY Zenon, <1>3, <1>4, <1>5, <1>6
<1> QED
  BY Zenon, <1>2, <1>7 DEF S, T

\* handleWrite() when the socket is connected.
LEMMA HandleConnectedPreserves ==
  ASSUME IInv, HandleConnected
  PROVE  IInv'
<1>1. /\ TypeOK /\ QueueTypeOK /\ StartInv /\ QueueInv /\ IterationInv
      /\ OwnerInv /\ DeadInv /\ NoSocketLeaks
      /\ timers \in Nat /\ due \in Nat /\ ran \in Nat /\ open \in Nat
      /\ connect \in BOOLEAN /\ retryDelayMs \in Delays
  BY Parts
<1>2. /\ pc = "handling" /\ active' = active \ {0} /\ state = "kConnecting"
      /\ channel' = "removed"
      /\ pendingFunctors' = Append(pendingFunctors, reset)
      /\ state' = "kConnected" /\ open' = IF connect THEN open ELSE open - 1
      /\ retryDelayMs' = retryDelayMs /\ timers' = timers /\ gaveUp' = gaveUp
      /\ aborted' = aborted /\ connect' = connect
      /\ call' = call /\ called' = called /\ pc' = pc /\ due' = due
      /\ functors' = functors /\ ran' = ran
  BY Zenon DEF HandleConnected, Connected, RemoveAndResetChannel, Queue, reset, userVars
<1>3. \/ connect /\ \E i \in Conns : NewConnection(i)
      \/ /\ ~connect
         /\ retry' = retry /\ wanted' = wanted /\ connection' = connection
         /\ client' = client /\ connectorRefs' = connectorRefs
         /\ closeCallback' = closeCallback /\ conns' = conns
  BY Zenon DEF HandleConnected, clientVars
<1>4. channel = "watched"
  BY Zenon, <1>1, <1>2 DEF StartInv
<1>5. /\ Asked = 0 /\ timers = 0 /\ due = 0 /\ Registered = {} /\ pc # "restart"
      /\ ~aborted /\ client = "alive"
  BY Zenon, <1>1, <1>4, OnlyOne DEF StartInv, DeadInv, TypeOK
<1>6. active' = {}
  BY <1>1, <1>2, <1>5 DEF IterationInv
<1>7. functors = <<>> /\ ran = 0 /\ pc # "functors" /\ pc' = "handling"
  <2>1. pc # "functors"
    BY <1>2
  <2> QED
    BY Zenon, <1>1, <1>2, <2>1 DEF IterationInv
<1>8. IterationInv'
  BY Zenon, <1>2, <1>5, <1>6, <1>7 DEF IterationInv
<1> DEFINE n == Cardinality({j \in Conns : conns[j] # "none"})
<1>9. n \in Nat /\ open = 1 + n
  <2>1. {j \in Conns : conns[j] # "none"} \in SUBSET Conns
    OBVIOUS
  <2>2. n \in Nat
    BY <2>1, UpOf, Zenon
  <2>3. One(channel = "watched") = 1
    BY <1>4 DEF One
  <2> QED
    BY <1>1, <2>2, <2>3 DEF NoSocketLeaks
<1> HIDE DEF n
<1>10. One(channel = "watched")' = 0 /\ One(pc = "restart")' = 0
  BY <1>2 DEF One
<1>11. ASSUME \A i \in Conns : conns'[i] = "closed" <=> conns[i] = "closed"
       PROVE  QueueTypeOK' /\ QueueInv' /\ Asked' = 0
  <2>1. /\ QueueTypeOK' /\ QueueInv' /\ (StartQueued' <=> StartQueued)
    BY Zenon, <1>1, <1>2, <1>4, <1>11, QueuesReset
  <2> QED
    BY Zenon, <1>2, <1>5, <2>1, AskedOf
<1>12. ASSUME Up' \in 0 .. 1, Asked' = 0 PROVE StartInv'
  <2>1. Doing' = 0 + 0 + 0 + 0 + Up' + 0
    BY Zenon, <1>2, <1>5, <1>10, <1>12 DEF Doing
  <2>2. \A k \in 0 .. 1 : 0 + 0 + 0 + 0 + k + 0 <= 1
    OBVIOUS
  <2>3. Doing' <= 1
    BY Zenon, <1>12, <2>1, <2>2
  <2>4. ~aborted' /\ ~(Asked' > 0) /\ ~(due' > 0) /\ channel' # "watched"
        /\ state' # "kConnecting" /\ pc' # "restart" /\ ~(timers' + due' > 0)
    BY <1>2, <1>5, <1>12
  <2> QED
    BY Zenon, <2>3, <2>4 DEF StartInv
<1>13. CASE connect /\ \E i \in Conns : NewConnection(i)
  <2>1. PICK i \in Conns : NewConnection(i)
    BY Zenon, <1>13
  <2>2. /\ conns[i] = "none" /\ conns' = [conns EXCEPT ![i] = "up"]
        /\ connection' = i
        /\ closeCallback' = [closeCallback EXCEPT ![i] = "client"]
        /\ retry' = retry /\ wanted' = wanted /\ client' = client
        /\ connectorRefs' = connectorRefs
    BY Zenon, <2>1 DEF NewConnection
  <2>3. /\ conns \in [Conns -> {"none", "up", "shut", "closed"}]
        /\ closeCallback \in [Conns -> {"client", "detail"}]
    BY Zenon, <1>1, TypeParts
  <2>4. /\ conns' \in [Conns -> {"none", "up", "shut", "closed"}]
        /\ closeCallback' \in [Conns -> {"client", "detail"}]
        /\ conns'[i] = "up" /\ closeCallback'[i] = "client"
        /\ \A j \in Conns : j # i => conns'[j] = conns[j]
    BY <2>2, <2>3
  <2>5. \A j \in Conns : conns'[j] = "closed" <=> conns[j] = "closed"
    BY <2>2, <2>4
  <2>6. Registered' = {i}
    BY <1>5, <2>4 DEF Registered
  <2>7. Up' \in 0 .. 1
    <3>1. Cardinality({i}) = 1
      BY FS_Singleton
    <3>2. Up' = 1
      BY Zenon, <2>6, <3>1 DEF Up
    <3> QED
      BY <3>2
  <2>8. NoSocketLeaks' /\ open' \in Nat
    <3>1. Cardinality({j \in Conns : conns'[j] # "none"}) = n + 1
      BY Zenon, <2>2, <2>3, ConnsCount DEF n
    <3>2. open' = open
      BY Zenon, <1>2, <1>13
    <3>3. open' = 0 + (n + 1) /\ open' \in Nat
      BY <1>9, <3>2
    <3> QED
      BY Zenon, <1>10, <3>1, <3>3 DEF NoSocketLeaks
  <2>9. OwnerInv' /\ DeadInv'
    <3>1. \A j \in Registered' : j = i
      BY Zenon, <2>6
    <3>2. connection' \in Registered'
      BY Zenon, <2>2, <2>6
    <3>3. OwnerInv'
      BY Zenon, <2>2, <2>4, <3>1, <3>2 DEF OwnerInv
    <3> QED
      BY Zenon, <1>1, <1>5, <2>2, <3>3, AliveFrame
  <2>10. TypeOK'
    <3>1. connection' \in Conns \cup {0} /\ active' \subseteq Conns \cup {0}
      BY <1>6, <2>2
    <3> QED
      BY Zenon, <1>1, <1>2, <2>2, <2>4, <2>8, <3>1 DEF TypeOK
  <2> QED
    BY Zenon, <1>8, <1>11, <1>12, <2>5, <2>7, <2>8, <2>9, <2>10 DEF IInv
<1>14. CASE /\ ~connect
            /\ retry' = retry /\ wanted' = wanted /\ connection' = connection
            /\ client' = client /\ connectorRefs' = connectorRefs
            /\ closeCallback' = closeCallback /\ conns' = conns
  <2>1. Registered' = Registered
    BY Zenon, <1>14 DEF Registered
  <2>2. Up' \in 0 .. 1
    <3>1. Up' = 0
      BY Zenon, <1>5, <2>1, UpNat
    <3> QED
      BY <3>1
  <2>3. NoSocketLeaks' /\ open' \in Nat
    <3>1. Cardinality({j \in Conns : conns'[j] # "none"}) = n
      BY Zenon, <1>14 DEF n
    <3>2. open' = open - 1
      BY Zenon, <1>2, <1>14
    <3>3. open' = 0 + n /\ open' \in Nat
      BY <1>9, <3>2
    <3> QED
      BY Zenon, <1>10, <3>1, <3>3 DEF NoSocketLeaks
  <2>4. OwnerInv' /\ DeadInv'
    BY Zenon, <1>1, <1>5, <1>14, <2>1, OwnerFrame, AliveFrame
  <2>5. TypeOK'
    <3>1. active' \subseteq Conns \cup {0}
      BY <1>6
    <3> QED
      BY Zenon, <1>1, <1>2, <1>14, <2>3, <3>1 DEF TypeOK
  <2> QED
    BY Zenon, <1>8, <1>11, <1>12, <1>14, <2>2, <2>3, <2>4, <2>5 DEF IInv
<1> QED
  BY Zenon, <1>3, <1>13, <1>14

\* handleClose() of a connection, with removeConnection().
LEMMA HandleClosePreserves ==
  ASSUME IInv, NEW i \in Conns, HandleClose(i)
  PROVE  IInv'
<1>1. /\ TypeOK /\ QueueTypeOK /\ StartInv /\ QueueInv /\ IterationInv
      /\ OwnerInv /\ DeadInv /\ NoSocketLeaks
      /\ timers \in Nat /\ due \in Nat /\ ran \in Nat /\ open \in Nat
      /\ connect \in BOOLEAN /\ retryDelayMs \in Delays
  BY Parts
<1>2. /\ pc = "handling" /\ i \in active /\ active' = active \ {i}
      /\ conns' = [conns EXCEPT ![i] = "closed"]
      /\ pendingFunctors' = Append(pendingFunctors, destroyed(i))
      /\ connect' = connect /\ state' = state /\ channel' = channel
      /\ retryDelayMs' = retryDelayMs /\ timers' = timers /\ open' = open
      /\ gaveUp' = gaveUp /\ retry' = retry /\ wanted' = wanted
      /\ client' = client /\ connectorRefs' = connectorRefs
      /\ closeCallback' = closeCallback /\ call' = call /\ called' = called
      /\ due' = due /\ functors' = functors /\ ran' = ran
  BY Zenon DEF HandleClose, Queue, destroyed, userVars
<1>3. \/ /\ closeCallback[i] = "client"
         /\ aborted' = (connection # i)
         /\ connection' = 0
         /\ pc' = IF retry /\ wanted THEN "restart" ELSE pc
      \/ /\ closeCallback[i] = "detail"
         /\ aborted' = aborted /\ connection' = connection /\ pc' = pc
  BY Zenon DEF HandleClose
<1>4. i # 0 /\ i \in Registered /\ channel = "null"
  <2>1. i # 0
    BY ConnsAssumption
  <2>2. active \subseteq Registered \cup {0} /\ (active \ {0} # {} => channel = "null")
    BY Zenon, <1>1 DEF IterationInv
  <2> QED
    BY <1>2, <2>1, <2>2
<1>5. /\ Asked = 0 /\ timers = 0 /\ due = 0 /\ Up = 1 /\ channel # "watched"
      /\ ~aborted
  BY Zenon, <1>1, <1>4, OnlyOne DEF StartInv
<1>6. Registered \ {i} = {}
  <2>1. Registered \in SUBSET Conns /\ Registered \ {i} \in SUBSET Conns
    BY Zenon DEF Registered
  <2>2. Cardinality(Registered \ {i}) = Cardinality(Registered) - 1
    BY Zenon, <1>4, <2>1, UpOf, FS_RemoveElement
  <2>3. Cardinality(Registered \ {i}) = 0
    BY <1>5, <2>2 DEF Up
  <2> QED
    BY Zenon, <2>1, <2>3, UpOf
<1>7. /\ conns \in [Conns -> {"none", "up", "shut", "closed"}]
      /\ conns' \in [Conns -> {"none", "up", "shut", "closed"}]
      /\ conns'[i] = "closed" /\ conns[i] \in {"up", "shut"}
      /\ \A j \in Conns : j # i => conns'[j] = conns[j]
  <2>1. conns \in [Conns -> {"none", "up", "shut", "closed"}]
    BY Zenon, <1>1, TypeParts
  <2>2. conns[i] \in {"up", "shut"}
    BY Zenon, <1>4 DEF Registered
  <2> QED
    BY <1>2, <2>1, <2>2
<1>8. Registered' = {} /\ active' = {}
  <2>1. Registered' = Registered \ {i}
    BY <1>7 DEF Registered
  <2>2. active \subseteq Registered \cup {0} /\ 0 \notin active
    BY Zenon, <1>1, <1>5 DEF IterationInv
  <2> QED
    BY <1>2, <1>6, <2>1, <2>2
<1>9. /\ \A j \in Conns : conns'[j] = "none" <=> conns[j] = "none"
      /\ \A j \in Conns : conns'[j] = "closed" <=> conns[j] = "closed" \/ j = i
      /\ conns[i] # "closed"
  BY <1>7
<1>10. /\ pendingFunctors' \in Seq(Functors)
       /\ \A g : Has(ToRun', g) <=> Has(ToRun, g) \/ g = destroyed(i)
       /\ Apart(ToRun')
  <2>1. destroyed(i) \in Functors
    BY Zenon, FunctorsApart
  <2>2. Apart(ToRun) /\ ~Has(ToRun, destroyed(i))
    BY Zenon, <1>1, <1>9 DEF QueueInv
  <2> QED
    BY Zenon, <1>1, <1>2, <2>1, <2>2, Queues
<1>11. /\ (StartQueued' <=> StartQueued) /\ (StopQueued' <=> StopQueued)
       /\ (ResetQueued' <=> ResetQueued)
  BY Zenon, <1>10, FunctorsApart DEF StartQueued, StopQueued, ResetQueued
<1>12. QueueInv'
  <2>1. ResetQueued' <=> channel' = "removed"
    BY Zenon, <1>1, <1>2, <1>11 DEF QueueInv
  <2>2. ASSUME NEW j \in Conns PROVE Has(ToRun', destroyed(j)) <=> conns'[j] = "closed"
    <3>1. Has(ToRun, destroyed(j)) <=> conns[j] = "closed"
      BY Zenon, <1>1 DEF QueueInv
    <3>2. destroyed(j) = destroyed(i) <=> j = i
      BY Zenon, FunctorsApart
    <3> QED
      BY Zenon, <1>9, <1>10, <3>1, <3>2
  <2> QED
    BY Zenon, <1>10, <2>1, <2>2 DEF QueueInv
<1>13. QueueTypeOK'
  BY Zenon, <1>1, <1>2, <1>10 DEF QueueTypeOK
<1>14. /\ ~aborted' /\ pc' \in {"restart", "handling"}
       /\ connection' \in {connection, 0}
       /\ client = "alive" => connection' = 0
       /\ client = "dead" => pc' = "handling"
  <2>1. /\ closeCallback[i] = "client" => connection = i /\ client # "dead"
        /\ client = "alive" => closeCallback[i] = "client"
    <3>1. "client" # "detail"
      OBVIOUS
    <3> QED
      BY Zenon, <1>1, <1>4, <3>1 DEF OwnerInv, DeadInv
  <2>2. CASE closeCallback[i] = "client"
    BY Zenon, <1>2, <1>3, <2>1, <2>2
  <2>3. CASE closeCallback[i] # "client"
    BY <1>2, <1>3, <1>5, <2>1, <2>3
  <2> QED
    BY Zenon, <2>2, <2>3
<1>15. Asked' = 0
  BY Zenon, <1>2, <1>5, <1>11, AskedOf
<1>16. StartInv'
  <2>1. Up' = 0 /\ One(channel = "watched")' = 0
    <3>1. Up' = 0
      BY Zenon, <1>8, UpNat
    <3> QED
      BY <1>2, <1>5, <3>1 DEF One
  <2>2. One(pc = "restart")' \in 0 .. 1
    BY DEF One
  <2>3. Doing' = 0 + 0 + 0 + 0 + 0 + One(pc = "restart")'
    BY Zenon, <1>2, <1>5, <1>15, <2>1 DEF Doing
  <2>4. \A k \in 0 .. 1 : 0 + 0 + 0 + 0 + 0 + k <= 1
    OBVIOUS
  <2>5. Doing' <= 1
    BY Zenon, <2>2, <2>3, <2>4
  <2>6. ~(Asked' > 0) /\ ~(timers' + due' > 0) /\ channel' = "null"
    BY <1>2, <1>4, <1>5, <1>15
  <2>7. channel' = "watched" <=> state' = "kConnecting"
    BY Zenon, <1>1, <1>2 DEF StartInv
  <2> QED
    BY Zenon, <1>14, <2>5, <2>6, <2>7 DEF StartInv
<1>17. IterationInv'
  <2>1. pc # "functors"
    BY <1>2
  <2> QED
    BY Zenon, <1>1, <1>2, <1>5, <1>8, <2>1, IterationIdle DEF IterationInv
<1>18. OwnerInv'
  BY Zenon, <1>2, <1>8, <1>14 DEF OwnerInv
<1>19. NoSocketLeaks'
  BY Zenon, <1>1, <1>2, <1>9, SocketFrame
<1>20. client \in {"alive", "dead"}
  BY Zenon, <1>1, TypeParts
<1>21. DeadInv'
  <2>1. CASE client = "alive"
    BY Zenon, <1>1, <1>2, <2>1, AliveFrame
  <2>2. CASE client = "dead"
    <3>1. pc' # "restart" /\ channel' # "watched" /\ ~(timers' + due' > 0)
      BY <1>2, <1>4, <1>5, <1>14, <2>2
    <3>2. Registered' \subseteq Registered
      BY <1>8
    <3> QED
      BY Zenon, <1>1, <1>2, <1>4, <1>11, <2>2, <3>1, <3>2, DeadFrame
  <2> QED
    BY <1>20, <2>1, <2>2
<1>22. TypeOK'
  <2>1. /\ connection' \in Conns \cup {0} /\ active' \subseteq Conns \cup {0}
        /\ pc' \in {"poll", "handling", "restart", "functors"}
        /\ aborted' \in BOOLEAN
    <3>1. connection \in Conns \cup {0}
      BY Zenon, <1>1, TypeParts
    <3>2. aborted' \in BOOLEAN
      BY Zenon, <1>1, <1>3 DEF TypeOK
    <3> QED
      BY <1>8, <1>14, <3>1, <3>2
  <2> QED
    BY Zenon, <1>1, <1>2, <1>7, <2>1 DEF TypeOK
<1> QED
  BY Zenon, <1>12, <1>13, <1>16, <1>17, <1>18, <1>19, <1>21, <1>22 DEF IInv

\* doPendingFunctors() swaps the queue for its batch.
LEMMA TakeFunctorsPreserves ==
  ASSUME IInv, TakeFunctors
  PROVE  IInv'
<1>1. /\ TypeOK /\ QueueTypeOK /\ StartInv /\ QueueInv /\ IterationInv
      /\ OwnerInv /\ DeadInv /\ NoSocketLeaks
      /\ timers \in Nat /\ due \in Nat /\ ran \in Nat /\ open \in Nat
      /\ connect \in BOOLEAN /\ retryDelayMs \in Delays
  BY Parts
<1>2. /\ pc = "handling" /\ pc' = "functors" /\ active = {} /\ due = 0
      /\ functors' = pendingFunctors /\ pendingFunctors' = <<>>
      /\ connect' = connect /\ state' = state /\ channel' = channel
      /\ retryDelayMs' = retryDelayMs /\ timers' = timers /\ open' = open
      /\ gaveUp' = gaveUp /\ aborted' = aborted
      /\ retry' = retry /\ wanted' = wanted /\ connection' = connection
      /\ client' = client /\ connectorRefs' = connectorRefs
      /\ closeCallback' = closeCallback /\ conns' = conns
      /\ call' = call /\ called' = called
      /\ active' = active /\ due' = due /\ ran' = ran
  BY Zenon DEF TakeFunctors, clientVars, userVars, attempt
<1>3. functors = <<>> /\ ran = 0 /\ pc' # "restart"
  <2>1. pc # "functors" /\ pc' # "restart"
    BY <1>2
  <2> QED
    BY Zenon, <1>1, <2>1 DEF IterationInv
<1>4. /\ pendingFunctors \in Seq(Functors) /\ Len(pendingFunctors) \in Nat
      /\ DOMAIN pendingFunctors = 1 .. Len(pendingFunctors)
  BY <1>1 DEF QueueTypeOK
<1>5. ToRun' = ToRun
  <2>1. Left = 0
    BY <1>3 DEF Left
  <2>2. ToRun = [k \in 1 .. Len(pendingFunctors) |-> pendingFunctors[k]]
    BY Zenon, <1>4, <2>1, ToRunIdle
  <2>3. ran' = 0
    BY Zenon, <1>2, <1>3
  <2>4. ToRun' = [k \in 1 .. Len(pendingFunctors) |-> pendingFunctors[k]]
    BY Zenon, <1>2, <1>4, <2>3, ToRunIdle
  <2> QED
    BY Zenon, <2>2, <2>4
<1>6. (StartQueued' <=> StartQueued) /\ (StopQueued' <=> StopQueued)
  BY Zenon, <1>5 DEF StartQueued, StopQueued
<1>7. Registered' = Registered
  BY Zenon, <1>2 DEF Registered
<1>8. QueueTypeOK'
  <2>1. <<>> \in Seq(Functors) /\ ran' <= Len(functors')
    BY <1>2, <1>3, <1>4
  <2> QED
    BY Zenon, <1>1, <1>2, <1>4, <2>1 DEF QueueTypeOK
<1>9. StartInv'
  <2>1. Asked' <= Asked
    BY Zenon, <1>2, <1>6, AskedLess
  <2> QED
    BY Zenon, <1>1, <1>2, <1>3, <1>7, <2>1, StartFrame
<1>10. QueueInv' /\ OwnerInv' /\ NoSocketLeaks'
  BY Zenon, <1>1, <1>2, <1>5, <1>7, QueueFrame, OwnerFrame, SocketFrame
<1>11. IterationInv'
  <2>1. ASSUME channel = "removed"
        PROVE  \E k \in ran' + 1 .. Len(functors') : functors'[k] = reset
    <3>1. \E k \in DOMAIN pendingFunctors : pendingFunctors[k] = reset
      <4>1. ran + 1 .. Len(functors) = {}
        BY <1>3
      <4>2. Has(ToRun, reset)
        BY Zenon, <1>1, <2>1 DEF QueueInv, ResetQueued
      <4> QED
        BY Zenon, <1>1, <4>1, <4>2, ToRunType
    <3>2. ran' + 1 .. Len(functors') = DOMAIN pendingFunctors
      BY <1>2, <1>3, <1>4
    <3> QED
      BY Zenon, <1>2, <3>1, <3>2
  <2>2. active' = {} /\ due' = 0
    BY Zenon, <1>2
  <2> QED
    BY Zenon, <1>2, <2>1, <2>2 DEF IterationInv
<1>12. client \in {"alive", "dead"}
  BY Zenon, <1>1, TypeParts
<1>13. DeadInv'
  <2>1. CASE client = "alive"
    BY Zenon, <1>1, <1>2, <2>1, AliveFrame
  <2>2. CASE client = "dead"
    BY Zenon, <1>1, <1>2, <1>3, <1>6, <1>7, <2>2 DEF DeadInv
  <2> QED
    BY <1>12, <2>1, <2>2
<1>14. TypeOK'
  <2>1. /\ ran' \in Nat /\ due' \in Nat /\ timers' \in Nat
        /\ pc' \in {"poll", "handling", "restart", "functors"}
        /\ active' \subseteq Conns \cup {0}
    BY <1>1, <1>2
  <2> QED
    BY Zenon, <1>1, <1>2, <2>1, TypeLoop
<1> QED
  BY Zenon, <1>8, <1>9, <1>10, <1>11, <1>13, <1>14 DEF IInv

\* The batch has been run.
LEMMA FunctorsDonePreserves ==
  ASSUME IInv, FunctorsDone
  PROVE  IInv'
<1>1. /\ TypeOK /\ QueueTypeOK /\ StartInv /\ QueueInv /\ IterationInv
      /\ OwnerInv /\ DeadInv /\ NoSocketLeaks
      /\ timers \in Nat /\ due \in Nat /\ ran \in Nat /\ open \in Nat
      /\ connect \in BOOLEAN /\ retryDelayMs \in Delays
  BY Parts
<1>2. /\ pc = "functors" /\ pc' = "poll" /\ ran = Len(functors)
      /\ functors' = <<>> /\ ran' = 0 /\ pendingFunctors' = pendingFunctors
      /\ connect' = connect /\ state' = state /\ channel' = channel
      /\ retryDelayMs' = retryDelayMs /\ timers' = timers /\ open' = open
      /\ gaveUp' = gaveUp /\ aborted' = aborted
      /\ retry' = retry /\ wanted' = wanted /\ connection' = connection
      /\ client' = client /\ connectorRefs' = connectorRefs
      /\ closeCallback' = closeCallback /\ conns' = conns
      /\ call' = call /\ called' = called
      /\ active' = active /\ due' = due
  BY Zenon DEF FunctorsDone, clientVars, userVars, attempt
<1>3. /\ active = {} /\ due = 0 /\ pc' # "restart"
      /\ channel # "removed" \/ Registered = {}
  <2>1. /\ pc \in {"poll", "functors"} /\ pc # "handling" /\ pc' # "restart"
        /\ ran + 1 .. Len(functors) = {}
    BY <1>1, <1>2
  <2> QED
    BY Zenon, <1>1, <2>1 DEF IterationInv
<1>4. pendingFunctors \in Seq(Functors) /\ <<>> \in Seq(Functors)
      /\ ran' <= Len(functors') /\ ran' \in Nat
  BY <1>1, <1>2 DEF QueueTypeOK
<1>5. QueueTypeOK'
  BY Zenon, <1>1, <1>2, <1>4 DEF QueueTypeOK
<1>6. ToRun' = ToRun
  <2>1. Left = 0 /\ Left' = 0 /\ Len(pendingFunctors) \in Nat
    BY <1>1, <1>2, <1>4 DEF Left
  <2>2. ToRun = [k \in 1 .. Len(pendingFunctors) |-> pendingFunctors[k]]
    BY Zenon, <2>1, ToRunIdle
  <2>3. ToRun' = [k \in 1 .. Len(pendingFunctors) |-> pendingFunctors[k]]
    BY Zenon, <1>2, <2>1, ToRunIdle
  <2> QED
    BY Zenon, <2>2, <2>3
<1>7. (StartQueued' <=> StartQueued) /\ (StopQueued' <=> StopQueued)
  BY Zenon, <1>6 DEF StartQueued, StopQueued
<1>8. Registered' = Registered
  BY Zenon, <1>2 DEF Registered
<1>9. StartInv'
  <2>1. Asked' <= Asked
    BY Zenon, <1>2, <1>7, AskedLess
  <2> QED
    BY Zenon, <1>1, <1>2, <1>3, <1>8, <2>1, StartFrame
<1>10. QueueInv' /\ OwnerInv' /\ NoSocketLeaks'
  BY Zenon, <1>1, <1>2, <1>6, <1>8, QueueFrame, OwnerFrame, SocketFrame
<1>11. IterationInv'
  BY Zenon, <1>2, <1>3, <1>8, IterationIdle
<1>12. client \in {"alive", "dead"}
  BY Zenon, <1>1, TypeParts
<1>13. DeadInv'
  <2>1. CASE client = "alive"
    BY Zenon, <1>1, <1>2, <2>1, AliveFrame
  <2>2. CASE client = "dead"
    BY Zenon, <1>1, <1>2, <1>3, <1>7, <1>8, <2>2 DEF DeadInv
  <2> QED
    BY <1>12, <2>1, <2>2
<1>14. TypeOK'
  <2>1. /\ ran' \in Nat /\ due' \in Nat /\ timers' \in Nat
        /\ pc' \in {"poll", "handling", "restart", "functors"}
        /\ active' \subseteq Conns \cup {0}
    BY <1>1, <1>2, <1>3
  <2> QED
    BY Zenon, <1>1, <1>2, <2>1, TypeLoop
<1> QED
  BY Zenon, <1>5, <1>9, <1>10, <1>11, <1>13, <1>14 DEF IInv

\* What running a functor other than resetChannel() leaves of an iteration.
LEMMA IterationNext ==
  ASSUME IterationInv, ran \in Nat, Len(functors) \in Nat, pc = "functors",
         ran' = ran + 1, UNCHANGED <<functors, pc, active, due, channel>>,
         Registered' = Registered, functors[ran + 1] # reset
  PROVE  IterationInv'
<1>1. \A k \in ran + 1 .. Len(functors) : k # ran + 1 => k \in ran' + 1 .. Len(functors)
  OBVIOUS
<1>2. pc # "handling"
  OBVIOUS
<1>3. ASSUME channel' = "removed", Registered' # {}
      PROVE  \E k \in ran' + 1 .. Len(functors') : functors'[k] = reset
  <2>1. PICK k \in ran + 1 .. Len(functors) : functors[k] = reset
    BY Zenon, <1>2, <1>3 DEF IterationInv
  <2>2. k # ran + 1
    BY Zenon, <2>1
  <2> QED
    BY Zenon, <1>1, <2>1, <2>2
<1> QED
  BY Zenon, <1>3 DEF IterationInv

\* stopInLoop(), queued by stop() in another thread.
LEMMA RunStopPreserves ==
  ASSUME IInv, IsNext("stopInLoop", 0), StopInLoop(connect), UNCHANGED conns
  PROVE  IInv'
<1>1. /\ TypeOK /\ QueueTypeOK /\ StartInv /\ QueueInv /\ IterationInv
      /\ OwnerInv /\ DeadInv /\ NoSocketLeaks
      /\ timers \in Nat /\ due \in Nat /\ ran \in Nat /\ open \in Nat
      /\ connect \in BOOLEAN /\ retryDelayMs \in Delays
  BY Parts
<1>2. /\ pc = "functors" /\ ran < Len(functors) /\ functors[ran + 1] = stop
      /\ ran' = ran + 1 /\ connect' = connect /\ functors' = functors
      /\ retry' = retry /\ wanted' = wanted /\ connection' = connection
      /\ client' = client /\ connectorRefs' = connectorRefs
      /\ closeCallback' = closeCallback /\ conns' = conns
      /\ call' = call /\ called' = called /\ pc' = pc /\ active' = active
      /\ due' = due
  BY Zenon DEF IsNext, clientVars, userVars, stop
<1>3. Len(functors) \in Nat /\ ran' \in Nat /\ ran' <= Len(functors)
  <2>1. Len(functors) \in Nat
    BY Zenon, <1>1, ToRunType
  <2> QED
    BY <1>1, <1>2, <2>1
<1>4. Apart(ToRun) /\ active = {} /\ due = 0 /\ pc' # "restart" /\ pc' # "handling"
  <2>1. pc \in {"poll", "functors"} /\ pc # "restart" /\ pc # "handling"
    BY <1>2
  <2> QED
    BY Zenon, <1>1, <1>2, <2>1 DEF QueueInv, IterationInv
<1>5. Registered' = Registered
  BY Zenon, <1>2 DEF Registered
<1>6. CASE state = "kConnecting"
  <2>1. channel = "watched"
    BY Zenon, <1>1, <1>6 DEF StartInv
  <2>2. StopEffect(connect)
    <3>1. /\ Retry(connect, retryDelayMs) /\ RemoveAndResetChannel /\ open' = open - 1
          /\ gaveUp' = gaveUp /\ aborted' = aborted
      BY Zenon, <1>6 DEF StopInLoop
    <3> QED
      BY Zenon, <1>1, <3>1, StopHasEffect
  <2>3. /\ channel' = "removed" /\ state' = "kDisconnected"
        /\ pendingFunctors' = Append(pendingFunctors, reset)
        /\ retryDelayMs' \in Delays /\ gaveUp' = gaveUp /\ aborted' = aborted
    BY Zenon, <2>2 DEF StopEffect
  <2>4. ~Has(ToRun, reset)
    <3>1. channel # "removed"
      BY <2>1
    <3> QED
      BY Zenon, <1>1, <3>1 DEF QueueInv, ResetQueued
  <2>5. /\ pendingFunctors' \in Seq(Functors)
        /\ \A g : g # stop => (Has(ToRun', g) <=> Has(ToRun, g) \/ g = reset)
        /\ Apart(ToRun') /\ Has(ToRun, stop)
    BY Zenon, <1>1, <1>2, <1>4, <2>3, <2>4, RunsAndQueues
  <2>6. (StartQueued' <=> StartQueued) /\ ResetQueued' /\ StopQueued
    BY Zenon, <2>5, FunctorsApart DEF StartQueued, ResetQueued, StopQueued
  <2>7. /\ Asked = 0 /\ timers = 0 /\ Registered = {}
    BY Zenon, <1>1, <2>1, OnlyOne
  <2>8. Asked' = 0
    BY Zenon, <1>2, <2>6, <2>7, AskedOf
  <2>9. /\ StartInv' /\ NoSocketLeaks' /\ timers' \in Nat /\ open' \in Nat
    BY Zenon, <1>1, <1>2, <1>5, <2>1, <2>2, <2>8, EndsAttempt
  <2>10. QueueInv'
    <3>1. ResetQueued' <=> channel' = "removed"
      BY Zenon, <2>3, <2>6
    <3>2. \A i \in Conns : Has(ToRun', destroyed(i)) <=> Has(ToRun, destroyed(i))
      BY Zenon, <2>5, FunctorsApart
    <3>3. \A i \in Conns : Has(ToRun', destroyed(i)) <=> conns'[i] = "closed"
      BY Zenon, <1>1, <1>2, <3>2 DEF QueueInv
    <3> QED
      BY Zenon, <2>5, <3>1, <3>3 DEF QueueInv
  <2>11. IterationInv'
    BY Zenon, <1>2, <1>4, <1>5, <2>7, IterationIdle
  <2>12. QueueTypeOK'
    BY Zenon, <1>1, <1>2, <1>3, <2>5 DEF QueueTypeOK
  <2>13. client = "alive"
    BY Zenon, <1>1, <2>6 DEF DeadInv, TypeOK
  <2>14. OwnerInv' /\ DeadInv'
    BY Zenon, <1>1, <1>2, <1>5, <2>13, OwnerFrame, AliveFrame
  <2>15. TypeOK'
    BY Zenon, <1>1, <1>2, <1>3, <2>3, <2>9 DEF TypeOK, Delays
  <2> QED
    BY Zenon, <2>9, <2>10, <2>11, <2>12, <2>14, <2>15 DEF IInv
<1>7. CASE state # "kConnecting"
  <2>1. /\ state' = state /\ channel' = channel /\ retryDelayMs' = retryDelayMs
        /\ timers' = timers /\ open' = open /\ gaveUp' = gaveUp
        /\ aborted' = aborted /\ pendingFunctors' = pendingFunctors
    BY Zenon, <1>7 DEF StopInLoop, attempt
  <2>2. /\ Has(ToRun, stop) /\ Apart(ToRun')
        /\ \A g : g # stop => (Has(ToRun', g) <=> Has(ToRun, g))
    BY Zenon, <1>1, <1>2, <1>4, <2>1, Runs
  <2>3. (StartQueued' <=> StartQueued) /\ (ResetQueued' <=> ResetQueued) /\ StopQueued
    BY Zenon, <2>2, FunctorsApart DEF StartQueued, ResetQueued, StopQueued
  <2>4. Asked' <= Asked
    BY Zenon, <1>2, <2>3, AskedLess
  <2>5. StartInv'
    BY Zenon, <1>1, <1>2, <1>4, <1>5, <2>1, <2>4, StartFrame
  <2>6. QueueInv'
    <3>1. \A i \in Conns : Has(ToRun', destroyed(i)) <=> Has(ToRun, destroyed(i))
      BY Zenon, <2>2, FunctorsApart
    <3> QED
      BY Zenon, <1>1, <1>2, <2>1, <2>2, <2>3, <3>1 DEF QueueInv
  <2>7. IterationInv'
    <3>1. functors[ran + 1] # reset
      BY Zenon, <1>2, FunctorsApart
    <3> QED
      BY Zenon, <1>1, <1>2, <1>3, <1>5, <2>1, <3>1, IterationNext
  <2>8. QueueTypeOK'
    BY Zenon, <1>1, <1>2, <1>3, <2>1 DEF QueueTypeOK
  <2>9. client = "alive"
    BY Zenon, <1>1, <2>3 DEF DeadInv, TypeOK
  <2>10. OwnerInv' /\ DeadInv' /\ NoSocketLeaks'
    BY Zenon, <1>1, <1>2, <1>5, <2>1, <2>9, OwnerFrame, AliveFrame, SocketFrame
  <2>11. TypeOK'
    <3>1. /\ due' \in Nat /\ timers' \in Nat
          /\ pc' \in {"poll", "handling", "restart", "functors"}
          /\ active' \subseteq Conns \cup {0}
      BY <1>1, <1>2, <1>4, <2>1
    <3> QED
      BY Zenon, <1>1, <1>2, <1>3, <2>1, <3>1, TypeLoop
  <2> QED
    BY Zenon, <2>5, <2>6, <2>7, <2>8, <2>10, <2>11 DEF IInv
<1> QED
  BY Zenon, <1>6, <1>7

\* resetChannel().
LEMMA RunResetPreserves ==
  ASSUME IInv, IsNext("resetChannel", 0), ResetChannel,
         UNCHANGED <<pendingFunctors, conns>>
  PROVE  IInv'
<1>1. /\ TypeOK /\ QueueTypeOK /\ StartInv /\ QueueInv /\ IterationInv
      /\ OwnerInv /\ DeadInv /\ NoSocketLeaks
      /\ timers \in Nat /\ due \in Nat /\ ran \in Nat /\ open \in Nat
      /\ connect \in BOOLEAN /\ retryDelayMs \in Delays
  BY Parts
<1>2. /\ pc = "functors" /\ ran < Len(functors) /\ functors[ran + 1] = reset
      /\ ran' = ran + 1 /\ connect' = connect /\ functors' = functors
      /\ channel' = "null" /\ state' = state /\ retryDelayMs' = retryDelayMs
      /\ timers' = timers /\ open' = open /\ gaveUp' = gaveUp /\ aborted' = aborted
      /\ pendingFunctors' = pendingFunctors
      /\ retry' = retry /\ wanted' = wanted /\ connection' = connection
      /\ client' = client /\ connectorRefs' = connectorRefs
      /\ closeCallback' = closeCallback /\ conns' = conns
      /\ call' = call /\ called' = called /\ pc' = pc /\ active' = active
      /\ due' = due
  BY Zenon DEF IsNext, ResetChannel, clientVars, userVars, reset
<1>3. Len(functors) \in Nat /\ ran' \in Nat /\ ran' <= Len(functors)
  <2>1. Len(functors) \in Nat
    BY Zenon, <1>1, ToRunType
  <2> QED
    BY <1>1, <1>2, <2>1
<1>4. Apart(ToRun) /\ active = {} /\ due = 0 /\ pc' # "restart"
  <2>1. pc \in {"poll", "functors"} /\ pc # "restart"
    BY <1>2
  <2> QED
    BY Zenon, <1>1, <1>2, <2>1 DEF QueueInv, IterationInv
<1>5. /\ Has(ToRun, reset) /\ Apart(ToRun') /\ ~Has(ToRun', reset)
      /\ \A g : g # reset => (Has(ToRun', g) <=> Has(ToRun, g))
  <2>1. reset # stop
    BY Zenon, FunctorsApart
  <2> QED
    BY Zenon, <1>1, <1>2, <1>4, <2>1, Runs
<1>6. /\ (StartQueued' <=> StartQueued) /\ (StopQueued' <=> StopQueued)
      /\ ResetQueued /\ ~ResetQueued'
  BY Zenon, <1>5, FunctorsApart DEF StartQueued, StopQueued, ResetQueued
<1>7. /\ channel = "removed" /\ channel # "watched" /\ channel' # "watched"
      /\ channel' # "removed"
  <2>1. channel = "removed"
    BY Zenon, <1>1, <1>6 DEF QueueInv
  <2> QED
    BY <1>2, <2>1
<1>8. Registered' = Registered
  BY Zenon, <1>2 DEF Registered
<1>9. One(channel = "watched")' = 0 /\ One(channel = "watched") = 0
  BY Zenon, <1>7 DEF One
<1>10. StartInv'
  <2>1. Asked' <= Asked
    BY Zenon, <1>2, <1>6, AskedLess
  <2>2. Up' = Up /\ One(pc = "restart")' = One(pc = "restart")
    BY Zenon, <1>2, <1>8 DEF Up, One
  <2>3. One(pc = "restart") \in Nat
    BY DEF One
  <2>4. Doing' <= Doing /\ Doing \in Nat /\ Doing' \in Nat
    <3>1. /\ Doing' = Asked' + timers + due + 0 + Up + One(pc = "restart")
          /\ Doing = Asked + timers + due + 0 + Up + One(pc = "restart")
      BY Zenon, <1>2, <1>9, <2>2 DEF Doing
    <3>2. timers \in Nat /\ due \in Nat /\ Asked \in Nat /\ Asked' \in Nat /\ Up \in Nat
      BY Zenon, <1>1, AskedNat, UpNat
    <3> QED
      BY <2>1, <2>3, <3>1, <3>2
  <2>5. Doing' <= 1 /\ (Asked' > 0 => Asked > 0)
    <3>1. Doing <= 1
      BY Zenon, <1>1 DEF StartInv
    <3>2. Doing' <= 1
      BY <2>4, <3>1
    <3>3. Asked' > 0 => Asked > 0
      BY <2>1, AskedNat
    <3> QED
      BY Zenon, <3>2, <3>3
  <2> QED
    BY Zenon, <1>1, <1>2, <1>7, <2>5 DEF StartInv
<1>11. QueueInv'
  <2>1. \A i \in Conns : Has(ToRun', destroyed(i)) <=> Has(ToRun, destroyed(i))
    BY Zenon, <1>5, FunctorsApart
  <2>2. \A i \in Conns : Has(ToRun', destroyed(i)) <=> conns'[i] = "closed"
    BY Zenon, <1>1, <1>2, <2>1 DEF QueueInv
  <2> QED
    BY Zenon, <1>5, <1>6, <1>7, <2>2 DEF QueueInv
<1>12. IterationInv'
  BY Zenon, <1>2, <1>4, <1>7, IterationIdle
<1>13. NoSocketLeaks'
  BY Zenon, <1>1, <1>2, <1>9 DEF NoSocketLeaks
<1>14. OwnerInv'
  BY Zenon, <1>1, <1>2, <1>8, OwnerFrame
<1>15. client \in {"alive", "dead"}
  BY Zenon, <1>1, TypeParts
<1>16. DeadInv'
  <2>1. CASE client = "alive"
    BY Zenon, <1>1, <1>2, <2>1, AliveFrame
  <2>2. CASE client = "dead"
    BY Zenon, <1>1, <1>2, <1>4, <1>6, <1>7, <1>8, <2>2 DEF DeadInv
  <2> QED
    BY <1>15, <2>1, <2>2
<1>17. QueueTypeOK'
  BY Zenon, <1>1, <1>2, <1>3 DEF QueueTypeOK
<1>18. TypeOK'
  <2>1. channel' \in {"null", "watched", "removed"}
    BY Zenon, <1>2
  <2> QED
    BY Zenon, <1>1, <1>2, <1>3, <2>1 DEF TypeOK
<1> QED
  BY Zenon, <1>10, <1>11, <1>12, <1>13, <1>14, <1>16, <1>17, <1>18 DEF IInv

\* connectDestroyed(), after which the connection is deleted.
LEMMA RunDestroyedPreserves ==
  ASSUME IInv, NEW i \in Conns, IsNext("connectDestroyed", i),
         conns' = [conns EXCEPT ![i] = "none"], open' = open - 1,
         UNCHANGED <<state, channel, retryDelayMs, timers, gaveUp, aborted,
                     pendingFunctors>>
  PROVE  IInv'
<1>1. /\ TypeOK /\ QueueTypeOK /\ StartInv /\ QueueInv /\ IterationInv
      /\ OwnerInv /\ DeadInv /\ NoSocketLeaks
      /\ timers \in Nat /\ due \in Nat /\ ran \in Nat /\ open \in Nat
      /\ connect \in BOOLEAN /\ retryDelayMs \in Delays
  BY Parts
<1>2. /\ pc = "functors" /\ ran < Len(functors) /\ functors[ran + 1] = destroyed(i)
      /\ ran' = ran + 1 /\ connect' = connect /\ functors' = functors
      /\ channel' = channel /\ state' = state /\ retryDelayMs' = retryDelayMs
      /\ timers' = timers /\ gaveUp' = gaveUp /\ aborted' = aborted
      /\ pendingFunctors' = pendingFunctors
      /\ retry' = retry /\ wanted' = wanted /\ connection' = connection
      /\ client' = client /\ connectorRefs' = connectorRefs
      /\ closeCallback' = closeCallback
      /\ call' = call /\ called' = called /\ pc' = pc /\ active' = active
      /\ due' = due
  BY Zenon DEF IsNext, clientVars, userVars, destroyed
<1>3. Len(functors) \in Nat /\ ran' \in Nat /\ ran' <= Len(functors)
  <2>1. Len(functors) \in Nat
    BY Zenon, <1>1, ToRunType
  <2> QED
    BY <1>1, <1>2, <2>1
<1>4. Apart(ToRun) /\ active = {} /\ due = 0 /\ pc' # "restart"
  <2>1. pc \in {"poll", "functors"} /\ pc # "restart"
    BY <1>2
  <2> QED
    BY Zenon, <1>1, <1>2, <2>1 DEF QueueInv, IterationInv
<1>5. /\ Has(ToRun, destroyed(i)) /\ Apart(ToRun') /\ ~Has(ToRun', destroyed(i))
      /\ \A g : g # destroyed(i) => (Has(ToRun', g) <=> Has(ToRun, g))
  <2>1. destroyed(i) # stop
    BY Zenon, FunctorsApart
  <2> QED
    BY Zenon, <1>1, <1>2, <1>4, <2>1, Runs
<1>6. /\ (StartQueued' <=> StartQueued) /\ (StopQueued' <=> StopQueued)
      /\ (ResetQueued' <=> ResetQueued)
  BY Zenon, <1>5, FunctorsApart DEF StartQueued, StopQueued, ResetQueued
<1>7. /\ conns \in [Conns -> {"none", "up", "shut", "closed"}]
      /\ conns' \in [Conns -> {"none", "up", "shut", "closed"}]
      /\ conns[i] = "closed" /\ conns'[i] = "none"
      /\ \A j \in Conns : j # i => conns'[j] = conns[j]
  <2>1. conns \in [Conns -> {"none", "up", "shut", "closed"}]
    BY Zenon, <1>1, TypeParts
  <2>2. conns[i] = "closed"
    BY Zenon, <1>1, <1>5 DEF QueueInv
  <2> QED
    BY <2>1, <2>2
<1>8. Registered' = Registered
  BY <1>7 DEF Registered
<1>9. StartInv'
  <2>1. Asked' <= Asked
    BY Zenon, <1>2, <1>6, AskedLess
  <2> QED
    BY Zenon, <1>1, <1>2, <1>4, <1>8, <2>1, StartFrame
<1>10. QueueInv'
  <2>1. ASSUME NEW j \in Conns PROVE Has(ToRun', destroyed(j)) <=> conns'[j] = "closed"
    <3>1. CASE j = i
      <4>1. conns'[j] # "closed"
        BY <1>7, <3>1
      <4> QED
        BY Zenon, <1>5, <3>1, <4>1
    <3>2. CASE j # i
      <4>1. destroyed(j) # destroyed(i)
        BY Zenon, <3>2, FunctorsApart
      <4> QED
        BY Zenon, <1>1, <1>5, <1>7, <3>2, <4>1 DEF QueueInv
    <3> QED
      BY Zenon, <3>1, <3>2
  <2>2. ResetQueued' <=> channel' = "removed"
    BY Zenon, <1>1, <1>2, <1>6 DEF QueueInv
  <2> QED
    BY Zenon, <1>5, <2>1, <2>2 DEF QueueInv
<1>11. IterationInv'
  <2>1. functors[ran + 1] # reset
    BY Zenon, <1>2, FunctorsApart
  <2> QED
    BY Zenon, <1>1, <1>2, <1>3, <1>8, <2>1, IterationNext
<1>12. NoSocketLeaks' /\ open' \in Nat
  <2> DEFINE n == Cardinality({j \in Conns : conns[j] # "none"})
             m == Cardinality({j \in Conns : conns'[j] # "none"})
  <2>1. n \in Nat /\ m = n - 1
    <3>1. conns[i] # "none"
      BY <1>7
    <3> QED
      BY Zenon, <1>7, <3>1, ConnsCount
  <2>2. m \in Nat
    <3>1. {j \in Conns : conns'[j] # "none"} \in SUBSET Conns
      OBVIOUS
    <3> QED
      BY Zenon, <3>1, UpOf
  <2>3. open = One(channel = "watched") + n
    BY Zenon, <1>1 DEF NoSocketLeaks
  <2>4. One(channel = "watched") \in Nat
    BY DEF One
  <2> HIDE DEF n, m
  <2>5. open' = One(channel = "watched") + m /\ open' \in Nat
    BY <2>1, <2>2, <2>3, <2>4
  <2>6. One(channel = "watched")' = One(channel = "watched")
    BY Zenon, <1>2 DEF One
  <2> QED
    BY Zenon, <2>5, <2>6 DEF NoSocketLeaks, m
<1>13. OwnerInv'
  BY Zenon, <1>1, <1>2, <1>8, OwnerFrame
<1>14. client \in {"alive", "dead"}
  BY Zenon, <1>1, TypeParts
<1>15. DeadInv'
  <2>1. CASE client = "alive"
    BY Zenon, <1>1, <1>2, <2>1, AliveFrame
  <2>2. CASE client = "dead"
    BY Zenon, <1>1, <1>2, <1>4, <1>6, <1>8, <2>2 DEF DeadInv
  <2> QED
    BY <1>14, <2>1, <2>2
<1>16. QueueTypeOK'
  BY Zenon, <1>1, <1>2, <1>3 DEF QueueTypeOK
<1>17. TypeOK'
  BY <1>1, <1>2, <1>3, <1>7, <1>12 DEF TypeOK
<1> QED
  BY Zenon, <1>9, <1>10, <1>11, <1>12, <1>13, <1>15, <1>16, <1>17 DEF IInv

LEMMA RunFunctorPreserves ==
  ASSUME IInv, RunFunctor
  PROVE  IInv'
  BY Zenon, RunStartPreserves, RunStopPreserves, RunResetPreserves,
     RunDestroyedPreserves DEF RunFunctor

-----------------------------------------------------------------------------
(***************************************************************************)
(* The invariant holds, and with it the properties.                        *)
(***************************************************************************)

LEMMA InitIInv == Init => IInv
<1> SUFFICES ASSUME Init PROVE IInv
  OBVIOUS
<1>1. /\ connect = FALSE /\ state = "kDisconnected" /\ channel = "null"
      /\ retryDelayMs = kInitRetryDelayMs /\ timers = 0 /\ open = 0
      /\ gaveUp = FALSE /\ aborted = FALSE /\ pendingFunctors = <<>>
      /\ retry = FALSE /\ wanted = TRUE /\ connection = 0 /\ client = "alive"
      /\ connectorRefs = TRUE /\ conns = [i \in Conns |-> "none"]
      /\ closeCallback = [i \in Conns |-> "client"] /\ call = <<"none", 0>>
      /\ called = {} /\ pc = "poll" /\ active = {} /\ due = 0
      /\ functors = <<>> /\ ran = 0
  BY Zenon DEF Init, ConnectorInit
<1>2. Registered = {} /\ \A i \in Conns : conns[i] = "none"
  BY <1>1 DEF Registered
<1>3. TypeOK
  <2>1. retryDelayMs \in kInitRetryDelayMs .. kMaxRetryDelayMs
    BY <1>1, DelayAssumption
  <2>2. /\ conns \in [Conns -> {"none", "up", "shut", "closed"}]
        /\ closeCallback \in [Conns -> {"client", "detail"}]
        /\ timers \in Nat /\ open \in Nat /\ due \in Nat /\ ran \in Nat
    BY <1>1
  <2>3. connection \in Conns \cup {0} /\ active \subseteq Conns \cup {0}
    BY Zenon, <1>1
  <2> QED
    BY Zenon, <1>1, <2>1, <2>2, <2>3 DEF TypeOK
<1>4. QueueTypeOK
  BY <1>1 DEF QueueTypeOK
<1>5. DOMAIN ToRun = {} /\ \A g : ~Has(ToRun, g)
  <2>1. DOMAIN ToRun = 1 .. Left + Len(pendingFunctors)
    BY Zenon DEF ToRun
  <2>2. DOMAIN ToRun = {}
    BY <1>1, <2>1 DEF Left
  <2> QED
    BY Zenon, <2>2 DEF Has
<1>6. StartInv
  <2>1. One("connect" \notin called) = 1 /\ One(call[1] = "connect") = 0
    BY <1>1 DEF One
  <2>2. One(StartQueued) = 0
    BY Zenon, <1>5 DEF One, StartQueued
  <2>3. Asked = 1 /\ Up = 0
    <3>1. Asked = 1 + 0 + 0
      BY Zenon, <2>1, <2>2 DEF Asked
    <3> QED
      BY <1>2, <3>1, UpNat
  <2>4. One(channel = "watched") = 0 /\ One(pc = "restart") = 0
    BY <1>1 DEF One
  <2>5. Doing = 1 + 0 + 0 + 0 + 0 + 0
    BY Zenon, <1>1, <2>3, <2>4 DEF Doing
  <2> QED
    BY <1>1, <2>5 DEF StartInv
<1>7. QueueInv
  <2>1. Apart(ToRun)
    BY <1>5 DEF Apart
  <2>2. channel # "removed" /\ \A i \in Conns : conns[i] # "closed"
    BY <1>1, <1>2
  <2> QED
    BY Zenon, <1>5, <2>1, <2>2 DEF QueueInv, ResetQueued
<1>8. IterationInv /\ OwnerInv /\ DeadInv
  <2>1. \A i \in Registered : FALSE
    BY Zenon, <1>2
  <2> QED
    BY <1>1, <1>2, <2>1 DEF IterationInv, OwnerInv, DeadInv
<1>9. NoSocketLeaks
  <2>1. {i \in Conns : conns[i] # "none"} = {}
    BY <1>2
  <2>2. Cardinality({i \in Conns : conns[i] # "none"}) = 0
    BY Zenon, <2>1, FS_EmptySet
  <2>3. One(channel = "watched") = 0
    BY <1>1 DEF One
  <2> QED
    BY <1>1, <2>2, <2>3 DEF NoSocketLeaks
<1> QED
  BY Zenon, <1>3, <1>4, <1>6, <1>7, <1>8, <1>9 DEF IInv

LEMMA NextIInv == IInv /\ [Next]_vars => IInv'
<1> SUFFICES ASSUME IInv, [Next]_vars PROVE IInv'
  BY Zenon
<1>1. CASE UserStep
  BY Zenon, <1>1, ConnectInLoopPreserves, StopInCallbackPreserves,
     DisconnectInLoopPreserves, EnableRetryPreserves, DestroyConnectedPreserves,
     DestroyUnconnectedPreserves DEF UserStep
<1>2. CASE \E name \in {"connect", "stop", "disconnect"} : CallFrom(name)
  BY Zenon, <1>2, CallFromPreserves
<1>3. CASE CallStep
  BY Zenon, <1>3, CallAssignsPreserves, CallQueuesPreserves, CallShutsDownPreserves
     DEF CallStep
<1>4. CASE LoopStep
  BY Zenon, <1>4, FireTimerPreserves, HandleConnectedPreserves, HandleFailedPreserves,
     HandleClosePreserves, RestartConnectorPreserves, TakeFunctorsPreserves,
     RunFunctorPreserves, FunctorsDonePreserves DEF LoopStep
<1>5. CASE Poll \/ RemoveConnector
  BY Zenon, <1>5, PollPreserves, RemoveConnectorPreserves
<1>6. CASE UNCHANGED vars
  <2>1. /\ TypeOK /\ QueueTypeOK /\ OwnerInv /\ DeadInv /\ connect \in BOOLEAN
    BY Parts
  <2>2. /\ connect' = connect /\ retry' = retry /\ wanted' = wanted
        /\ connection' = connection /\ client' = client
        /\ connectorRefs' = connectorRefs /\ closeCallback' = closeCallback
        /\ conns' = conns /\ call' = call /\ called' = called
    BY Zenon, <1>6 DEF vars, clientVars, userVars
  <2>3. /\ state' = state /\ channel' = channel /\ retryDelayMs' = retryDelayMs
        /\ timers' = timers /\ open' = open /\ gaveUp' = gaveUp
        /\ aborted' = aborted /\ pendingFunctors' = pendingFunctors
        /\ pc' = pc /\ active' = active /\ due' = due
        /\ functors' = functors /\ ran' = ran
    BY Zenon, <1>6 DEF vars, loopVars, attempt
  <2>4. Registered' = Registered
    BY Zenon, <2>2 DEF Registered
  <2>5. Asked' <= Asked
    BY Zenon, <2>2, <2>3, AskedQuiet
  <2>6. TypeOK'
    BY Zenon, <2>1, <2>2, <2>3, TypeParts, TypeQuiet
  <2>7. QueueTypeOK' /\ OwnerInv'
    BY Zenon, <2>1, <2>2, <2>3, <2>4, QueueTypeFrame, OwnerFrame
  <2>8. DeadInv'
    <3>1. StartQueued' = StartQueued /\ StopQueued' = StopQueued
      BY Zenon, <2>3, ToRunFrame
    <3> QED
      BY Zenon, <2>1, <2>2, <2>3, <2>4, <3>1 DEF DeadInv
  <2> QED
    BY Zenon, <2>2, <2>3, <2>4, <2>5, <2>6, <2>7, <2>8, QuietPreserves
<1> QED
  BY Zenon, <1>1, <1>2, <1>3, <1>4, <1>5, <1>6 DEF Next

LEMMA IInvImplies == IInv => OneAttemptOneSocket /\ NothingCallsTheDead
<1> SUFFICES ASSUME IInv PROVE OneAttemptOneSocket /\ NothingCallsTheDead
  BY Zenon
<1>1. /\ TypeOK /\ QueueTypeOK /\ StartInv /\ QueueInv /\ IterationInv
      /\ OwnerInv /\ DeadInv /\ NoSocketLeaks
      /\ timers \in Nat /\ due \in Nat /\ ran \in Nat /\ open \in Nat
      /\ connect \in BOOLEAN /\ retryDelayMs \in Delays
  BY Parts
<1>2. OneAttempt
  <2>1. timers + due + One(channel = "watched") + Cardinality(Registered) <= 1
    <3>1. Asked + timers + due + One(channel = "watched") + Up + One(pc = "restart") <= 1
      BY Zenon, <1>1 DEF StartInv, Doing
    <3>2. One(channel = "watched") \in Nat /\ One(pc = "restart") \in Nat
      BY DEF One
    <3>3. Asked \in Nat /\ Up \in Nat /\ timers \in Nat /\ due \in Nat
      BY Zenon, <1>1, AskedNat, UpNat
    <3>4. timers + due + One(channel = "watched") + Up <= 1
      BY <3>1, <3>2, <3>3
    <3> QED
      BY Zenon, <3>4 DEF Up
  <2> QED
    BY Zenon, <1>1, <2>1 DEF OneAttempt, StartInv
<1>3. DeadIsNotCalled
  BY Zenon, <1>1 DEF DeadIsNotCalled, DeadInv
<1>4. ConnectorOutlivesUse
  <2>1. SUFFICES ASSUME ~connectorRefs PROVE channel = "null" /\ ~ConnectorQueued
    BY Zenon DEF ConnectorOutlivesUse
  <2>2. channel = "null" /\ ~StartQueued /\ ~StopQueued
    BY Zenon, <1>1, <2>1 DEF DeadInv
  <2>3. ~ResetQueued
    <3>1. channel # "removed"
      BY <2>2
    <3> QED
      BY Zenon, <1>1, <3>1 DEF QueueInv
  <2> QED
    BY Zenon, <1>1, <2>2, <2>3, NotQueued
<1> QED
  BY Zenon, <1>1, <1>2, <1>3, <1>4 DEF OneAttemptOneSocket, NothingCallsTheDead

\* startInLoop(), retry(), stopInLoop() and restart() of Connector make one
\* attempt at a time, each with one socket, in every reachable state: however
\* connect(), stop() and disconnect(), each called once, in the loop or in another
\* thread, interleave with timers, errors and connections that close.
THEOREM OneAttemptCorrect == Spec => []OneAttemptOneSocket
<1>1. IInv => OneAttemptOneSocket
  BY Zenon, IInvImplies
<1> QED
  BY <1>1, InitIInv, NextIInv, PTL DEF Spec

\* After ~TcpClient() no timer, channel, functor or connection calls the client,
\* or the connector once it is gone, in any reachable state.
THEOREM DeadClientCorrect == Spec => []NothingCallsTheDead
<1>1. IInv => NothingCallsTheDead
  BY Zenon, IInvImplies
<1> QED
  BY <1>1, InitIInv, NextIInv, PTL DEF Spec
=============================================================================
