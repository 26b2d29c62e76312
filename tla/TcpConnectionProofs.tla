------------------------ MODULE TcpConnectionProofs -------------------------
(***************************************************************************)
(* ConnectionInv is an inductive invariant of TcpConnection, and           *)
(* TcpConnection implements ByteStream, for any threads, messages, socket  *)
(* buffer and high water mark.                                             *)
(***************************************************************************)
EXTENDS TcpConnection, SequenceTheorems, TLAPS

\* A sequence is its first n elements and the others.
LEMMA SplitAt ==
  ASSUME NEW S, NEW w \in Seq(S), NEW m \in Seq(S), NEW n \in 0 .. Len(m)
  PROVE  /\ SubSeq(m, 1, n) \in Seq(S)
         /\ SubSeq(m, n + 1, Len(m)) \in Seq(S)
         /\ Len(SubSeq(m, n + 1, Len(m))) = Len(m) - n
         /\ (w \o SubSeq(m, 1, n)) \o SubSeq(m, n + 1, Len(m)) = w \o m
         /\ w \o SubSeq(m, 1, n) \in Seq(S)
<1> DEFINE p == SubSeq(m, 1, n)
           r == SubSeq(m, n + 1, Len(m))
<1>1. p \in Seq(S)
  OBVIOUS
<1>2. r \in Seq(S) /\ Len(r) = Len(m) - n
  OBVIOUS
<1>3. p \o r = m
  <2>1. 1 \in 1 .. Len(m) + 1 /\ n \in 1 - 1 .. Len(m) /\ Len(m) \in n .. Len(m)
    OBVIOUS
  <2>2. p \o r = SubSeq(m, 1, Len(m))
    BY Zenon, <2>1, ConcatAdjacentSubSeq
  <2> QED
    BY Zenon, <2>2, SubSeqFull
<1> HIDE DEF p, r
<1>4. (w \o p) \o r = w \o (p \o r) /\ w \o p \in Seq(S)
  BY SMTT(30), <1>1, <1>2
<1> QED
  BY Zenon, <1>1, <1>2, <1>3, <1>4 DEF p, r

\* Concatenation.
LEMMA ConcatOf ==
  ASSUME NEW S, NEW a \in Seq(S), NEW b \in Seq(S), NEW c \in Seq(S)
  PROVE  /\ a \o b \in Seq(S)
         /\ Len(a \o b) = Len(a) + Len(b)
         /\ (a \o b) \o c = a \o (b \o c)
         /\ a \o <<>> = a
         /\ (a \o b = <<>>) => (a = <<>> /\ b = <<>>)
         /\ Len(a) \in Nat
         /\ Len(a) = 0 <=> a = <<>>
  OBVIOUS

\* What is written, what is buffered and a message that follows.
LEMMA OutputThen ==
  ASSUME wire \in Seq(Bytes), outputBuffer \in Seq(Bytes), NEW m \in Seq(Bytes)
  PROVE  (wire \o outputBuffer) \o m = wire \o (outputBuffer \o m)
  BY ConcatOf

\* A sequence is a prefix of what begins with it.
LEMMA PrefixOf ==
  ASSUME NEW S, NEW a \in Seq(S), NEW b \in Seq(S)
  PROVE  Stream!Begins(a, a \o b) /\ Stream!Begins(a, a)
  BY DEF Stream!Begins

\* One more functor.
LEMMA AppendOf ==
  ASSUME NEW S, NEW q \in Seq(S), NEW x \in S
  PROVE  /\ Append(q, x) \in Seq(S)
         /\ \A i \in DOMAIN Append(q, x) :
              (i \in DOMAIN q /\ Append(q, x)[i] = q[i]) \/ Append(q, x)[i] = x
  OBVIOUS

\* A queue of one.
LEMMA SingletonOf ==
  ASSUME NEW S, NEW x \in S
  PROVE  <<x>> \in Seq(S) /\ \A i \in DOMAIN <<x>> : <<x>>[i] = x
  OBVIOUS

\* The functors of the loop are functors.
LEMMA FunctorOf ==
  ASSUME NEW name \in Shared
  PROVE  /\ Functor(name) \in QueuedFunctor
         /\ Functor(name).name = name
<1>1. <<>> \in Seq(Bytes)
  OBVIOUS
<1> QED
  BY <1>1 DEF Functor, QueuedFunctor

\* A message is a sequence of bytes.
LEMMA MessageOf ==
  ASSUME ConnectionAssumption, numSent \in Nat, NEW len \in Lengths
  PROVE  Message(len) \in Seq(Bytes)
<1>1. len \in Nat /\ numSent + 1 \in Nat
  BY DEF ConnectionAssumption
<1>2. Message(len) \in [1 .. len -> Bytes]
  BY <1>1 DEF Message, Bytes
<1> QED
  BY <1>1, <1>2

\* How many bytes write() takes.
LEMMA WriteTakes ==
  ASSUME ConnectionAssumption, TypeOK, NEW len \in Nat,
         NEW result \in WriteResults(len)
  PROVE  /\ result.n \in 0 .. len
         /\ unsent + result.n \in 0 .. SocketBuffer
         /\ result.errno # "none" => result.n = 0
         /\ fin => result.errno = "EPIPE"
<1>1. unsent \in 0 .. SocketBuffer /\ SocketBuffer \in Nat
  BY DEF TypeOK, ConnectionAssumption
<1>2. CASE fin \/ peer = "gone" \/ peer = "reset" \/ unsent = SocketBuffer
  BY <1>1, <1>2 DEF WriteResults
<1>3. CASE ~(fin \/ peer = "gone" \/ peer = "reset" \/ unsent = SocketBuffer)
  <2>1. result = [n |-> IF len <= SocketBuffer - unsent THEN len ELSE SocketBuffer - unsent,
                  errno |-> "none"]
    BY <1>3 DEF WriteResults
  <2> QED
    BY <1>1, <1>3, <2>1
<1> QED
  BY <1>2, <1>3

-----------------------------------------------------------------------------
\* The variables that the invariant and the abstract specification are about.
streamVars == <<state, events, registered, revents, outputBuffer, wire, accepted,
                fin, reported>>

\* Nothing is in sendInLoop()'s way to the connection.
NothingQueued ==
  /\ \A t \in Threads : call[t] = <<>>
  /\ \A i \in DOMAIN pendingFunctors : pendingFunctors[i].name # "send"
  /\ \A i \in DOMAIN functors : functors[i].name # "send"

\* A step of the stream, or none.
StreamStep == Stream!Step \/ UNCHANGED <<accepted, wire, fin>>

\* Before anything is sent.
LEMMA InitConnectionInv == ConnectionAssumption /\ Init => ConnectionInv
<1> SUFFICES ASSUME ConnectionAssumption, Init PROVE ConnectionInv
  OBVIOUS
<1>1. <<>> \in Seq(Bytes) /\ <<>> \in Seq(QueuedFunctor) /\ Len(<<>>) = 0
      /\ <<>> \o <<>> = <<>>
  OBVIOUS
<1>2. Functor("connectEstablished") \in QueuedFunctor
      /\ Functor("connectEstablished").name = "connectEstablished"
  <2>1. "connectEstablished" \in Shared
    BY DEF Shared
  <2> QED
    BY <2>1, FunctorOf
<1>3. pendingFunctors \in Seq(QueuedFunctor)
      /\ \A i \in DOMAIN pendingFunctors : pendingFunctors[i].name # "send"
  <2>1. pendingFunctors = <<Functor("connectEstablished")>>
    BY DEF Init
  <2> QED
    BY <1>2, <2>1, SingletonOf
<1>4. TypeOK
  <2>1. call \in [Threads -> Seq(Bytes)]
    BY <1>1 DEF Init
  <2>2. 0 \in 0 .. SocketBuffer
    BY DEF ConnectionAssumption
  <2> QED
    BY Zenon, <1>1, <1>3, <2>1, <2>2 DEF Init, TypeOK
<1>5. OutputInv
  BY <1>1, <1>4 DEF Init, OutputInv, isWriting
<1>6. HighWaterReported
  <2>1. ~(0 >= HighWaterMark)
    BY DEF ConnectionAssumption
  <2> QED
    BY <1>1, <2>1 DEF Init, HighWaterReported
<1> QED
  BY <1>1, <1>3, <1>5, <1>6 DEF Init, ConnectionInv

\* What sendInLoop() does to the output, for any connection that is not in
\* state kConnecting.
LEMMA SendInLoopOutput ==
  ASSUME ConnectionAssumption, ConnectionInv, NEW message \in Seq(Bytes),
         state # "kConnecting", SendInLoop(message),
         UNCHANGED <<state, revents, fin>>
  PROVE  /\ outputBuffer' \in Seq(Bytes) /\ wire' \in Seq(Bytes)
         /\ accepted' \in Seq(Bytes) /\ unsent' \in 0 .. SocketBuffer
         /\ pendingFunctors' \in Seq(QueuedFunctor)
         /\ events' \subseteq {"in", "out"} /\ reported' \in BOOLEAN
         /\ registered' \in BOOLEAN
         /\ state # "kDisconnected" => (isWriting' <=> outputBuffer' # <<>>)
         /\ state = "kDisconnected" => events' = {}
         /\ accepted' = wire' \o outputBuffer'
         /\ fin => outputBuffer' = <<>>
         /\ HighWaterReported'
         /\ Stream!Step \/ UNCHANGED <<accepted, wire, fin>>
<1> USE DEF ConnectionInv, OutputInv
<1>1. /\ outputBuffer \in Seq(Bytes) /\ wire \in Seq(Bytes) /\ accepted \in Seq(Bytes)
      /\ Len(message) \in Nat /\ Len(outputBuffer) \in Nat
      /\ unsent \in 0 .. SocketBuffer /\ pendingFunctors \in Seq(QueuedFunctor)
      /\ events \subseteq {"in", "out"} /\ reported \in BOOLEAN /\ registered \in BOOLEAN
      /\ fin \in BOOLEAN
  BY DEF TypeOK
<1>2. CASE UNCHANGED <<outputBuffer, events, registered, pendingFunctors, wire,
                       unsent, accepted, reported>>
  BY <1>1, <1>2 DEF isWriting, HighWaterReported
<1>3. ASSUME NEW rest \in Seq(Bytes), outputBuffer \o rest # <<>>,
             BufferRest(rest), ~fin,
             accepted' = wire' \o (outputBuffer \o rest),
             wire' \in Seq(Bytes), unsent' \in 0 .. SocketBuffer,
             state # "kDisconnected", accepted' = accepted \o message,
             Stream!Begins(wire, wire')
      PROVE  /\ outputBuffer' \in Seq(Bytes) /\ accepted' \in Seq(Bytes)
             /\ pendingFunctors' \in Seq(QueuedFunctor)
             /\ events' \subseteq {"in", "out"} /\ reported' \in BOOLEAN
             /\ registered' \in BOOLEAN
             /\ isWriting' /\ outputBuffer' # <<>>
             /\ accepted' = wire' \o outputBuffer'
             /\ HighWaterReported'
             /\ Stream!Step
  <2>1. /\ outputBuffer' = outputBuffer \o rest
        /\ events' = events \cup {"out"} /\ registered' = TRUE
        /\ reported' = (reported \/ Reaches(Len(outputBuffer),
                                            Len(outputBuffer) + Len(rest)))
    BY <1>3 DEF BufferRest
  <2>2. /\ outputBuffer' \in Seq(Bytes) /\ Len(rest) \in Nat
        /\ Len(outputBuffer') = Len(outputBuffer) + Len(rest)
        /\ outputBuffer' # <<>>
    BY <1>1, <1>3, <2>1, ConcatOf
  <2>3. pendingFunctors' \in Seq(QueuedFunctor)
    <3>1. "highWater" \in Shared
      BY DEF Shared
    <3>2. Append(pendingFunctors, Functor("highWater")) \in Seq(QueuedFunctor)
      BY <1>1, <3>1, FunctorOf, AppendOf
    <3> QED
      BY <1>1, <1>3, <3>2 DEF BufferRest
  <2>4. HighWaterReported'
    <3>1. reported' <=> reported \/ Reaches(Len(outputBuffer), Len(outputBuffer'))
      BY Zenon, <2>1, <2>2
    <3>2. Reaches(Len(outputBuffer), Len(outputBuffer'))
            <=> Len(outputBuffer') >= HighWaterMark /\ ~(Len(outputBuffer) >= HighWaterMark)
      BY <1>1, <2>2 DEF Reaches, ConnectionAssumption
    <3>3. Len(outputBuffer) >= HighWaterMark => Len(outputBuffer') >= HighWaterMark
      BY <1>1, <2>2 DEF ConnectionAssumption
    <3> QED
      BY <3>1, <3>2, <3>3, Zenon DEF HighWaterReported
  <2>5. accepted' \in Seq(Bytes) /\ Stream!Begins(accepted, accepted')
    <3>1. accepted \o message \in Seq(Bytes) /\ Stream!Begins(accepted, accepted \o message)
      BY Zenon, <1>1, ConcatOf, PrefixOf
    <3> QED
      BY <1>3, <3>1
  <2>6. accepted' = wire' \o outputBuffer' /\ Stream!Begins(wire', accepted')
    BY Zenon, <1>3, <2>1, <2>2, PrefixOf
  <2>7. Stream!Step
    <3>1. ~fin'
      BY <1>3
    <3> QED
      BY <1>3, <2>5, <2>6, <3>1, Zenon DEF Stream!Step
  <2>8. isWriting'
    BY <2>1 DEF isWriting
  <2>9. reported' \in BOOLEAN
    BY <2>1
  <2>10. events' \subseteq {"in", "out"} /\ registered' \in BOOLEAN
    BY <1>1, <2>1
  <2> QED
    BY <2>2, <2>3, <2>4, <2>5, <2>6, <2>7, <2>8, <2>9, <2>10
<1>4. CASE state # "kDisconnected" /\ Direct
           /\ \E result \in WriteResults(Len(message)) :
                /\ result.errno # "EPIPE"
                /\ accepted' = accepted \o message
                /\ Written(message, result.n)
                /\ \/ /\ result.n = Len(message)
                      /\ pendingFunctors' =
                           Append(pendingFunctors, Functor("writeComplete"))
                      /\ UNCHANGED <<outputBuffer, events, registered, reported>>
                   \/ /\ result.n < Len(message)
                      /\ BufferRest(SubSeq(message, result.n + 1, Len(message)))
  <2>1. PICK result \in WriteResults(Len(message)) :
          /\ result.errno # "EPIPE"
          /\ accepted' = accepted \o message
          /\ Written(message, result.n)
          /\ \/ /\ result.n = Len(message)
                /\ pendingFunctors' =
                     Append(pendingFunctors, Functor("writeComplete"))
                /\ UNCHANGED <<outputBuffer, events, registered, reported>>
             \/ /\ result.n < Len(message)
                /\ BufferRest(SubSeq(message, result.n + 1, Len(message)))
    BY <1>4
  <2>2. /\ result.n \in 0 .. Len(message) /\ unsent + result.n \in 0 .. SocketBuffer
        /\ ~fin
    BY SMTT(60), <1>1, <2>1, WriteTakes
  <2> DEFINE first == SubSeq(message, 1, result.n)
             rest == SubSeq(message, result.n + 1, Len(message))
  <2>3. /\ first \in Seq(Bytes) /\ rest \in Seq(Bytes)
        /\ Len(rest) = Len(message) - result.n
        /\ (wire \o first) \o rest = wire \o message
        /\ wire \o first \in Seq(Bytes)
    <3>1. PICK n \in 0 .. Len(message) : n = result.n
      BY <2>2
    <3>2. /\ SubSeq(message, 1, n) \in Seq(Bytes)
          /\ SubSeq(message, n + 1, Len(message)) \in Seq(Bytes)
          /\ Len(SubSeq(message, n + 1, Len(message))) = Len(message) - n
          /\ (wire \o SubSeq(message, 1, n)) \o SubSeq(message, n + 1, Len(message))
               = wire \o message
          /\ wire \o SubSeq(message, 1, n) \in Seq(Bytes)
      BY <1>1, SplitAt, Zenon
    <3> QED
      BY <3>1, <3>2, Zenon
  <2>4. wire' = wire \o first /\ unsent' = unsent + result.n
    BY <2>1 DEF Written
  <2>5. outputBuffer = <<>> /\ accepted = wire
    <3>1. outputBuffer = <<>>
      BY <1>4 DEF Direct
    <3>2. wire \o <<>> = wire
      BY <1>1, ConcatOf
    <3> QED
      BY <3>1, <3>2
  <2> HIDE DEF first, rest
  <2>6. wire' \in Seq(Bytes) /\ unsent' \in 0 .. SocketBuffer /\ Stream!Begins(wire, wire')
    BY <1>1, <2>2, <2>3, <2>4, PrefixOf
  <2>7. CASE /\ result.n = Len(message)
             /\ pendingFunctors' = Append(pendingFunctors, Functor("writeComplete"))
             /\ UNCHANGED <<outputBuffer, events, registered, reported>>
    <3>1. rest = <<>>
      BY <1>1, <2>3, <2>7, ConcatOf
    <3>2. accepted' = wire' /\ wire' \o <<>> = wire'
      <4>1. wire' \o <<>> = wire'
        BY <2>6, ConcatOf
      <4> QED
        BY <2>1, <2>3, <2>4, <2>5, <3>1, <4>1
    <3>3. pendingFunctors' \in Seq(QueuedFunctor)
      <4>1. "writeComplete" \in Shared
        BY DEF Shared
      <4> QED
        BY <1>1, <2>7, <4>1, FunctorOf, AppendOf
    <3>4. Stream!Step
      <4>1. ~fin' /\ Stream!Begins(wire', wire')
        BY <2>2, <2>6, PrefixOf
      <4> QED
        BY <2>2, <2>5, <2>6, <3>2, <4>1, Zenon
        DEF Stream!Step
    <3>5. HighWaterReported'
      BY <2>7 DEF HighWaterReported
    <3>6. isWriting' <=> outputBuffer' # <<>>
      BY <1>4, <2>7 DEF isWriting
    <3> QED
      BY <1>1, <1>4, <2>2, <2>5, <2>6, <2>7, <3>2, <3>3, <3>4, <3>5, <3>6
  <2>8. CASE result.n < Len(message) /\ BufferRest(rest)
    <3>1. rest # <<>> /\ <<>> \o rest = rest
      BY SMTT(60), <1>1, <2>2, <2>3, <2>8
    <3>2. accepted' = wire' \o (outputBuffer \o rest) /\ outputBuffer \o rest # <<>>
      BY Zenon, <2>1, <2>3, <2>4, <2>5, <3>1
    <3> QED
      BY Zenon, <1>3, <1>4, <2>1, <2>2, <2>3, <2>6, <2>8, <3>2
  <2> QED
    BY Zenon, <2>1, <2>7, <2>8 DEF rest
<1>5. CASE /\ state # "kDisconnected" /\ ~Direct
           /\ accepted' = accepted \o message
           /\ BufferRest(message)
           /\ UNCHANGED <<wire, unsent>>
  <2>1. outputBuffer # <<>> /\ ~fin
    BY <1>5 DEF Direct
  <2>2. outputBuffer \o message # <<>>
    BY <1>1, <2>1, ConcatOf
  <2>3. accepted' = wire' \o (outputBuffer \o message)
    <3>1. (wire \o outputBuffer) \o message = wire \o (outputBuffer \o message)
      BY Zenon, <1>1, OutputThen
    <3> QED
      BY <1>5, <3>1
  <2>4. wire' \in Seq(Bytes) /\ unsent' \in 0 .. SocketBuffer /\ Stream!Begins(wire, wire')
    BY <1>1, <1>5, PrefixOf
  <2> QED
    BY Zenon, <1>3, <1>5, <2>1, <2>2, <2>3, <2>4
<1> QED
  BY Zenon, <1>2, <1>4, <1>5 DEF SendInLoop

\* The steps that leave the stream alone.
LEMMA QuietStep ==
  ASSUME ConnectionInv, UNCHANGED streamVars, unsent' \in 0 .. SocketBuffer,
         numSent' \in Nat, ran' \in Nat, pc' \in {"poll", "handling", "functors"},
         pc' # "handling" => revents = {}, call' \in [Threads -> Seq(Bytes)],
         functors' \in Seq(QueuedFunctor), pendingFunctors' \in Seq(QueuedFunctor),
         state = "kConnecting" => NothingQueued'
  PROVE  ConnectionInv' /\ StreamStep
<1>1. TypeOK'
  BY DEF ConnectionInv, OutputInv, TypeOK, streamVars
<1>2. OutputInv'
  BY <1>1 DEF ConnectionInv, OutputInv, streamVars, isWriting
<1>3. HighWaterReported'
  BY DEF ConnectionInv, HighWaterReported, streamVars
<1>4. state' = "kConnecting" => events' = {} /\ outputBuffer' = <<>> /\ NothingQueued'
  BY DEF ConnectionInv, streamVars
<1>5. pc' # "handling" => revents' = {}
  BY DEF streamVars
<1>6. StreamStep
  BY DEF StreamStep, streamVars
<1> QED
  BY <1>2, <1>3, <1>4, <1>5, <1>6 DEF ConnectionInv, NothingQueued

\* Functors are taken, and callbacks called and left.
LEMMA LoopQuiet ==
  ASSUME ConnectionInv,
         TakeFunctors \/ FunctorsDone \/ RunUserCallback \/ CallbackReturn
         \/ UNCHANGED vars
  PROVE  ConnectionInv' /\ StreamStep
<1>1. /\ unsent \in 0 .. SocketBuffer /\ numSent \in Nat /\ ran \in Nat
      /\ pc \in {"poll", "handling", "functors"} /\ call \in [Threads -> Seq(Bytes)]
      /\ functors \in Seq(QueuedFunctor) /\ pendingFunctors \in Seq(QueuedFunctor)
      /\ pc # "handling" => revents = {}
      /\ state = "kConnecting" => NothingQueued
  BY DEF ConnectionInv, OutputInv, TypeOK, NothingQueued
<1>2. <<>> \in Seq(QueuedFunctor) /\ \A i \in DOMAIN <<>> : <<>>[i].name # "send"
  OBVIOUS
<1>3. CASE TakeFunctors
  BY <1>1, <1>2, <1>3, QuietStep
  DEF TakeFunctors, streamVars, channelVars, threadVars, NothingQueued
<1>4. CASE FunctorsDone
  BY <1>1, <1>2, <1>4, QuietStep
  DEF FunctorsDone, streamVars, channelVars, threadVars, NothingQueued
<1>5. CASE RunUserCallback
  <2>1. ran' = ran + 1
    BY <1>5 DEF RunUserCallback, NextFunctor
  <2> QED
    BY <1>1, <1>5, <2>1, QuietStep
    DEF RunUserCallback, streamVars, channelVars, threadVars, NothingQueued
<1>6. CASE CallbackReturn
  BY <1>1, <1>6, QuietStep
  DEF CallbackReturn, streamVars, channelVars, threadVars, NothingQueued
<1>7. CASE UNCHANGED vars
  BY <1>1, <1>7, QuietStep
  DEF vars, streamVars, channelVars, threadVars, loopVars, NothingQueued
<1> QED
  BY <1>3, <1>4, <1>5, <1>6, <1>7

\* The other threads, the owner and the peer.
LEMMA OthersQuiet ==
  ASSUME ConnectionAssumption, ConnectionInv,
         \/ \E t \in Threads : (\E len \in Lengths : SendFrom(t, len))
                             \/ SendQueues(t) \/ Release(t)
         \/ OwnerRemoves \/ OwnerDies \/ PeerStep
  PROVE  ConnectionInv' /\ StreamStep
<1>1. /\ unsent \in 0 .. SocketBuffer /\ numSent \in Nat /\ ran \in Nat
      /\ pc \in {"poll", "handling", "functors"} /\ call \in [Threads -> Seq(Bytes)]
      /\ functors \in Seq(QueuedFunctor) /\ pendingFunctors \in Seq(QueuedFunctor)
      /\ pc # "handling" => revents = {}
      /\ state = "kConnecting" => NothingQueued
  BY DEF ConnectionInv, OutputInv, TypeOK, NothingQueued
<1>2. ASSUME NEW t \in Threads, NEW len \in Lengths, SendFrom(t, len)
      PROVE  ConnectionInv' /\ StreamStep
  <2>1. Message(len) \in Seq(Bytes)
    BY <1>1, MessageOf
  <2>2. call' \in [Threads -> Seq(Bytes)]
    BY <1>1, <1>2, <2>1 DEF SendFrom
  <2>3. numSent' \in Nat /\ state # "kConnecting"
    BY <1>1, <1>2 DEF SendFrom
  <2> QED
    BY <1>1, <1>2, <2>2, <2>3, QuietStep
    DEF SendFrom, streamVars, channelVars, loopVars
<1>3. ASSUME NEW t \in Threads, SendQueues(t)
      PROVE  ConnectionInv' /\ StreamStep
  <2>1. [name |-> "send", message |-> call[t]] \in QueuedFunctor
    <3>1. call[t] \in Seq(Bytes)
      BY <1>1
    <3> QED
      BY <3>1 DEF QueuedFunctor
  <2>2. pendingFunctors' \in Seq(QueuedFunctor)
    BY <1>1, <1>3, <2>1, AppendOf DEF SendQueues
  <2>3. call' \in [Threads -> Seq(Bytes)]
    <3>1. <<>> \in Seq(Bytes)
      OBVIOUS
    <3> QED
      BY <1>1, <1>3, <3>1 DEF SendQueues
  <2>4. state # "kConnecting"
    BY SMTT(60), <1>1, <1>3 DEF SendQueues, NothingQueued
  <2> QED
    BY <1>1, <1>3, <2>2, <2>3, <2>4, QuietStep
    DEF SendQueues, streamVars, channelVars, loopVars
<1>4. ASSUME NEW t \in Threads, Release(t)
      PROVE  ConnectionInv' /\ StreamStep
  BY <1>1, <1>4, QuietStep DEF Release, streamVars, channelVars, loopVars, NothingQueued
<1>5. CASE OwnerRemoves \/ OwnerDies
  <2>1. pendingFunctors' = Append(pendingFunctors, Functor("connectDestroyed"))
    BY <1>5 DEF OwnerRemoves, OwnerDies
  <2>2. Functor("connectDestroyed") \in QueuedFunctor
        /\ Functor("connectDestroyed").name # "send"
    <3>1. "connectDestroyed" \in Shared
      BY DEF Shared
    <3> QED
      BY <3>1, FunctorOf
  <2>3. pendingFunctors' \in Seq(QueuedFunctor)
        /\ \A i \in DOMAIN pendingFunctors' :
             \/ pendingFunctors'[i].name # "send"
             \/ /\ i \in DOMAIN pendingFunctors
                /\ pendingFunctors'[i] = pendingFunctors[i]
    <3> DEFINE x == Functor("connectDestroyed")
    <3>1. pendingFunctors' = Append(pendingFunctors, x) /\ x.name # "send"
          /\ x \in QueuedFunctor
      BY <2>1, <2>2
    <3> HIDE DEF x
    <3> QED
      BY <1>1, <3>1, AppendOf
  <2>4. UNCHANGED <<streamVars, unsent, numSent, ran, pc, call, functors>>
    BY SMTT(60), <1>5 DEF OwnerRemoves, OwnerDies, streamVars, channelVars, loopVars, threadVars
  <2>5. state = "kConnecting" => NothingQueued'
    <3> SUFFICES ASSUME NothingQueued PROVE NothingQueued'
      BY Zenon, <1>1
    <3>1. \A u \in Threads : call'[u] = <<>>
      BY Zenon, <2>4 DEF NothingQueued
    <3>2. \A i \in DOMAIN pendingFunctors' : pendingFunctors'[i].name # "send"
      <4> TAKE i \in DOMAIN pendingFunctors'
      <4>1. CASE i \in DOMAIN pendingFunctors /\ pendingFunctors'[i] = pendingFunctors[i]
        <5>1. pendingFunctors[i].name # "send"
          BY Zenon, <4>1 DEF NothingQueued
        <5> QED
          BY Zenon, <4>1, <5>1
      <4> QED
        BY Zenon, <2>3, <4>1
    <3>3. \A i \in DOMAIN functors' : functors'[i].name # "send"
      BY Zenon, <2>4 DEF NothingQueued
    <3> QED
      BY Zenon, <3>1, <3>2, <3>3 DEF NothingQueued
  <2> QED
    BY <1>1, <2>3, <2>4, <2>5, QuietStep
<1>6. CASE PeerStep
  <2>1. UNCHANGED <<streamVars, numSent, ran, pc, call, functors, pendingFunctors>>
    BY <1>6 DEF PeerStep, streamVars, channelVars, loopVars, threadVars
  <2>2. unsent' \in 0 .. SocketBuffer
    BY <1>1, <1>6 DEF PeerStep, ConnectionAssumption
  <2> QED
    BY <1>1, <2>1, <2>2, QuietStep DEF NothingQueued
<1> QED
  BY <1>2, <1>3, <1>4, <1>5, <1>6

\* send(), in the loop thread or queued by another one.
LEMMA SendStep ==
  ASSUME ConnectionAssumption, ConnectionInv,
         (\E len \in Lengths : Send(len)) \/ RunSend
  PROVE  ConnectionInv' /\ StreamStep
<1>1. TypeOK
  BY DEF ConnectionInv, OutputInv
<1>2. PICK message \in Seq(Bytes) :
        /\ SendInLoop(message) /\ state # "kConnecting"
        /\ numSent' \in Nat /\ ran' \in Nat
        /\ UNCHANGED <<state, revents, fin, pc, call, functors>>
  <2>1. ASSUME NEW len \in Lengths, Send(len)
        PROVE  \E message \in Seq(Bytes) :
                 /\ SendInLoop(message) /\ state # "kConnecting"
                 /\ numSent' \in Nat /\ ran' \in Nat
                 /\ UNCHANGED <<state, revents, fin, pc, call, functors>>
    <3>1. numSent \in Nat /\ ran \in Nat
      BY <1>1 DEF TypeOK
    <3>2. Message(len) \in Seq(Bytes)
      BY <3>1, MessageOf
    <3>3. /\ SendInLoop(Message(len)) /\ state # "kConnecting"
          /\ numSent' \in Nat /\ ran' \in Nat
          /\ UNCHANGED <<state, revents, fin, pc, call, functors>>
      BY <2>1, <3>1 DEF Send, loopVars, threadVars
    <3> QED
      BY <3>2, <3>3
  <2>2. ASSUME RunSend
        PROVE  \E message \in Seq(Bytes) :
                 /\ SendInLoop(message) /\ state # "kConnecting"
                 /\ numSent' \in Nat /\ ran' \in Nat
                 /\ UNCHANGED <<state, revents, fin, pc, call, functors>>
    <3>1. numSent \in Nat /\ ran \in Nat /\ functors \in Seq(QueuedFunctor)
      BY <1>1 DEF TypeOK
    <3>2. /\ ran < Len(functors) /\ functors[ran + 1].name = "send"
          /\ ran' = ran + 1
      BY <2>2 DEF RunSend, NextFunctor
    <3>3. ran + 1 \in DOMAIN functors /\ functors[ran + 1] \in QueuedFunctor
      BY <3>1, <3>2
    <3>4. functors[ran + 1].message \in Seq(Bytes)
      BY <3>3 DEF QueuedFunctor
    <3>5. state # "kConnecting"
      BY <3>2, <3>3 DEF ConnectionInv
    <3>6. SendInLoop(functors[ran + 1].message)
          /\ UNCHANGED <<state, revents, fin, pc, call, functors, numSent>>
      BY <2>2 DEF RunSend, threadVars
    <3> QED
      BY <3>1, <3>2, <3>4, <3>5, <3>6
  <2> QED
    BY <2>1, <2>2
<1>3. /\ outputBuffer' \in Seq(Bytes) /\ wire' \in Seq(Bytes)
      /\ accepted' \in Seq(Bytes) /\ unsent' \in 0 .. SocketBuffer
      /\ pendingFunctors' \in Seq(QueuedFunctor)
      /\ events' \subseteq {"in", "out"} /\ reported' \in BOOLEAN
      /\ registered' \in BOOLEAN
      /\ state # "kDisconnected" => (isWriting' <=> outputBuffer' # <<>>)
      /\ state = "kDisconnected" => events' = {}
      /\ accepted' = wire' \o outputBuffer'
      /\ fin => outputBuffer' = <<>>
      /\ HighWaterReported'
      /\ Stream!Step \/ UNCHANGED <<accepted, wire, fin>>
  BY <1>2, SendInLoopOutput
<1>4. TypeOK'
  BY <1>1, <1>2, <1>3 DEF TypeOK
<1>5. OutputInv'
  BY <1>2, <1>3, <1>4 DEF OutputInv, ConnectionInv
<1>6. state' # "kConnecting" /\ (pc' # "handling" => revents' = {})
  BY <1>2 DEF ConnectionInv
<1> QED
  BY Zenon, <1>3, <1>5, <1>6 DEF ConnectionInv, StreamStep

\* shutdown(), connectEstablished() and connectDestroyed().
LEMMA StateStep ==
  ASSUME ConnectionAssumption, ConnectionInv,
         Shutdown \/ ConnectEstablished \/ ConnectDestroyed
  PROVE  ConnectionInv' /\ StreamStep
<1>1. TypeOK
  BY DEF ConnectionInv, OutputInv
<1>2. wire \in Seq(Bytes) /\ wire \o <<>> = wire /\ Stream!Begins(wire, wire)
      /\ ran \in Nat
  BY <1>1, ConcatOf, PrefixOf DEF TypeOK
<1>3. CASE Shutdown
  <2>1. /\ UNCHANGED <<events, registered, revents, pc, functors, ran,
                       pendingFunctors, outputBuffer, call, numSent, unsent, wire,
                       accepted, reported>>
        /\ state = "kConnected" /\ state' = "kDisconnecting"
        /\ fin' = (fin \/ ~isWriting)
    BY SMTT(60), <1>3 DEF Shutdown, ShutdownInLoop, channelVars, loopVars, threadVars
  <2>2. fin' \in BOOLEAN /\ (fin' => outputBuffer = <<>>)
    BY Zenon, <2>1 DEF ConnectionInv, OutputInv
  <2>3. TypeOK'
    BY <1>1, <2>1, <2>2 DEF TypeOK
  <2>4. OutputInv'
    BY <2>1, <2>2, <2>3 DEF ConnectionInv, OutputInv, isWriting
  <2>5. HighWaterReported'
    BY <2>1 DEF ConnectionInv, HighWaterReported
  <2>6. StreamStep
    <3>1. CASE outputBuffer = <<>>
      <4>1. wire = accepted
        BY <1>2, <3>1 DEF ConnectionInv, OutputInv
      <4>2. fin => fin'
        BY Zenon, <2>1
      <4> QED
        BY <1>2, <2>1, <4>1, <4>2, Zenon
        DEF StreamStep, Stream!Step
    <3>2. CASE outputBuffer # <<>>
      <4>1. ~fin /\ ~fin'
        BY <2>2, <3>2 DEF ConnectionInv, OutputInv
      <4>2. fin \in BOOLEAN
        BY <1>1 DEF TypeOK
      <4> QED
        BY Zenon, <2>1, <2>2, <4>1, <4>2 DEF StreamStep
    <3> QED
      BY <3>1, <3>2
  <2> QED
    BY <2>1, <2>4, <2>5, <2>6 DEF ConnectionInv
<1>4. CASE ConnectEstablished
  <2>1. /\ UNCHANGED <<revents, pc, functors, pendingFunctors, outputBuffer, call,
                       numSent, unsent, wire, fin, accepted, reported>>
        /\ state = "kConnecting" /\ state' = "kConnected" /\ events' = {"in"}
        /\ registered' = TRUE /\ ran' = ran + 1
    BY <1>4 DEF ConnectEstablished, NextFunctor
  <2>2. TypeOK'
    BY <1>1, <1>2, <2>1 DEF TypeOK
  <2>3. OutputInv'
    BY <2>1, <2>2 DEF ConnectionInv, OutputInv, isWriting
  <2>4. HighWaterReported' /\ StreamStep
    BY <2>1 DEF ConnectionInv, HighWaterReported, StreamStep
  <2> QED
    BY <2>1, <2>3, <2>4 DEF ConnectionInv
<1>5. CASE ConnectDestroyed
  <2>1. /\ UNCHANGED <<revents, pc, functors, pendingFunctors, outputBuffer, call,
                       numSent, unsent, wire, fin, accepted, reported>>
        /\ state' = IF state = "kConnected" THEN "kDisconnected" ELSE state
        /\ state = "kConnected" \/ events = {}
        /\ events' = {} /\ registered' = FALSE /\ ran' = ran + 1
        /\ pc = "functors"
    BY <1>5 DEF ConnectDestroyed, NextFunctor, MayRemove, threadVars
  <2>2. TypeOK'
    <3>1. state' \in {"kConnecting", "kConnected", "kDisconnecting", "kDisconnected"}
      BY <1>1, <2>1 DEF TypeOK
    <3>2. ran' \in Nat
      BY <1>2, <2>1
    <3> QED
      BY Zenon, <1>1, <2>1, <3>1, <3>2 DEF TypeOK
  <2>3. revents' = {}
    BY <2>1 DEF ConnectionInv
  <2>4. OutputInv'
    BY Zenon, <2>1, <2>2, <2>3 DEF ConnectionInv, OutputInv, isWriting
  <2>5. HighWaterReported' /\ StreamStep
    BY <2>1 DEF ConnectionInv, HighWaterReported, StreamStep
  <2> QED
    BY <2>1, <2>3, <2>4, <2>5 DEF ConnectionInv
<1> QED
  BY <1>3, <1>4, <1>5

\* poll(), handleRead() and handleClose().
LEMMA ReadStep ==
  ASSUME ConnectionInv, Poll \/ HandleRead
  PROVE  ConnectionInv' /\ StreamStep
<1>1. TypeOK
  BY DEF ConnectionInv, OutputInv
<1>2. CASE Poll
  <2>1. /\ UNCHANGED <<state, events, registered, functors, ran, pendingFunctors,
                       outputBuffer, call, numSent, unsent, wire, fin, accepted,
                       reported>>
        /\ pc' = "handling" /\ revents' \subseteq events
    BY <1>2 DEF Poll, threadVars
  <2>2. TypeOK'
    BY <1>1, <2>1 DEF TypeOK
  <2>3. "in" \in revents' => state' \in {"kConnected", "kDisconnecting"}
    <3>1. events # {} => state # "kDisconnected" /\ state # "kConnecting"
      BY DEF ConnectionInv, OutputInv
    <3>2. "in" \in revents' => events # {}
      BY <2>1
    <3> QED
      BY <1>1, <2>1, <3>1, <3>2 DEF TypeOK
  <2>4. OutputInv'
    BY <2>1, <2>2, <2>3 DEF ConnectionInv, OutputInv, isWriting
  <2>5. HighWaterReported' /\ StreamStep
    BY <2>1 DEF ConnectionInv, HighWaterReported, StreamStep
  <2> QED
    BY <2>1, <2>4, <2>5 DEF ConnectionInv
<1>3. CASE HandleRead
  <2>1. /\ UNCHANGED <<registered, functors, ran, pendingFunctors, pc,
                       outputBuffer, call, numSent, unsent, wire, fin, accepted,
                       reported>>
        /\ revents' = revents \ {"in"} /\ pc = "handling" /\ "in" \in revents
        /\ UNCHANGED <<state, events>> \/ (state' = "kDisconnected" /\ events' = {})
    BY <1>3 DEF HandleRead, HandleClose, threadVars
  <2>2. TypeOK'
    BY Zenon, <1>1, <2>1 DEF TypeOK
  <2>3. state # "kConnecting" /\ state' # "kConnecting" /\ "in" \notin revents'
    BY Zenon, <2>1 DEF ConnectionInv, OutputInv
  <2>4. OutputInv'
    BY Zenon, <2>1, <2>2, <2>3 DEF ConnectionInv, OutputInv, isWriting
  <2>5. HighWaterReported' /\ StreamStep
    BY <2>1 DEF ConnectionInv, HighWaterReported, StreamStep
  <2> QED
    BY <2>1, <2>3, <2>4, <2>5 DEF ConnectionInv
<1> QED
  BY <1>2, <1>3

\* handleWrite().
LEMMA WriteStep ==
  ASSUME ConnectionAssumption, ConnectionInv, HandleWrite
  PROVE  ConnectionInv' /\ StreamStep
<1>1. TypeOK
  BY DEF ConnectionInv, OutputInv
<1>2. /\ UNCHANGED <<state, registered, functors, ran, pc, call, numSent, accepted>>
      /\ pc = "handling" /\ revents' = {}
  BY Zenon DEF HandleWrite, loopVars, threadVars
<1>3. CASE UNCHANGED <<outputBuffer, events, pendingFunctors, wire, unsent, fin,
                       reported>>
  <2>1. TypeOK'
    BY <1>1, <1>2, <1>3 DEF TypeOK
  <2>2. OutputInv'
    BY <1>2, <1>3, <2>1 DEF ConnectionInv, OutputInv, isWriting
  <2>3. HighWaterReported' /\ StreamStep
    BY <1>2, <1>3 DEF ConnectionInv, HighWaterReported, StreamStep
  <2> QED
    BY <1>2, <1>3, <2>2, <2>3 DEF ConnectionInv
<1>4. ASSUME isWriting, NEW result \in WriteResults(Len(outputBuffer)),
             result.errno = "none",
             Written(outputBuffer, result.n),
             outputBuffer' = SubSeq(outputBuffer, result.n + 1, Len(outputBuffer)),
             reported' = (reported /\ Len(outputBuffer') >= HighWaterMark),
             IF outputBuffer' = <<>>
               THEN Drained
               ELSE UNCHANGED <<events, pendingFunctors, fin>>
      PROVE  ConnectionInv' /\ StreamStep
  <2>1. state # "kDisconnected" /\ state # "kConnecting" /\ outputBuffer # <<>> /\ ~fin
    BY <1>4 DEF ConnectionInv, OutputInv, isWriting
  <2>2. /\ outputBuffer \in Seq(Bytes) /\ wire \in Seq(Bytes)
        /\ accepted \in Seq(Bytes) /\ accepted = wire \o outputBuffer
        /\ Len(outputBuffer) \in Nat /\ pendingFunctors \in Seq(QueuedFunctor)
    BY <1>1 DEF TypeOK, ConnectionInv, OutputInv
  <2>3. /\ result.n \in 0 .. Len(outputBuffer)
        /\ unsent + result.n \in 0 .. SocketBuffer
    BY <1>1, <1>4, <2>2, WriteTakes
  <2>4. /\ wire' \in Seq(Bytes) /\ outputBuffer' \in Seq(Bytes)
        /\ Len(outputBuffer') = Len(outputBuffer) - result.n
        /\ accepted' = wire' \o outputBuffer'
        /\ Stream!Begins(wire, wire') /\ unsent' \in 0 .. SocketBuffer
    <3>1. PICK n \in 0 .. Len(outputBuffer) : n = result.n
      BY <2>3
    <3> DEFINE first == SubSeq(outputBuffer, 1, n)
               rest == SubSeq(outputBuffer, n + 1, Len(outputBuffer))
    <3>2. /\ first \in Seq(Bytes)
          /\ rest \in Seq(Bytes)
          /\ Len(rest) = Len(outputBuffer) - n
          /\ (wire \o first) \o rest = wire \o outputBuffer
          /\ wire \o first \in Seq(Bytes)
      BY <2>2, SplitAt, Zenon
    <3>3. wire' = wire \o first /\ outputBuffer' = rest /\ unsent' = unsent + n
      BY <1>4, <3>1, Zenon DEF Written
    <3> HIDE DEF first, rest
    <3>4. Stream!Begins(wire, wire \o first)
      BY <2>2, <3>2, PrefixOf
    <3> QED
      BY <1>2, <2>2, <2>3, <3>1, <3>2, <3>3, <3>4, Zenon
  <2>5. /\ events' \subseteq {"in", "out"} /\ pendingFunctors' \in Seq(QueuedFunctor)
        /\ fin' \in BOOLEAN /\ (fin' => outputBuffer' = <<>>)
        /\ isWriting' <=> outputBuffer' # <<>>
    <3>1. CASE outputBuffer' = <<>>
      <4>1. Drained
        BY <1>4, <3>1
      <4>2. "writeComplete" \in Shared
        BY DEF Shared
      <4>3. pendingFunctors' \in Seq(QueuedFunctor)
        BY <2>2, <4>1, <4>2, FunctorOf, AppendOf DEF Drained
      <4>4. fin' \in BOOLEAN
        BY <4>1 DEF Drained
      <4>5. events' \subseteq {"in", "out"} /\ ~isWriting'
        BY <1>1, <4>1 DEF Drained, isWriting, TypeOK
      <4> QED
        BY <3>1, <4>3, <4>4, <4>5
    <3>2. CASE outputBuffer' # <<>>
      <4>1. UNCHANGED <<events, pendingFunctors, fin>>
        BY <1>4, <3>2
      <4> QED
        BY <1>1, <1>4, <2>1, <2>2, <3>2, <4>1 DEF TypeOK, isWriting
    <3> QED
      BY <3>1, <3>2
  <2>6. HighWaterReported' /\ reported' \in BOOLEAN
    <3>1. Len(outputBuffer') >= HighWaterMark => Len(outputBuffer) >= HighWaterMark
      BY SMTT(60), <2>2, <2>3, <2>4 DEF ConnectionAssumption
    <3>2. reported' <=> reported /\ Len(outputBuffer') >= HighWaterMark
      BY Zenon, <1>4
    <3>3. reported' \in BOOLEAN
      BY <1>4
    <3> QED
      BY <3>1, <3>2, <3>3, Zenon DEF ConnectionInv, HighWaterReported
  <2>7. TypeOK'
    BY <1>1, <1>2, <2>4, <2>5, <2>6 DEF TypeOK
  <2>8. OutputInv'
    BY <1>2, <2>1, <2>4, <2>5, <2>7 DEF OutputInv
  <2>9. StreamStep
    <3>1. Stream!Begins(wire', accepted') /\ Stream!Begins(accepted, accepted')
      BY Zenon, <1>2, <2>2, <2>4, PrefixOf
    <3>2. fin' => wire' = accepted'
      BY <2>4, <2>5, ConcatOf
    <3> QED
      BY <2>1, <2>4, <3>1, <3>2, Zenon
      DEF StreamStep, Stream!Step
  <2> QED
    BY <1>2, <2>1, <2>6, <2>8, <2>9 DEF ConnectionInv
<1> QED
  BY <1>3, <1>4 DEF HandleWrite

-----------------------------------------------------------------------------
\* Every step keeps the invariant, and is a step of the stream or none.
LEMMA NextConnectionInv ==
  ASSUME ConnectionAssumption, ConnectionInv, [Next]_vars
  PROVE  ConnectionInv' /\ StreamStep
  BY LoopQuiet, OthersQuiet, SendStep, StateStep, ReadStep, WriteStep
  DEF Next, LoopStep

\* Whatever sendInLoop(), handleWrite(), shutdown() and the closing of the
\* connection do, the channel waits for POLLOUT exactly when there is something
\* to write, nothing that was accepted is lost, doubled or reordered, nothing
\* is left in the buffer when the stream is finished, and the high water mark
\* is reported exactly when the buffer reaches it.
THEOREM OutputCorrect == Spec => []ConnectionInv
<1>1. Init => ConnectionInv
  BY ConnectionAssumption, InitConnectionInv
<1>2. ConnectionInv /\ [Next]_vars => ConnectionInv'
  BY ConnectionAssumption, NextConnectionInv
<1> QED
  BY <1>1, <1>2, PTL DEF Spec

\* The connection implements the byte stream.
THEOREM ConnectionImplementsByteStream == Spec => ImplementsByteStream
<1>1. Init => ConnectionInv
  BY ConnectionAssumption, InitConnectionInv
<1>2. ConnectionInv /\ [Next]_vars => ConnectionInv'
  BY ConnectionAssumption, NextConnectionInv
<1>3. Init => Stream!Init
  BY DEF Init, Stream!Init
<1>4. ConnectionInv /\ [Next]_vars => [Stream!Step]_<<accepted, wire, fin>>
  BY ConnectionAssumption, NextConnectionInv DEF StreamStep
<1> QED
  BY <1>1, <1>2, <1>3, <1>4, PTL DEF Spec, ImplementsByteStream, Stream!Spec
=============================================================================
