--------------------------- MODULE TcpConnection ----------------------------
(***************************************************************************)
(* muduo/net/TcpConnection.{h,cc}, with the part of Channel that calls its *)
(* handlers: one established connection, in one I/O loop.                  *)
(*                                                                         *)
(* The loop alternates between the events of the socket and the queued     *)
(* functors.  User code runs in the loop thread, in the connection and     *)
(* message callbacks, and in other threads that hold a TcpConnectionPtr;   *)
(* it calls send() and shutdown().  The owner (TcpServer or TcpClient)     *)
(* holds the connection until the close callback, and then queues          *)
(* connectDestroyed().                                                     *)
(*                                                                         *)
(* A functor that was bound with shared_from_this() keeps the connection   *)
(* alive; one that was bound with `this' does not.                         *)
(*                                                                         *)
(* POLLHUP without POLLIN is not modelled: reading is enabled for as long  *)
(* as the channel is registered, and a socket that is hung up is readable. *)
(***************************************************************************)
EXTENDS Naturals, Sequences

CONSTANTS
  Threads,         \* the threads other than the loop's that call send()
  MaxMessages,     \* bound: messages given to send()
  Lengths,         \* their lengths
  SocketBuffer,    \* the send buffer of the socket, in bytes
  HighWaterMark,   \* highWaterMark_
  MaxInput,        \* bound: messages from the peer
  OwnerMayDie      \* may the owner be destroyed before the connection closes?

ASSUME ConnectionAssumption ==
  /\ MaxMessages \in Nat /\ MaxInput \in Nat /\ SocketBuffer \in Nat
  /\ Lengths \subseteq Nat \ {0}
  /\ HighWaterMark \in Nat \ {0}
  /\ OwnerMayDie \in BOOLEAN

VARIABLES
  state,           \* state_
  events,          \* the interest of channel_: in, out
  registered,      \* does the poller have a pointer to channel_?
  revents,         \* the events that handleEvent() has still to handle
  pc,              \* the loop: poll, handling, functors
  inCallback,      \* is user code running in the loop thread?
  pendingFunctors, \* queued by queueInLoop()
  functors,        \* the batch that doPendingFunctors() runs
  ran,             \* how many functors of it have been run
  outputBuffer,    \* outputBuffer_
  owner,           \* TcpServer or TcpClient: map, removing, gone
  holds,           \* does the thread hold a TcpConnectionPtr?
  call,            \* the message a thread is in send() with, or <<>>
  numSent,         \* messages given to send()
  unsent,          \* bytes in the send buffer of the socket
  peer,            \* open, closed, reset, or gone: reset and told so
  input,           \* messages from the peer that were not read
  numInput,        \* messages from the peer so far
  wire,            \* history: the bytes written to the socket
  fin,             \* has shutdown(SHUT_WR) been called?
  accepted,        \* history: the bytes accepted by sendInLoop()
  reported         \* history: was the high water mark reported, since the
                   \* buffer last was below it?

channelVars == <<events, registered, revents>>
loopVars == <<pc, inCallback, functors, ran>>
threadVars == <<holds, call>>
peerVars == <<peer, input, numInput>>
vars == <<state, channelVars, loopVars, pendingFunctors, outputBuffer, owner,
          threadVars, numSent, unsent, peerVars, wire, fin, accepted, reported>>

isWriting == "out" \in events

Functor(name) == [name |-> name, message |-> <<>>]

\* The functors that are bound to a TcpConnectionPtr.
Shared == {"connectEstablished", "connectDestroyed", "writeComplete", "highWater"}

\* Does something still own the connection?
Alive ==
  \/ owner # "gone"
  \/ pc = "handling"
  \/ \E t \in Threads : holds[t]
  \/ \E i \in DOMAIN pendingFunctors : pendingFunctors[i].name \in Shared
  \/ \E i \in DOMAIN functors : functors[i].name \in Shared

Init ==
  /\ state = "kConnecting"
  /\ events = {}
  /\ registered = FALSE
  /\ revents = {}
  /\ pc = "poll"
  /\ inCallback = FALSE
  /\ pendingFunctors = <<Functor("connectEstablished")>>
  /\ functors = <<>>
  /\ ran = 0
  /\ outputBuffer = <<>>
  /\ owner = "map"
  /\ holds = [t \in Threads |-> FALSE]
  /\ call = [t \in Threads |-> <<>>]
  /\ numSent = 0
  /\ unsent = 0
  /\ peer = "open"
  /\ input = 0
  /\ numInput = 0
  /\ wire = <<>>
  /\ fin = FALSE
  /\ accepted = <<>>
  /\ reported = FALSE

-----------------------------------------------------------------------------
(***************************************************************************)
(* The socket.                                                             *)
(***************************************************************************)
\* The outcomes of write(): the number of bytes taken, and the error when
\* there is one.
WriteResults(len) ==
  IF fin \/ peer = "gone" THEN {[n |-> 0, errno |-> "EPIPE"]}
  ELSE IF peer = "reset" THEN [n : {0}, errno : {"EPIPE", "other"}]
  ELSE IF unsent = SocketBuffer THEN {[n |-> 0, errno |-> "EWOULDBLOCK"]}
  ELSE {[n |-> IF len <= SocketBuffer - unsent THEN len ELSE SocketBuffer - unsent,
         errno |-> "none"]}

\* The effect of write() of the first n bytes.
Written(bytes, n) ==
  /\ wire' = wire \o SubSeq(bytes, 1, n)
  /\ unsent' = unsent + n

Readable == input > 0 \/ peer # "open"
Writable == unsent < SocketBuffer \/ peer \in {"reset", "gone"} \/ fin

-----------------------------------------------------------------------------
(***************************************************************************)
(* send() and shutdown().                                                  *)
(***************************************************************************)

\* sendInLoop() that writes directly whenever it can.
DirectAlways == TRUE

\* May sendInLoop() write directly?
Direct == ~isWriting /\ outputBuffer = <<>>

\* Does the buffer reach the high water mark?
Reaches(oldLen, newLen) == newLen >= HighWaterMark /\ oldLen < HighWaterMark

\* The part of sendInLoop() that buffers what was not written.
BufferRest(rest) ==
  LET reaches == Reaches(Len(outputBuffer), Len(outputBuffer) + Len(rest))
  IN  /\ outputBuffer' = outputBuffer \o rest
      /\ events' = events \cup {"out"}
      /\ registered' = TRUE
      /\ pendingFunctors' = IF reaches
                              THEN Append(pendingFunctors, Functor("highWater"))
                              ELSE pendingFunctors
      /\ reported' = (reported \/ reaches)

\* sendInLoop().
SendInLoop(message) ==
  \/ /\ state = "kDisconnected"
     /\ UNCHANGED <<outputBuffer, events, registered, pendingFunctors, wire,
                    unsent, accepted, reported>>
  \/ /\ state # "kDisconnected"
     /\ Direct
     /\ \E result \in WriteResults(Len(message)) :
          \/ /\ result.errno = "EPIPE"
             /\ UNCHANGED <<outputBuffer, events, registered, pendingFunctors,
                            wire, unsent, accepted, reported>>
          \/ /\ result.errno # "EPIPE"
             /\ accepted' = accepted \o message
             /\ Written(message, result.n)
             /\ \/ /\ result.n = Len(message)
                   /\ pendingFunctors' =
                        Append(pendingFunctors, Functor("writeComplete"))
                   /\ UNCHANGED <<outputBuffer, events, registered, reported>>
                \/ /\ result.n < Len(message)
                   /\ BufferRest(SubSeq(message, result.n + 1, Len(message)))
  \/ /\ state # "kDisconnected"
     /\ ~Direct
     /\ accepted' = accepted \o message
     /\ BufferRest(message)
     /\ UNCHANGED <<wire, unsent>>

\* shutdownInLoop() that does not wait for the buffer.
ShutdownAtOnce == fin' = TRUE

\* shutdownInLoop(): not before everything is written.
ShutdownInLoop == fin' = (fin \/ ~isWriting)

\* A new message; its bytes are told apart.
Message(len) == [i \in 1 .. len |-> <<numSent + 1, i>>]

\* send() in a callback.
Send(len) ==
  /\ inCallback
  /\ numSent < MaxMessages
  /\ state = "kConnected"
  /\ numSent' = numSent + 1
  /\ SendInLoop(Message(len))
  /\ UNCHANGED <<state, revents, loopVars, owner, threadVars, peerVars, fin>>

\* shutdown() in a callback.
Shutdown ==
  /\ inCallback
  /\ state = "kConnected"
  /\ state' = "kDisconnecting"
  /\ ShutdownInLoop
  /\ UNCHANGED <<channelVars, loopVars, pendingFunctors, outputBuffer, owner,
                 threadVars, numSent, unsent, peerVars, wire, accepted, reported>>

\* send() in another thread: it finds the connection connected ...
SendFrom(t, len) ==
  /\ holds[t]
  /\ call[t] = <<>>
  /\ numSent < MaxMessages
  /\ state = "kConnected"
  /\ numSent' = numSent + 1
  /\ call' = [call EXCEPT ![t] = Message(len)]
  /\ UNCHANGED <<state, channelVars, loopVars, pendingFunctors, outputBuffer,
                 owner, holds, unsent, peerVars, wire, fin, accepted, reported>>

\* ... and queues sendInLoop(), bound with `this'.
SendQueues(t) ==
  /\ call[t] # <<>>
  /\ pendingFunctors' =
       Append(pendingFunctors, [name |-> "send", message |-> call[t]])
  /\ call' = [call EXCEPT ![t] = <<>>]
  /\ UNCHANGED <<state, channelVars, loopVars, outputBuffer, owner, holds,
                 numSent, unsent, peerVars, wire, fin, accepted, reported>>

\* The thread drops its TcpConnectionPtr.
Release(t) ==
  /\ holds[t]
  /\ call[t] = <<>>
  /\ holds' = [holds EXCEPT ![t] = FALSE]
  /\ UNCHANGED <<state, channelVars, loopVars, pendingFunctors, outputBuffer,
                 owner, call, numSent, unsent, peerVars, wire, fin, accepted,
                 reported>>

-----------------------------------------------------------------------------
(***************************************************************************)
(* The loop: events.                                                       *)
(***************************************************************************)

\* poll() reports the socket.
Poll ==
  /\ pc = "poll"
  /\ registered
  /\ revents' = {e \in events : (e = "in" /\ Readable) \/ (e = "out" /\ Writable)}
  /\ revents' # {}
  /\ pc' = "handling"
  /\ UNCHANGED <<state, events, registered, inCallback, pendingFunctors,
                 functors, ran, outputBuffer, owner, threadVars, numSent,
                 unsent, peerVars, wire, fin, accepted, reported>>

\* handleClose() without the close callback.
HandleCloseSilently ==
  /\ state' = "kDisconnected"
  /\ events' = {}
  /\ UNCHANGED owner

\* handleClose(): the close callback asks the owner to remove the connection.
HandleClose ==
  /\ state' = "kDisconnected"
  /\ events' = {}
  /\ owner' = IF owner = "map" THEN "removing" ELSE owner

\* handleRead(): data, the end of the stream, or an error.
HandleRead ==
  /\ pc = "handling"
  /\ ~inCallback
  /\ "in" \in revents
  /\ revents' = revents \ {"in"}
  /\ \/ /\ input > 0
        /\ input' = 0
        /\ inCallback' = TRUE
        /\ UNCHANGED <<state, events, owner, peer>>
     \/ /\ input = 0
        /\ peer # "open"
        /\ HandleClose
        /\ UNCHANGED <<inCallback, input, peer>>
     \/ /\ input = 0
        /\ peer = "reset"
        /\ peer' = "gone"                   \* an error is reported once
        /\ UNCHANGED <<state, events, owner, inCallback, input>>
  /\ UNCHANGED <<registered, pc, pendingFunctors, functors, ran, outputBuffer,
                 threadVars, numSent, unsent, numInput, wire, fin, accepted,
                 reported>>

\* handleWrite() that forgets the shutdown.
DrainedNoShutdown ==
  /\ events' = events \ {"out"}
  /\ pendingFunctors' = Append(pendingFunctors, Functor("writeComplete"))
  /\ UNCHANGED fin

\* The buffer is empty: no more POLLOUT, writeCompleteCallback_, and the
\* shutdown that waited for it.
Drained ==
  /\ events' = events \ {"out"}
  /\ pendingFunctors' = Append(pendingFunctors, Functor("writeComplete"))
  /\ fin' = (fin \/ state = "kDisconnecting")

\* handleWrite().
HandleWrite ==
  /\ pc = "handling"
  /\ ~inCallback
  /\ "in" \notin revents
  /\ "out" \in revents
  /\ revents' = {}
  /\ \/ /\ isWriting
        /\ \E result \in WriteResults(Len(outputBuffer)) :
             \/ /\ result.errno # "none"
                /\ UNCHANGED <<outputBuffer, events, pendingFunctors, wire,
                               unsent, fin, reported>>
             \/ /\ result.errno = "none"
                /\ Written(outputBuffer, result.n)
                /\ outputBuffer' =
                     SubSeq(outputBuffer, result.n + 1, Len(outputBuffer))
                /\ reported' = (reported /\ Len(outputBuffer') >= HighWaterMark)
                /\ IF outputBuffer' = <<>>
                     THEN Drained
                     ELSE UNCHANGED <<events, pendingFunctors, fin>>
     \/ /\ ~isWriting
        /\ UNCHANGED <<outputBuffer, events, pendingFunctors, wire, unsent, fin,
                       reported>>
  /\ UNCHANGED <<state, registered, loopVars, owner, threadVars, numSent,
                 peerVars, accepted>>

CallbackReturn ==
  /\ inCallback
  /\ inCallback' = FALSE
  /\ UNCHANGED <<state, channelVars, pc, pendingFunctors, functors, ran,
                 outputBuffer, owner, threadVars, numSent, unsent, peerVars,
                 wire, fin, accepted, reported>>

-----------------------------------------------------------------------------
(***************************************************************************)
(* The loop: functors.                                                     *)
(***************************************************************************)

\* doPendingFunctors() takes the queue.
TakeFunctors ==
  /\ \/ pc = "poll" /\ pendingFunctors # <<>>
     \/ pc = "handling" /\ revents = {} /\ ~inCallback
  /\ pc' = "functors"
  /\ functors' = pendingFunctors
  /\ pendingFunctors' = <<>>
  /\ ran' = 0
  /\ UNCHANGED <<state, channelVars, inCallback, outputBuffer, owner,
                 threadVars, numSent, unsent, peerVars, wire, fin, accepted,
                 reported>>

\* The next functor of the batch.
NextFunctor(name) ==
  /\ pc = "functors"
  /\ ~inCallback
  /\ ran < Len(functors)
  /\ functors[ran + 1].name = name
  /\ ran' = ran + 1

\* sendInLoop(), for as long as there is a connection: what it would do to a
\* destroyed one is undefined, and not modelled (NoUseAfterFree).
RunSend ==
  /\ NextFunctor("send")
  /\ Alive
  /\ SendInLoop(functors[ran + 1].message)
  /\ UNCHANGED <<state, revents, pc, inCallback, functors, owner, threadVars,
                 numSent, peerVars, fin>>

\* writeCompleteCallback_ and highWaterMarkCallback_.
RunUserCallback ==
  /\ NextFunctor("writeComplete") \/ NextFunctor("highWater")
  /\ inCallback' = TRUE
  /\ UNCHANGED <<state, channelVars, pc, pendingFunctors, functors,
                 outputBuffer, owner, threadVars, numSent, unsent, peerVars,
                 wire, fin, accepted, reported>>

\* connectEstablished(): the connection callback may hand out the
\* TcpConnectionPtr.
ConnectEstablished ==
  /\ NextFunctor("connectEstablished")
  /\ state = "kConnecting"
  /\ state' = "kConnected"
  /\ events' = {"in"}
  /\ registered' = TRUE
  /\ inCallback' = TRUE
  /\ holds' = [t \in Threads |-> TRUE]
  /\ UNCHANGED <<revents, pc, pendingFunctors, functors, outputBuffer, owner,
                 call, numSent, unsent, peerVars, wire, fin, accepted, reported>>

\* The assertion of Channel::remove(), as connectDestroyed() meets it.
MayRemove == state = "kConnected" \/ events = {}

\* connectDestroyed().
ConnectDestroyed ==
  /\ NextFunctor("connectDestroyed")
  /\ MayRemove
  /\ state' = IF state = "kConnected" THEN "kDisconnected" ELSE state
  /\ events' = {}
  /\ registered' = FALSE
  /\ UNCHANGED <<revents, pc, inCallback, pendingFunctors, functors,
                 outputBuffer, owner, threadVars, numSent, unsent, peerVars,
                 wire, fin, accepted, reported>>

\* The batch is done, and its functors are destroyed.
FunctorsDone ==
  /\ pc = "functors"
  /\ ~inCallback
  /\ ran = Len(functors)
  /\ pc' = "poll"
  /\ functors' = <<>>
  /\ ran' = 0
  /\ UNCHANGED <<state, channelVars, inCallback, pendingFunctors, outputBuffer,
                 owner, threadVars, numSent, unsent, peerVars, wire, fin,
                 accepted, reported>>

\* removeConnectionInLoop() of the owner.
OwnerRemoves ==
  /\ owner = "removing"
  /\ owner' = "gone"
  /\ pendingFunctors' = Append(pendingFunctors, Functor("connectDestroyed"))
  /\ UNCHANGED <<state, channelVars, loopVars, outputBuffer, threadVars,
                 numSent, unsent, peerVars, wire, fin, accepted, reported>>

\* The destructor of the owner, in its own loop.
OwnerDies ==
  /\ OwnerMayDie
  /\ owner = "map"
  /\ owner' = "gone"
  /\ pendingFunctors' = Append(pendingFunctors, Functor("connectDestroyed"))
  /\ UNCHANGED <<state, channelVars, loopVars, outputBuffer, threadVars,
                 numSent, unsent, peerVars, wire, fin, accepted, reported>>

-----------------------------------------------------------------------------
(***************************************************************************)
(* The peer.                                                               *)
(***************************************************************************)
PeerStep ==
  /\ \/ /\ unsent > 0                              \* it reads
        /\ unsent' = unsent - 1
        /\ UNCHANGED peerVars
     \/ /\ peer = "open"                           \* it sends
        /\ numInput < MaxInput
        /\ input' = input + 1
        /\ numInput' = numInput + 1
        /\ UNCHANGED <<peer, unsent>>
     \/ /\ peer = "open"                           \* it closes or resets
        /\ peer' \in {"closed", "reset"}
        /\ UNCHANGED <<unsent, input, numInput>>
  /\ UNCHANGED <<state, channelVars, loopVars, pendingFunctors, outputBuffer,
                 owner, threadVars, numSent, wire, fin, accepted, reported>>

LoopStep ==
  \/ Poll \/ HandleRead \/ HandleWrite \/ TakeFunctors
  \/ RunSend \/ RunUserCallback \/ ConnectEstablished \/ ConnectDestroyed
  \/ FunctorsDone

Next ==
  \/ LoopStep
  \/ CallbackReturn
  \/ \E len \in Lengths : Send(len)
  \/ Shutdown
  \/ \E t \in Threads :
       \/ \E len \in Lengths : SendFrom(t, len)
       \/ SendQueues(t)
       \/ Release(t)
  \/ OwnerRemoves
  \/ OwnerDies
  \/ PeerStep

Spec == Init /\ [][Next]_vars

(***************************************************************************)
(* Fairness: the loops are scheduled, callbacks return, and the peer reads *)
(* what is sent to it.                                                     *)
(***************************************************************************)
Fairness ==
  /\ WF_vars(LoopStep)
  /\ WF_vars(CallbackReturn)
  /\ WF_vars(OwnerRemoves)
  /\ WF_vars(unsent > 0 /\ PeerStep /\ unsent' < unsent)

FairSpec == Spec /\ Fairness

-----------------------------------------------------------------------------
Bytes == Nat \X Nat
QueuedFunctor == [name : Shared \cup {"send"}, message : Seq(Bytes)]

TypeOK ==
  /\ state \in {"kConnecting", "kConnected", "kDisconnecting", "kDisconnected"}
  /\ events \subseteq {"in", "out"}
  /\ registered \in BOOLEAN
  /\ revents \subseteq {"in", "out"}
  /\ pc \in {"poll", "handling", "functors"}
  /\ outputBuffer \in Seq(Bytes)
  /\ wire \in Seq(Bytes)
  /\ accepted \in Seq(Bytes)
  /\ unsent \in 0 .. SocketBuffer
  /\ numSent \in Nat
  /\ ran \in Nat
  /\ call \in [Threads -> Seq(Bytes)]
  /\ functors \in Seq(QueuedFunctor)
  /\ pendingFunctors \in Seq(QueuedFunctor)
  /\ fin \in BOOLEAN
  /\ reported \in BOOLEAN

\* The book-keeping of the output buffer: the channel waits for POLLOUT
\* exactly when there is something to write, until the connection is closed;
\* what was accepted is what was written and what is in the buffer, in that
\* order; and the stream is finished only when the buffer is empty.  When
\* handleRead() is called the connection is not closed yet, which is what
\* handleClose() asserts.
OutputInv ==
  /\ TypeOK
  /\ state # "kDisconnected" => (isWriting <=> outputBuffer # <<>>)
  /\ state = "kDisconnected" => events = {}
  /\ accepted = wire \o outputBuffer
  /\ fin => outputBuffer = <<>>
  /\ "in" \in revents => state \in {"kConnected", "kDisconnecting"}

\* The messages accepted by sendInLoop() reach the socket whole and in order
\* and the end of the stream follows the last of them.
Stream == INSTANCE ByteStream

ImplementsByteStream == Stream!Spec

\* The high water mark is reported exactly once each time that the buffer
\* reaches it from below.
HighWaterReported == reported <=> Len(outputBuffer) >= HighWaterMark

\* What makes OutputInv inductive: before connectEstablished() nothing has
\* been sent, or is about to be, and events are left over only while they are
\* being handled.
ConnectionInv ==
  /\ OutputInv
  /\ HighWaterReported
  /\ state = "kConnecting" =>
       /\ events = {}
       /\ outputBuffer = <<>>
       /\ \A t \in Threads : call[t] = <<>>
       /\ \A i \in DOMAIN pendingFunctors : pendingFunctors[i].name # "send"
       /\ \A i \in DOMAIN functors : functors[i].name # "send"
  /\ pc # "handling" => revents = {}

\* No functor touches a destroyed connection.
NoUseAfterFree ==
  pc = "functors" /\ ran < Len(functors) => Alive

\* connectDestroyed() is about to remove a channel that is still interested in
\* events, and the assertion of Channel::remove() stops the program: the owner
\* was destroyed between shutdown() and the close of the peer.
RemoveAborts ==
  pc = "functors" /\ ran < Len(functors)
    /\ functors[ran + 1].name = "connectDestroyed" /\ ~MayRemove

\* After shutdown() the stream is finished or the connection is closed, unless
\* the destructor of the owner comes first (and aborts, see RemoveAborts).
ShutdownCompletes ==
  (state = "kDisconnecting") ~> (fin \/ state = "kDisconnected" \/ RemoveAborts)

\* A closed connection is removed from the poller and given up by its owner.
ClosedIsRemoved ==
  (state = "kDisconnected") ~> (~registered /\ owner = "gone")

\* shutdown() and handleClose() come to their end: ShutdownCompletes and
\* ClosedIsRemoved.
ClosesInTheEnd == ShutdownCompletes /\ ClosedIsRemoved
=============================================================================
