--------------------------- MODULE IdleConnections ---------------------------
(***************************************************************************)
(* The echo servers that limit their connections:                          *)
(*   examples/maxconnection/echo.cc            "max"    their number       *)
(*   examples/idleconnection/echo.{h,cc}       "wheel"  a circular buffer  *)
(*   examples/idleconnection/sortedlist.cc     "list"   a list by time     *)
(* of which the last two shut down a connection that is silent.            *)
(*                                                                         *)
(* Two clocks matter: Timestamp::now(), and the time at which poll()       *)
(* returned, which the message callback gets.                              *)
(***************************************************************************)
EXTENDS Connections

CONSTANTS
  idleSeconds,
  kMaxConnections,
  MaxRound,        \* how long after poll() a callback may run
  MaxTime          \* bound

\* buckets: the connections whose entries are in a bucket, the oldest first; an
\* entry lives as long as it is in some bucket.  last: lastReceiveTime.  idle
\* counts the calls of onTimer() since a connection was heard.
Init(kind) ==
  /\ ConnectionsInit
  /\ app = [kind |-> kind, now |-> MaxRound, polled |-> MaxRound, jumped |-> FALSE, timer |-> 0,
            numConnected |-> 0, buckets |-> [i \in 1 .. idleSeconds |-> {}],
            list |-> <<>>, last |-> [c \in Conns |-> 0], idle |-> [c \in Conns |-> 0]]

Rest == UNCHANGED <<sent, queue>>

-----------------------------------------------------------------------------
\* A limit that is compared with the number before.
onConnectionOneMore(c) ==
  \/ /\ conn[c] = "none"
     /\ conn' = [conn EXCEPT ![c] =
                   IF app.numConnected > kMaxConnections THEN "closing" ELSE "up"]
     /\ app' = [app EXCEPT !.numConnected = @ + 1]
  \/ Lose(c) /\ app' = [app EXCEPT !.numConnected = @ - 1]

onConnectionMax(c) ==
  LET connected == app.numConnected + 1
  IN  \/ /\ conn[c] = "none"
         /\ conn' = [conn EXCEPT ![c] = IF connected > kMaxConnections THEN "closing" ELSE "up"]
         /\ app' = [app EXCEPT !.numConnected = connected]
      \/ Lose(c) /\ app' = [app EXCEPT !.numConnected = @ - 1]

-----------------------------------------------------------------------------
\* The wheel.  A connection that is down leaves its entry where it is.
onConnectionWheel(c) ==
  \/ Establish(c) /\ app' = [app EXCEPT !.buckets[idleSeconds] = @ \cup {c}]
  \/ Lose(c) /\ UNCHANGED app

Alive(buckets, c) == \E i \in 1 .. idleSeconds : c \in buckets[i]

\* A message that counts for nothing when the entry is in the wheel already.
onMessageIgnored(c) == app' = [app EXCEPT !.idle[c] = 0]

onMessageWheel(c) ==
  app' = IF Alive(app.buckets, c)
         THEN [app EXCEPT !.buckets[idleSeconds] = @ \cup {c}, !.idle[c] = 0] ELSE app

\* push_back() into a full buffer drops the front; ~Entry() calls shutdown().
onTimerWheel ==
  LET pushed == Append(Tail(app.buckets), {})
  IN  /\ app' = [app EXCEPT !.buckets = pushed, !.timer = @ + 1,
                            !.idle = [c \in Conns |-> @[c] + (IF conn[c] = "up" THEN 1 ELSE 0)]]
      /\ conn' = [c \in Conns |->
                    IF conn[c] = "up" /\ Alive(app.buckets, c) /\ ~Alive(pushed, c)
                    THEN "closing" ELSE conn[c]]

-----------------------------------------------------------------------------
\* The list, whose iterators the contexts of the connections hold.
onConnectionList(c) ==
  \/ Establish(c) /\ app' = [app EXCEPT !.list = Append(@, c), !.last[c] = app.now]
  \/ Lose(c) /\ app' = [app EXCEPT !.list = Remove(@, c)]

onMessageList(c) ==
  app' = [app EXCEPT !.last[c] = app.polled, !.list = Append(Remove(@, c), c)]

\* The loop goes on after a connection that is too old, or whose time is yet to
\* come; the one where it ends is neither.
Age(c) == app.now - app.last[c]
InTime(c) == Age(c) \in 0 .. idleSeconds
onTimerList ==
  LET stop == {i \in DOMAIN app.list : InTime(app.list[i])}
      visited == ToSet(IF stop = {} THEN app.list ELSE SubSeq(app.list, 1, Min(stop) - 1))
  IN  /\ conn' = [c \in Conns |-> IF c \in visited /\ Age(c) > idleSeconds /\ conn[c] = "up"
                                  THEN "closing" ELSE conn[c]]
      /\ app' = [app EXCEPT !.timer = app.now,
                   !.last = [c \in Conns |-> IF c \in visited /\ Age(c) < 0
                                             THEN app.now ELSE @[c]]]

-----------------------------------------------------------------------------
Connection(c) ==
  /\ CASE app.kind = "max" -> onConnectionMax(c)
       [] app.kind = "wheel" -> onConnectionWheel(c)
       [] app.kind = "list" -> onConnectionList(c)
  /\ Rest

\* The echo itself, send(), is left out.
Message(c) ==
  /\ Open(c)
  /\ CASE app.kind = "max" -> UNCHANGED app
       [] app.kind = "wheel" -> onMessageWheel(c)
       [] app.kind = "list" -> onMessageList(c)
  /\ UNCHANGED conn /\ Rest

Timer ==
  /\ \/ app.kind = "wheel" /\ app.timer < MaxTime /\ onTimerWheel
     \/ app.kind = "list" /\ onTimerList
  /\ Rest

Poll ==
  /\ app.kind = "list" /\ app' = [app EXCEPT !.polled = app.now]
  /\ UNCHANGED conn /\ Rest

TimePasses ==
  /\ app.kind = "list" /\ app.now < MaxTime /\ app.now < app.polled + MaxRound
  /\ app' = [app EXCEPT !.now = @ + 1]
  /\ UNCHANGED conn /\ Rest

\* The wall clock is set back, once.
TimeJumps ==
  /\ app.kind = "list" /\ ~app.jumped
  /\ app' = [app EXCEPT !.now = @ - MaxRound, !.jumped = TRUE]
  /\ UNCHANGED conn /\ Rest

Next == \/ \E c \in Conns : Connection(c) \/ Message(c)
        \/ Timer \/ Poll \/ TimePasses \/ TimeJumps

-----------------------------------------------------------------------------
\* The wheel shuts down a connection at the idleSeconds-th tick without a
\* message, and not before; the list at the first tick that finds it silent for
\* longer, up to the time that a round of callbacks may take, or that the clock is
\* set back: these put it behind a connection that was heard later.
IdleIsClosed ==
  \A c \in Conns :
    /\ app.kind = "wheel" => /\ conn[c] = "up" => app.idle[c] < idleSeconds
                             /\ conn[c] = "closing" => app.idle[c] = idleSeconds
    /\ (app.kind = "list" /\ conn[c] = "up") =>
         app.timer - app.last[c] <= idleSeconds + MaxRound

\* The list has the open connections, each once.
ListHasTheOpen ==
  app.kind = "list" => /\ ToSet(app.list) = {c \in Conns : Open(c)}
                       /\ Len(app.list) = Cardinality(ToSet(app.list))

\* No more connections are served than the limit, and each that ends makes room.
AtMostTheLimit ==
  app.kind = "max" =>
    /\ app.numConnected = Cardinality({c \in Conns : Open(c)})
    /\ Cardinality({c \in Conns : conn[c] = "up"}) <= kMaxConnections
=============================================================================
