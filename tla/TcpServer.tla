----------------------------- MODULE TcpServer ------------------------------
(***************************************************************************)
(* muduo/net/TcpServer.{h,cc} and EventLoopThreadPool.{h,cc}: a server     *)
(* whose connections live in several event loops.                          *)
(*                                                                         *)
(* The accepting loop (base) owns the map of the connections and accepts;  *)
(* each connection belongs to one I/O loop, which establishes it, handles  *)
(* its events and destroys it.  The loops talk through their queues of     *)
(* functors, which are taken in batches and run in order.  A connection    *)
(* exists for as long as the map or a functor refers to it; the server     *)
(* itself is referred to by plain pointers.                                *)
(*                                                                         *)
(* A connection is reduced to its life: TcpConnection models the rest.     *)
(***************************************************************************)
EXTENDS Integers, Sequences, FiniteSets

CONSTANTS
  MaxThreads,       \* bound: threads of the pool
  MaxConnections,   \* bound: connections accepted
  Callers           \* the threads that call start(); base is one of them

base == 0
Loops == base .. MaxThreads
Conns == 1 .. MaxConnections

ASSUME ServerAssumption ==
  /\ MaxThreads \in Nat /\ MaxConnections \in Nat
  /\ base \in Callers

VARIABLES
  numThreads,       \* numThreads_ of the EventLoopThreadPool
  started,          \* started_
  caller,           \* where a thread is in start(); each calls it once
  poolStarted,      \* started_ of the EventLoopThreadPool
  listenning,       \* listenning_ of the Acceptor
  next,             \* next_ of the EventLoopThreadPool
  nextConnId,       \* nextConnId_
  connections,      \* connections_
  server,           \* up, dying (in its destructor), or dead
  pc,               \* of a loop: poll, functors, exited
  quit,             \* quit_ of a loop
  pendingFunctors,  \* of a loop
  functors,         \* of a loop: the batch being run
  ran,              \* of a loop: how many functors of the batch have been run
  state,            \* state_ of a connection, or none
  loopOf,           \* getLoop() of a connection
  registered,       \* is the channel of the connection in the poller?
  closed,           \* has the peer closed the connection?
  ups, downs        \* history: how often the connection callback reported the
                    \* connection up and down

startVars == <<numThreads, started, caller, poolStarted>>
poolVars == <<next, nextConnId, connections>>
loopVars == <<pc, quit, functors, ran>>
connVars == <<state, loopOf, registered, closed, ups, downs>>
vars == <<startVars, listenning, poolVars, server, loopVars, pendingFunctors,
          connVars>>

Functor(name, i) == [name |-> name, conn |-> i]

Init ==
  /\ numThreads = 0
  /\ started = FALSE
  /\ caller = [t \in Callers |-> "not yet"]
  /\ poolStarted = FALSE
  /\ listenning = FALSE
  /\ next = 0
  /\ nextConnId = 1
  /\ connections = {}
  /\ server = "up"
  /\ pc = [l \in Loops |-> "poll"]
  /\ quit = [l \in Loops |-> FALSE]
  /\ pendingFunctors = [l \in Loops |-> <<>>]
  /\ functors = [l \in Loops |-> <<>>]
  /\ ran = [l \in Loops |-> 0]
  /\ state = [i \in Conns |-> "none"]
  /\ loopOf = [i \in Conns |-> base]
  /\ registered = [i \in Conns |-> FALSE]
  /\ closed = [i \in Conns |-> FALSE]
  /\ ups = [i \in Conns |-> 0]
  /\ downs = [i \in Conns |-> 0]

-----------------------------------------------------------------------------
(***************************************************************************)
(* start().                                                                *)
(***************************************************************************)

\* Is the thread not in start()?
Outside(t) == caller[t] \in {"not yet", "done"}

\* Is the base loop about to call a handler, or user code?
BaseFree == pc[base] = "poll" /\ server = "up" /\ Outside(base)

\* setThreadNum(): "Must be called before start".
SetThreadNum(n) ==
  /\ BaseFree
  /\ ~started /\ \A t \in Callers : caller[t] = "not yet"
  /\ numThreads' = n
  /\ UNCHANGED <<started, caller, poolStarted, listenning, poolVars, server,
                 loopVars, pendingFunctors, connVars>>

\* started_ is tested.  The first call is in the thread of base, and no other
\* comes before it has set started_: EventLoopThreadPool::start() asserts so ...
StartCheck(t) ==
  /\ caller[t] = "not yet"
  /\ server = "up"
  /\ t = base => BaseFree
  /\ started \/ t = base
  /\ caller' = [caller EXCEPT ![t] = IF started THEN "listen" ELSE "set"]
  /\ UNCHANGED <<numThreads, started, poolStarted, listenning, poolVars, server, loopVars,
                 pendingFunctors, connVars>>

\* ... and set ...
StartSet(t) ==
  /\ caller[t] = "set"
  /\ started' = TRUE
  /\ caller' = [caller EXCEPT ![t] = "pool"]
  /\ UNCHANGED <<numThreads, poolStarted, listenning, poolVars, server, loopVars,
                 pendingFunctors, connVars>>

\* The assertions of EventLoopThreadPool::start().
MayStartPool(t) == ~poolStarted /\ t = base

\* ... and the pool is started: its threads run their loops ...
StartPool(t) ==
  /\ caller[t] = "pool"
  /\ MayStartPool(t)
  /\ poolStarted' = TRUE
  /\ caller' = [caller EXCEPT ![t] = "listen"]
  /\ UNCHANGED <<numThreads, started, listenning, poolVars, server, loopVars,
                 pendingFunctors, connVars>>

\* ... and listen() is run, or queued.
StartListen(t) ==
  /\ caller[t] = "listen"
  /\ caller' = [caller EXCEPT ![t] = "done"]
  /\ \/ /\ listenning
        /\ UNCHANGED <<listenning, pendingFunctors>>
     \/ /\ ~listenning
        /\ t = base
        /\ listenning' = TRUE
        /\ UNCHANGED pendingFunctors
     \/ /\ ~listenning
        /\ t # base
        /\ pendingFunctors' = [pendingFunctors EXCEPT ![base] =
                                 Append(@, Functor("listen", 0))]
        /\ UNCHANGED listenning
  /\ UNCHANGED <<numThreads, started, poolStarted, poolVars, server, loopVars, connVars>>

-----------------------------------------------------------------------------
(***************************************************************************)
(* What is done to a connection in its I/O loop.                           *)
(***************************************************************************)

\* connectEstablished().
ConnectEstablished(i) ==
  /\ state' = [state EXCEPT ![i] = "kConnected"]
  /\ registered' = [registered EXCEPT ![i] = TRUE]
  /\ ups' = [ups EXCEPT ![i] = @ + 1]

\* The connections of cs that connectDestroyed() reports down: those that
\* handleClose() has not.
Undone(cs) == {i \in cs : state[i] = "kConnected"}

\* connectDestroyed(), of the connections cs.
ConnectDestroyed(cs) ==
  /\ state' = [i \in Conns |-> IF i \in Undone(cs) THEN "kDisconnected" ELSE state[i]]
  /\ downs' = [i \in Conns |-> IF i \in Undone(cs) THEN downs[i] + 1 ELSE downs[i]]
  /\ registered' = [i \in Conns |-> registered[i] /\ i \notin cs]

\* removeConnectionInLoop() that only erases the connection from the map.
EraseOnly(i) == connections' = connections \ {i} /\ UNCHANGED pendingFunctors

\* removeConnectionInLoop().
RemoveConnectionInLoop(i) ==
  /\ connections' = connections \ {i}
  /\ pendingFunctors' = [pendingFunctors EXCEPT ![loopOf[i]] =
                           Append(@, Functor("connectDestroyed", i))]

\* A close callback that does nothing.
RemoveForgotten(i) == UNCHANGED <<connections, pendingFunctors>>

\* removeConnection(), in the loop of the connection.
RemoveConnection(i) ==
  \/ loopOf[i] = base /\ RemoveConnectionInLoop(i)
  \/ /\ loopOf[i] # base
     /\ pendingFunctors' = [pendingFunctors EXCEPT ![base] =
                              Append(@, Functor("removeConnection", i))]
     /\ UNCHANGED connections

\* handleClose() that leaves the connection as it is.
CloseNothing(i) == UNCHANGED <<state, downs>>

\* handleClose(): kDisconnected, no more events, and the user is told.
CloseConnection(i) ==
  /\ state' = [state EXCEPT ![i] = "kDisconnected"]
  /\ downs' = [downs EXCEPT ![i] = @ + 1]

\* The peer closes the connection ...
PeerCloses(i) ==
  /\ state[i] # "none"
  /\ ~closed[i]
  /\ closed' = [closed EXCEPT ![i] = TRUE]
  /\ UNCHANGED <<startVars, listenning, poolVars, server, loopVars,
                 pendingFunctors, state, loopOf, registered, ups, downs>>

\* ... and its loop handles that; the close callback is removeConnection().
HandleClose(i) ==
  /\ closed[i]
  /\ registered[i]
  /\ state[i] = "kConnected"
  /\ pc[loopOf[i]] = "poll"
  /\ loopOf[i] = base => BaseFree
  /\ CloseConnection(i)
  /\ RemoveConnection(i)
  /\ UNCHANGED <<startVars, listenning, next, nextConnId, server, loopVars,
                 loopOf, registered, closed, ups>>

-----------------------------------------------------------------------------
(***************************************************************************)
(* newConnection().                                                        *)
(***************************************************************************)

\* The next value of next_.
Following(n) == IF n + 1 >= numThreads THEN 0 ELSE n + 1

\* getNextLoop().
NextLoop == IF numThreads = 0 THEN base ELSE next + 1

\* handleRead() of the Acceptor calls newConnection().
NewConnection ==
  /\ BaseFree
  /\ listenning
  /\ nextConnId <= MaxConnections
  /\ LET i == nextConnId
     IN  /\ nextConnId' = i + 1
         /\ next' = IF numThreads = 0 THEN next ELSE Following(next)
         /\ connections' = connections \cup {i}
         /\ loopOf' = [loopOf EXCEPT ![i] = NextLoop]
         /\ \/ /\ NextLoop = base
               /\ ConnectEstablished(i)
               /\ UNCHANGED pendingFunctors
            \/ /\ NextLoop # base
               /\ state' = [state EXCEPT ![i] = "kConnecting"]
               /\ pendingFunctors' = [pendingFunctors EXCEPT ![NextLoop] =
                                        Append(@, Functor("connectEstablished", i))]
               /\ UNCHANGED <<registered, ups>>
  /\ UNCHANGED <<startVars, listenning, server, loopVars, closed, downs>>

-----------------------------------------------------------------------------
(***************************************************************************)
(* The loops run their functors.                                           *)
(***************************************************************************)

\* May the thread of the loop run?  That of base is in the destructor, or in
\* start(), otherwise.
MayRun(l) == l = base => server # "dying" /\ Outside(base)

\* quit() that does not wake the loop.
AwakeByFunctor(l) == pendingFunctors[l] # <<>>

\* poll() is left when there is a functor or when the loop is told to quit.
Awake(l) == pendingFunctors[l] # <<>> \/ quit[l]

\* doPendingFunctors() takes the queue.
TakeFunctors(l) ==
  /\ pc[l] = "poll"
  /\ MayRun(l)
  /\ Awake(l)
  /\ pc' = [pc EXCEPT ![l] = "functors"]
  /\ functors' = [functors EXCEPT ![l] = pendingFunctors[l]]
  /\ pendingFunctors' = [pendingFunctors EXCEPT ![l] = <<>>]
  /\ UNCHANGED <<startVars, listenning, poolVars, server, quit, ran, connVars>>

\* The next functor of the batch of a loop.
IsNext(l, name, i) ==
  /\ pc[l] = "functors"
  /\ ran[l] < Len(functors[l])
  /\ functors[l][ran[l] + 1] = Functor(name, i)

RunFunctor(l, i) ==
  /\ MayRun(l)
  /\ \/ /\ IsNext(l, "connectEstablished", i)
        /\ ConnectEstablished(i)
        /\ UNCHANGED <<connections, pendingFunctors, downs>>
     \/ /\ IsNext(l, "connectDestroyed", i)
        /\ ConnectDestroyed({i})
        /\ UNCHANGED <<connections, pendingFunctors, ups>>
     \/ /\ IsNext(l, "removeConnection", i)
        /\ server # "dead"          \* else undefined
        /\ RemoveConnectionInLoop(i)
        /\ UNCHANGED <<state, registered, ups, downs>>
  /\ ran' = [ran EXCEPT ![l] = @ + 1]
  /\ UNCHANGED <<startVars, listenning, next, nextConnId, server, pc, quit,
                 functors, loopOf, closed>>

\* listen(), queued by start() in another thread.
RunListen ==
  /\ MayRun(base)
  /\ IsNext(base, "listen", 0)
  /\ server # "dead"
  /\ listenning' = TRUE
  /\ ran' = [ran EXCEPT ![base] = @ + 1]
  /\ UNCHANGED <<startVars, poolVars, server, pc, quit, functors,
                 pendingFunctors, connVars>>

\* The batch is done, and quit_ is tested.  A loop that ends takes its poller
\* and the functors left in its queue with it.
FunctorsDone(l) ==
  /\ pc[l] = "functors"
  /\ ran[l] = Len(functors[l])
  /\ pc' = [pc EXCEPT ![l] = IF quit[l] THEN "exited" ELSE "poll"]
  /\ functors' = [functors EXCEPT ![l] = <<>>]
  /\ ran' = [ran EXCEPT ![l] = 0]
  /\ pendingFunctors' = IF quit[l] THEN [pendingFunctors EXCEPT ![l] = <<>>]
                                   ELSE pendingFunctors
  /\ registered' = [i \in Conns |-> registered[i] /\ ~(quit[l] /\ loopOf[i] = l)]
  /\ UNCHANGED <<startVars, listenning, poolVars, server, quit, state, loopOf,
                 closed, ups, downs>>

-----------------------------------------------------------------------------
(***************************************************************************)
(* The destructor, in the thread of the base loop.                         *)
(***************************************************************************)
Destroy ==
  /\ BaseFree
  /\ \A t \in Callers : Outside(t)
  /\ server' = "dying"
  /\ UNCHANGED <<startVars, listenning, poolVars, loopVars, pendingFunctors,
                 connVars>>

\* Every connection of the map is destroyed in its loop ...
DestroyConnection(i) ==
  /\ server = "dying"
  /\ i \in connections
  /\ \A j \in connections : i <= j
  /\ connections' = connections \ {i}
  /\ IF loopOf[i] = base
       THEN ConnectDestroyed({i}) /\ UNCHANGED pendingFunctors
       ELSE /\ pendingFunctors' = [pendingFunctors EXCEPT ![loopOf[i]] =
                                     Append(@, Functor("connectDestroyed", i))]
            /\ UNCHANGED <<state, registered, downs>>
  /\ UNCHANGED <<startVars, listenning, next, nextConnId, server, loopVars,
                 loopOf, closed, ups>>

\* ... then the threads of the pool are told to quit and joined, in turn ...
QuitLoop(l) ==
  /\ server = "dying"
  /\ connections = {}
  /\ poolStarted
  /\ l \in 1 .. numThreads
  /\ ~quit[l]
  /\ \A k \in 1 .. l - 1 : pc[k] = "exited"
  /\ quit' = [quit EXCEPT ![l] = TRUE]
  /\ UNCHANGED <<startVars, listenning, poolVars, server, pc, functors, ran,
                 pendingFunctors, connVars>>

\* ... and the acceptor leaves the poller.
Destroyed ==
  /\ server = "dying"
  /\ connections = {}
  /\ poolStarted => \A l \in 1 .. numThreads : pc[l] = "exited"
  /\ server' = "dead"
  /\ listenning' = FALSE
  /\ UNCHANGED <<startVars, poolVars, loopVars, pendingFunctors, connVars>>

-----------------------------------------------------------------------------
LoopStep(l) ==
  \/ TakeFunctors(l)
  \/ \E i \in Conns : RunFunctor(l, i)
  \/ FunctorsDone(l)
  \/ \E i \in Conns : loopOf[i] = l /\ HandleClose(i)

StartStep(t) == StartCheck(t) \/ StartSet(t) \/ StartPool(t) \/ StartListen(t)

DtorStep ==
  \/ \E i \in Conns : DestroyConnection(i)
  \/ \E l \in Loops : QuitLoop(l)
  \/ Destroyed

Next ==
  \/ \E n \in 1 .. MaxThreads : SetThreadNum(n)
  \/ \E t \in Callers : StartStep(t)
  \/ NewConnection
  \/ \E l \in Loops : LoopStep(l)
  \/ RunListen
  \/ \E i \in Conns : PeerCloses(i)
  \/ Destroy
  \/ DtorStep

Spec == Init /\ [][Next]_vars

(***************************************************************************)
(* Fairness: the threads of the loops are scheduled.                       *)
(***************************************************************************)
Fairness ==
  /\ \A l \in Loops : WF_vars(LoopStep(l))
  /\ WF_vars(RunListen)
  /\ \A t \in Callers : WF_vars(StartSet(t) \/ StartPool(t) \/ StartListen(t))
  /\ WF_vars(DtorStep)

FairSpec == Spec /\ Fairness

-----------------------------------------------------------------------------
QueuedFunctor == [name : {"listen", "connectEstablished", "connectDestroyed",
                          "removeConnection"},
                  conn : Conns \cup {0}]

TypeOK ==
  /\ started \in BOOLEAN /\ poolStarted \in BOOLEAN /\ listenning \in BOOLEAN
  /\ caller \in [Callers -> {"not yet", "set", "pool", "listen", "done"}]
  /\ numThreads \in 0 .. MaxThreads
  /\ next \in 0 .. MaxThreads
  /\ nextConnId \in 1 .. MaxConnections + 1
  /\ connections \subseteq Conns
  /\ server \in {"up", "dying", "dead"}
  /\ pc \in [Loops -> {"poll", "functors", "exited"}]
  /\ quit \in [Loops -> BOOLEAN]
  /\ pendingFunctors \in [Loops -> Seq(QueuedFunctor)]
  /\ functors \in [Loops -> Seq(QueuedFunctor)]
  /\ ran \in [Loops -> Nat]
  /\ state \in [Conns -> {"none", "kConnecting", "kConnected", "kDisconnected"}]
  /\ loopOf \in [Conns -> Loops]
  /\ registered \in [Conns -> BOOLEAN] /\ closed \in [Conns -> BOOLEAN]
  /\ ups \in [Conns -> Nat] /\ downs \in [Conns -> Nat]

\* Does a functor, run or not, refer to the connection?
Referred(i) ==
  \E l \in Loops : \/ \E k \in DOMAIN functors[l] : functors[l][k].conn = i
                   \/ \E k \in DOMAIN pendingFunctors[l] : pendingFunctors[l][k].conn = i

Alive(i) == i \in connections \/ Referred(i)

\* How often a functor is in a queue, from the place first on.
Count(queue, first, f) == Cardinality({k \in first .. Len(queue) : queue[k] = f})

\* How many functors of that name loop l has still to run for the connection: of
\* the batch, and of those that are pending.
Owed(l, name, i) ==
  Count(functors[l], ran[l] + 1, Functor(name, i))
    + Count(pendingFunctors[l], 1, Functor(name, i))

\* The map and the queues tell one story about each connection: it is
\* established once, and while it is in the map at most one removal is on its
\* way, so that removeConnectionInLoop() always finds it (assert(n == 1)); when
\* it is not in the map, exactly one connectDestroyed() is, or has been run.
\* Whatever is on its way is on its way to the loop it belongs to.
LifeInv ==
  /\ TypeOK
  /\ server # "dead" => \A i \in Conns : LET l == loopOf[i] IN
       /\ i \in connections =>
            /\ Owed(l, "connectEstablished", i) = (IF state[i] = "kConnecting" THEN 1 ELSE 0)
            /\ Owed(base, "removeConnection", i) =
                 (IF state[i] = "kDisconnected" THEN 1 ELSE 0)
            /\ Owed(l, "connectDestroyed", i) = 0
       /\ i \notin connections /\ registered[i] =>
            /\ Owed(l, "connectDestroyed", i) = 1
            /\ server = "up" => Owed(base, "removeConnection", i) = 0

\* The connection callback reports a connection up once and then down once,
\* whether it is closed by the peer, by the server or by both at once; and when
\* the connection is destroyed it has been reported down, and no poller has its
\* channel.  In the destructor of the server this holds if there are no other
\* threads: a loop that finds quit_ set after a batch drops the
\* connectDestroyed() that the destructor has just queued.
UpThenDown ==
  \A i \in Conns :
    /\ downs[i] <= ups[i] /\ ups[i] <= 1
    /\ (server = "up" \/ numThreads = 0) /\ state[i] # "none" /\ ~Alive(i)
         => ~registered[i] /\ downs[i] = ups[i]

\* While the server exists, a connection that its peer closed is removed from
\* the map, and destroyed, through the queues of both loops.
ClosedIsDestroyed == \A i \in Conns : closed[i] ~> ~Alive(i) \/ server = "dead"

\* The destructor returns: the threads are joined.
DestructorReturns == (server = "dying") ~> (server = "dead")

\* In every interleaving of the base loop and the I/O loops a connection is
\* established, removed and destroyed once, and reported up once and then down
\* once, unless its connectDestroyed() is dropped when the server is destroyed
\* (newConnection(), removeConnection(), ~TcpServer()): LifeInv and UpThenDown.
ConnectionsLiveOnce == LifeInv /\ UpThenDown

\* Connections that are closed are destroyed, and ~TcpServer() returns:
\* ClosedIsDestroyed and DestructorReturns.
ServerWindsUp == ClosedIsDestroyed /\ DestructorReturns
=============================================================================
