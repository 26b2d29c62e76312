----------------------------- MODULE TcpClient ------------------------------
(***************************************************************************)
(* muduo/net/TcpClient.{h,cc}: a client that keeps one connection to a     *)
(* server, made by its Connector.                                          *)
(*                                                                         *)
(* The loop polls, handles what poll() reported (the connector's channel,  *)
(* connections that close, timers that are due), calls user code, and runs *)
(* its functors.  User code in the loop calls the client as a whole;       *)
(* another thread does it step by step.                                    *)
(*                                                                         *)
(* The contract that the assertions of the code ask for is kept: connect() *)
(* is called once, callbacks call stop() when the connector's channel is   *)
(* not waiting to be handled (EventLoop::removeChannel()), and the client  *)
(* is destroyed in its loop when no functor refers to the connector.       *)
(***************************************************************************)
EXTENDS Connector, FiniteSets

CONSTANT Conns      \* identities of connections, for use and reuse

ASSUME ConnsAssumption == Conns \subseteq Nat \ {0} /\ IsFiniteSet(Conns)

VARIABLES
  retry,            \* retry_
  wanted,           \* connect_ of the TcpClient
  connection,       \* connection_, or 0
  client,           \* alive or dead
  connectorRefs,    \* does anything own the connector?
  conns,            \* of a connection: none, up, shut (down by us), closed
  closeCallback,    \* of a connection: closeCallback_, client or detail
  call,             \* the call of the other thread: its name and next step
  called,           \* the calls that were made
  pc,               \* of the loop: poll, handling, restart, functors
  active,           \* what poll() reported: connections, and 0 for channel_
  due,              \* timers of the connector that have expired
  functors, ran     \* the batch of functors, and how many have been run

clientVars == <<retry, wanted, connection, client, connectorRefs, closeCallback>>
userVars == <<call, called>>
loopVars == <<pc, active, due, functors, ran>>
vars == <<connect, attempt, pendingFunctors, clientVars, conns, userVars, loopVars>>

Init ==
  /\ ConnectorInit
  /\ retry = FALSE
  /\ wanted = TRUE
  /\ connection = 0
  /\ client = "alive"
  /\ connectorRefs = TRUE
  /\ conns = [i \in Conns |-> "none"]
  /\ closeCallback = [i \in Conns |-> "client"]
  /\ call = <<"none", 0>>
  /\ called = {}
  /\ pc = "poll"
  /\ active = {}
  /\ due = 0
  /\ functors = <<>>
  /\ ran = 0

-----------------------------------------------------------------------------
(***************************************************************************)
(* Calls of user code in the loop.                                         *)
(***************************************************************************)
InCallback == ~aborted /\ client = "alive" /\ pc \in {"handling", "functors"}

MayCall(name) == name \notin called /\ called' = called \cup {name} /\ UNCHANGED call

\* connect().
ConnectInLoop ==
  /\ InCallback
  /\ MayCall("connect")
  /\ wanted' = TRUE
  /\ connect' = TRUE
  /\ StartInLoop(state, TRUE, retryDelayMs)
  /\ UNCHANGED <<pendingFunctors, retry, connection, client, connectorRefs,
                 closeCallback, conns, loopVars>>

\* stop().
StopInCallback ==
  /\ InCallback
  /\ 0 \notin active
  /\ MayCall("stop")
  /\ wanted' = FALSE
  /\ connect' = FALSE
  /\ StopInLoop(FALSE)
  /\ UNCHANGED <<retry, connection, client, connectorRefs, closeCallback, conns,
                 loopVars>>

\* The connection is shut down, if there is one.
ShutDown == [i \in Conns |-> IF i = connection /\ conns[i] = "up" THEN "shut" ELSE conns[i]]

\* disconnect().
DisconnectInLoop ==
  /\ InCallback
  /\ MayCall("disconnect")
  /\ wanted' = FALSE
  /\ conns' = ShutDown
  /\ UNCHANGED <<connect, attempt, pendingFunctors, retry, connection, client,
                 connectorRefs, closeCallback, loopVars>>

\* enableRetry().
EnableRetry ==
  /\ InCallback
  /\ ~retry
  /\ retry' = TRUE
  /\ UNCHANGED <<connect, attempt, pendingFunctors, wanted, connection, client,
                 connectorRefs, closeCallback, conns, userVars, loopVars>>

\* Is there a functor with a plain pointer to the connector?
Bound(f) == f.name \in {"startInLoop", "stopInLoop", "resetChannel"}
ConnectorQueued ==
  \/ \E i \in DOMAIN pendingFunctors : Bound(pendingFunctors[i])
  \/ \E i \in ran + 1 .. Len(functors) : Bound(functors[i])

\* A destructor that leaves the close callback as it is.
DestroyKeepsCallback ==
  /\ InCallback
  /\ 0 \notin active
  /\ call[1] = "none"
  /\ ~ConnectorQueued
  /\ connection # 0
  /\ client' = "dead"
  /\ connectorRefs' = FALSE
  /\ UNCHANGED <<connect, attempt, pendingFunctors, retry, wanted, connection,
                 closeCallback, conns, userVars, loopVars>>

\* ~TcpClient() with a connection: the connection goes on without the client,
\* and the connector goes with it.
DestroyConnected ==
  /\ InCallback
  /\ 0 \notin active
  /\ call[1] = "none"
  /\ ~ConnectorQueued
  /\ connection # 0
  /\ client' = "dead"
  /\ connectorRefs' = FALSE
  /\ closeCallback' = [closeCallback EXCEPT ![connection] = "detail"]
  /\ UNCHANGED <<connect, attempt, pendingFunctors, retry, wanted, connection,
                 conns, userVars, loopVars>>

\* A destructor that does not keep the connector.
DestroyAtOnce ==
  /\ InCallback
  /\ 0 \notin active
  /\ call[1] = "none"
  /\ ~ConnectorQueued
  /\ connection = 0
  /\ client' = "dead"
  /\ connectorRefs' = FALSE
  /\ connect' = FALSE
  /\ StopInLoop(FALSE)
  /\ UNCHANGED <<retry, wanted, connection, closeCallback, conns, userVars, loopVars>>

\* ~TcpClient() without one: the connector is stopped, and kept for a second.
DestroyUnconnected ==
  /\ InCallback
  /\ 0 \notin active
  /\ call[1] = "none"
  /\ ~ConnectorQueued
  /\ connection = 0
  /\ client' = "dead"
  /\ connect' = FALSE
  /\ StopInLoop(FALSE)
  /\ UNCHANGED <<retry, wanted, connection, connectorRefs, closeCallback, conns,
                 userVars, loopVars>>

\* The second is over: the last reference but those of the retry timers.
RemoveConnector ==
  /\ ~aborted
  /\ pc = "handling"
  /\ client = "dead"
  /\ connectorRefs
  /\ ~ConnectorQueued
  /\ connectorRefs' = FALSE
  /\ UNCHANGED <<connect, attempt, pendingFunctors, retry, wanted, connection,
                 client, closeCallback, conns, userVars, loopVars>>

-----------------------------------------------------------------------------
(***************************************************************************)
(* Calls of another thread: connect_ of the client is assigned, then that  *)
(* of the connector, then a functor is queued; disconnect() assigns, then  *)
(* shuts the connection down under mutex_.                                 *)
(***************************************************************************)
CallFrom(name) ==
  /\ ~aborted
  /\ client = "alive"
  /\ call[1] = "none"
  /\ name \notin called
  /\ called' = called \cup {name}
  /\ call' = <<name, 1>>
  /\ wanted' = (name = "connect")
  /\ UNCHANGED <<connect, attempt, pendingFunctors, retry, connection, client,
                 connectorRefs, closeCallback, conns, loopVars>>

CallAssigns ==
  /\ call \in {<<"connect", 1>>, <<"stop", 1>>}
  /\ call' = <<call[1], 2>>
  /\ connect' = (call[1] = "connect")
  /\ UNCHANGED <<attempt, pendingFunctors, clientVars, conns, called, loopVars>>

CallQueues ==
  /\ call[2] = 2
  /\ call' = <<"none", 0>>
  /\ Queue(IF call[1] = "connect" THEN "startInLoop" ELSE "stopInLoop", 0)
  /\ UNCHANGED <<connect, attempt, clientVars, conns, called, loopVars>>

CallShutsDown ==
  /\ call = <<"disconnect", 1>>
  /\ call' = <<"none", 0>>
  /\ conns' = ShutDown
  /\ UNCHANGED <<connect, attempt, pendingFunctors, clientVars, called, loopVars>>

-----------------------------------------------------------------------------
(***************************************************************************)
(* The loop.                                                               *)
(***************************************************************************)
Registered == {i \in Conns : conns[i] \in {"up", "shut"}}

\* A timer that has expired is taken from the queue.  The delays are longer than
\* an iteration of the loop: one that was set with resetChannel() still queued is
\* not due before that has run.
Poll ==
  /\ ~aborted
  /\ pc = "poll"
  /\ pc' = "handling"
  /\ active' \in SUBSET (Registered \cup (IF channel = "watched" THEN {0} ELSE {}))
  /\ due' \in 0 .. (IF channel = "removed" THEN 0 ELSE timers)
  /\ timers' = timers - due'
  /\ UNCHANGED <<connect, state, channel, retryDelayMs, open, gaveUp, aborted,
                 pendingFunctors, clientVars, conns, userVars, functors, ran>>

\* A timer of the connector calls startInLoop().
FireTimer ==
  /\ ~aborted
  /\ pc = "handling"
  /\ due > 0
  /\ due' = due - 1
  /\ StartInLoop(state, connect, retryDelayMs)
  /\ UNCHANGED <<connect, pendingFunctors, clientVars, conns, userVars, pc, active,
                 functors, ran>>

\* newConnection().
NewConnection(i) ==
  /\ conns[i] = "none"
  /\ conns' = [conns EXCEPT ![i] = "up"]
  /\ connection' = i
  /\ closeCallback' = [closeCallback EXCEPT ![i] = "client"]
  /\ UNCHANGED <<retry, wanted, client, connectorRefs>>

\* The socket of the connector is connected ...
HandleConnected ==
  /\ ~aborted
  /\ pc = "handling"
  /\ 0 \in active
  /\ active' = active \ {0}
  /\ Connected
  /\ \/ connect /\ \E i \in Conns : NewConnection(i)
     \/ ~connect /\ UNCHANGED <<clientVars, conns>>
  /\ UNCHANGED <<connect, userVars, pc, due, functors, ran>>

\* ... or not.
HandleFailed ==
  /\ ~aborted
  /\ pc = "handling"
  /\ 0 \in active
  /\ active' = active \ {0}
  /\ ConnectionFailed
  /\ UNCHANGED <<connect, clientVars, conns, userVars, pc, due, functors, ran>>

\* handleClose() of a connection calls removeConnection(), of the client or of
\* namespace detail.  That of the client tests retry_ and connect_ ...
HandleClose(i) ==
  /\ ~aborted
  /\ pc = "handling"
  /\ i \in active
  /\ active' = active \ {i}
  /\ conns' = [conns EXCEPT ![i] = "closed"]
  /\ Queue("connectDestroyed", i)
  /\ \/ /\ closeCallback[i] = "client"
        /\ aborted' = (connection # i)
        /\ connection' = 0
        /\ pc' = IF retry /\ wanted THEN "restart" ELSE pc
     \/ /\ closeCallback[i] = "detail"
        /\ UNCHANGED <<aborted, connection, pc>>
  /\ UNCHANGED <<connect, state, channel, retryDelayMs, timers, open, gaveUp,
                 retry, wanted, client, connectorRefs, closeCallback, userVars,
                 due, functors, ran>>

\* ... and then restarts the connector.
RestartConnector ==
  /\ ~aborted
  /\ pc = "restart"
  /\ pc' = "handling"
  /\ Restart
  /\ UNCHANGED <<pendingFunctors, clientVars, conns, userVars, active, due,
                 functors, ran>>

TakeFunctors ==
  /\ ~aborted
  /\ pc = "handling"
  /\ active = {} /\ due = 0
  /\ pc' = "functors"
  /\ functors' = pendingFunctors
  /\ pendingFunctors' = <<>>
  /\ UNCHANGED <<connect, attempt, clientVars, conns, userVars, active, due, ran>>

IsNext(name, i) ==
  /\ ~aborted
  /\ pc = "functors"
  /\ ran < Len(functors)
  /\ functors[ran + 1] = Functor(name, i)
  /\ ran' = ran + 1
  /\ UNCHANGED <<connect, clientVars, userVars, pc, active, due, functors>>

\* The functors; when connectDestroyed() has run, the connection is deleted and
\* its socket closed.
RunFunctor ==
  \/ /\ IsNext("startInLoop", 0)
     /\ StartInLoop(state, connect, retryDelayMs)
     /\ UNCHANGED <<pendingFunctors, conns>>
  \/ /\ IsNext("stopInLoop", 0)
     /\ StopInLoop(connect)
     /\ UNCHANGED conns
  \/ /\ IsNext("resetChannel", 0)
     /\ ResetChannel
     /\ UNCHANGED <<pendingFunctors, conns>>
  \/ \E i \in Conns :
       /\ IsNext("connectDestroyed", i)
       /\ conns' = [conns EXCEPT ![i] = "none"]
       /\ open' = open - 1
       /\ UNCHANGED <<state, channel, retryDelayMs, timers, gaveUp, aborted,
                      pendingFunctors>>

FunctorsDone ==
  /\ ~aborted
  /\ pc = "functors"
  /\ ran = Len(functors)
  /\ pc' = "poll"
  /\ functors' = <<>>
  /\ ran' = 0
  /\ UNCHANGED <<connect, attempt, pendingFunctors, clientVars, conns, userVars,
                 active, due>>

-----------------------------------------------------------------------------
UserStep ==
  \/ ConnectInLoop \/ StopInCallback \/ DisconnectInLoop \/ EnableRetry
  \/ DestroyConnected \/ DestroyUnconnected

CallStep == CallAssigns \/ CallQueues \/ CallShutsDown

LoopStep ==
  \/ FireTimer \/ HandleConnected \/ HandleFailed
  \/ \E i \in Conns : HandleClose(i)
  \/ RestartConnector \/ TakeFunctors \/ RunFunctor \/ FunctorsDone

Next ==
  \/ UserStep
  \/ \E name \in {"connect", "stop", "disconnect"} : CallFrom(name)
  \/ CallStep
  \/ Poll \/ LoopStep \/ RemoveConnector

Spec == Init /\ [][Next]_vars

(***************************************************************************)
(* Fairness: the threads are scheduled; poll() reports, in the end, what   *)
(* connect(2) led to and the timers that expired; a server that is tried   *)
(* again and again accepts; and connect(2) does not fail for ever at once. *)
(***************************************************************************)
Fairness ==
  /\ WF_vars(LoopStep)
  /\ WF_vars(Poll)
  /\ WF_vars(CallStep)
  /\ SF_vars(Poll /\ 0 \in active')
  /\ SF_vars(Poll /\ timers' < timers)
  /\ SF_vars(FireTimer /\ channel' = "watched")
  /\ SF_vars(HandleConnected)

FairSpec == Spec /\ Fairness

-----------------------------------------------------------------------------
TypeOK ==
  /\ connect \in BOOLEAN /\ gaveUp \in BOOLEAN /\ aborted \in BOOLEAN
  /\ state \in {"kDisconnected", "kConnecting", "kConnected"}
  /\ channel \in {"null", "watched", "removed"}
  /\ retryDelayMs \in kInitRetryDelayMs .. kMaxRetryDelayMs
  /\ timers \in Nat /\ open \in Nat /\ due \in Nat /\ ran \in Nat
  /\ retry \in BOOLEAN /\ wanted \in BOOLEAN /\ connectorRefs \in BOOLEAN
  /\ connection \in Conns \cup {0}
  /\ client \in {"alive", "dead"}
  /\ conns \in [Conns -> {"none", "up", "shut", "closed"}]
  /\ closeCallback \in [Conns -> {"client", "detail"}]
  /\ pc \in {"poll", "handling", "restart", "functors"}
  /\ active \subseteq Conns \cup {0}

One(b) == IF b THEN 1 ELSE 0

\* The client does one thing at a time: it is connecting, or waiting for a
\* timer to try again, or connected, however stop(), disconnect(), errors and
\* reconnections interleave.  So the assertions of startInLoop(), connecting()
\* and removeConnection() hold.
OneAttempt ==
  /\ TypeOK
  /\ ~aborted
  /\ timers + due + One(channel = "watched") + Cardinality(Registered) <= 1
  /\ channel = "watched" <=> state = "kConnecting"

\* Every socket that connect() opened is owned by the channel or by one
\* connection, or has been closed.
NoSocketLeaks ==
  open = One(channel = "watched") + Cardinality({i \in Conns : conns[i] # "none"})

\* Nothing calls a client that was destroyed: not its connector, whose timers
\* find connect_ false, and not its last connection.
DeadIsNotCalled ==
  client = "dead" =>
    /\ channel # "watched"
    /\ timers + due > 0 => ~connect
    /\ \A i \in Registered : closeCallback[i] = "detail"

\* When the last reference to the connector goes, its channel has been reset
\* (the assertion of ~Connector()) and no functor refers to it.
ConnectorOutlivesUse ==
  ~connectorRefs /\ timers + due = 0 => channel = "null" /\ ~ConnectorQueued

\* A connector that is told to connect does: it tries until it is connected,
\* is told to stop, or meets an error that it does not retry.
ConnectsInTheEnd ==
  connect /\ timers + due + One(channel = "watched") > 0
    ~> state = "kConnected" \/ ~connect \/ gaveUp

\* Connector::startInLoop(), retry() and stopInLoop() make one attempt at a time,
\* and no attempt leaves its socket behind: OneAttempt and NoSocketLeaks.
OneAttemptOneSocket == OneAttempt /\ NoSocketLeaks

\* After ~TcpClient() nothing calls the client, nor the connector once it is gone:
\* DeadIsNotCalled and ConnectorOutlivesUse.
NothingCallsTheDead == DeadIsNotCalled /\ ConnectorOutlivesUse
=============================================================================
