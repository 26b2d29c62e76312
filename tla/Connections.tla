----------------------------- MODULE Connections -----------------------------
(***************************************************************************)
(* What the programs of examples/ see of the library: TcpConnections whose *)
(* callbacks are called by the event loop they belong to, send() and       *)
(* shutdown(), and functors queued in a loop.  A callback is one step, as  *)
(* a loop runs one at a time.  TcpConnection.tla and EventLoop.tla have    *)
(* what is below this interface.                                           *)
(***************************************************************************)
EXTENDS Integers, FiniteSets, SequencesExt

CONSTANTS
  Conns,        \* the TcpConnections
  Loops,        \* the event loops, one thread each
  LoopOf        \* the loop of a connection

VARIABLES
  conn,         \* state_ of a connection: none, up, closing or down
  sent,         \* what send() has put into a connection, in order
  queue,        \* pendingFunctors_ of a loop
  app           \* the members of the program's objects

vars == <<conn, sent, queue, app>>

ConnectionsInit ==
  /\ conn = [c \in Conns |-> "none"]
  /\ sent = [c \in Conns |-> <<>>]
  /\ queue = [l \in Loops |-> <<>>]

\* The connection callback is called when a connection is up and when it is
\* down; the message callback until then, also after shutdown().
Establish(c) == conn[c] = "none" /\ conn' = [conn EXCEPT ![c] = "up"]
Open(c) == conn[c] \in {"up", "closing"}
Lose(c) == Open(c) /\ conn' = [conn EXCEPT ![c] = "down"]

\* send(), for a connection that is kConnected, and shutdown().
Sent(to, m) ==
  [c \in Conns |-> IF c \in to /\ conn[c] = "up" THEN Append(sent[c], m) ELSE sent[c]]
Closed(c) == [conn EXCEPT ![c] = IF @ = "up" THEN "closing" ELSE @]

\* queueInLoop().
Queued(l, functor) == [queue EXCEPT ![l] = Append(@, functor)]
=============================================================================
