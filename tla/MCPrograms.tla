----------------------------- MODULE MCPrograms -------------------------------
(***************************************************************************)
(* The programs that are modelled above Connections.tla, in one            *)
(* specification: a behaviour is one of one program.  Each has the         *)
(* connections it needs to show what it is for.  The values of the         *)
(* constants that are not in the .cfg file are at the end.                 *)
(***************************************************************************)
EXTENDS Integers, Sequences, TLC

CONSTANTS
  Conns, FewConns, OneConn,    \* three connections, two and one of them
  Loops, LoopOf,
  MaxMessages,                                          \* ChatServers
  Topics, utc_time, MaxCommands,                        \* PubSub
  idleSeconds, kMaxConnections, MaxRound, MaxTime,      \* IdleConnections
  MaxPieces,                                            \* FileTransfer
  Requests, kMaxRequest, MaxBytes,                      \* Relay
  kMaxConns, MaxData, MaxLosses,                        \* Multiplexer
  Threads, LoopThread, MaxCalls,                        \* RpcChannel
  Hashers, Receivers, Words, Bucket, g_batchSize, HighMark, MaxWords,  \* WordCount
  boxSide, Puzzles, Workers, MaxRequests,               \* Sudoku
  Producers, Consumers, maxSize, MaxPuts,               \* BlockingQueues
  MaxFd, MaxClients,                                    \* Acceptor
  kSmallBuffer, kMaxNumericSize, Texts, Integers8, Pointers,
  MaxParts, MaxLines, MaxSecond,                        \* LogLines
  Paths, Commands, Adders, MaxGets,                     \* Inspector
  c1, c2, c3, l1, l2, w1, r1                            \* model values

VARIABLES program, conn, sent, queue, app

vars == <<program, conn, sent, queue, app>>

Chat == INSTANCE ChatServers
Hub == INSTANCE PubSub WITH Conns <- FewConns
Idle == INSTANCE IdleConnections
File == INSTANCE FileTransfer
Tunnels == INSTANCE Relay WITH Conns <- OneConn
Mux == INSTANCE Multiplexer WITH Conns <- FewConns, MaxData <- 1
Shared == INSTANCE Multiplexer WITH Conns <- FewConns, MaxLosses <- 0
Reused == INSTANCE Multiplexer WITH kMaxConns <- 1, MaxLosses <- 0
Rpc == INSTANCE RpcChannel WITH Conns <- OneConn
Count == INSTANCE WordCount WITH Conns <- Hashers \X Receivers, Loops <- Hashers
Sudokus == INSTANCE Sudoku WITH Conns <- FewConns
Queues == INSTANCE BlockingQueues WITH Conns <- {}
Accept == INSTANCE Acceptor WITH Conns <- {}
Lines == INSTANCE LogLines WITH Conns <- {}
Inspect == INSTANCE Inspector WITH Conns <- {}

Init ==
  \/ program = "chat" /\ \E k \in {"server", "threaded", "efficient", "highperformance"} : Chat!Init(k)
  \/ program = "hub" /\ Hub!Init
  \/ program = "idle" /\ \E k \in {"max", "wheel", "list"} : Idle!Init(k)
  \/ program = "file" /\ \E k \in {"download", "download2", "download3"} : File!Init(k)
  \/ program = "tunnels" /\ \E k \in {"tcprelay", "socks4a"} : Tunnels!Init(k)
  \/ program = "mux" /\ \E k \in {"simple", "threaded"} : Mux!Init(k)
  \/ program = "shared" /\ \E k \in {"simple", "threaded"} : Shared!Init(k)
  \/ program = "reused" /\ \E k \in {"simple", "threaded"} : Reused!Init(k)
  \/ program = "rpc" /\ Rpc!Init
  \/ program = "count" /\ Count!Init
  \/ program = "solver" /\ Sudokus!SolverInit
  \/ program = "sudoku" /\ Sudokus!ServerInit
  \/ program = "queues" /\ \E k \in {"bounded", "unbounded"} : Queues!Init(k)
  \/ program = "accept" /\ Accept!Init
  \/ program = "lines" /\ Lines!Init
  \/ program = "inspect" /\ Inspect!Init

Next ==
  /\ UNCHANGED program
  /\ \/ program = "chat" /\ Chat!Next
     \/ program = "hub" /\ Hub!Next
     \/ program = "idle" /\ Idle!Next
     \/ program = "file" /\ File!Next
     \/ program = "tunnels" /\ Tunnels!Next
     \/ program = "mux" /\ Mux!Next
     \/ program = "shared" /\ Shared!Next
     \/ program = "reused" /\ Reused!Next
     \/ program = "rpc" /\ Rpc!Next
     \/ program = "count" /\ Count!Next
     \/ program = "solver" /\ Sudokus!SolverNext
     \/ program = "sudoku" /\ Sudokus!ServerNext
     \/ program = "queues" /\ Queues!Next
     \/ program = "accept" /\ Accept!Next
     \/ program = "lines" /\ Lines!Next
     \/ program = "inspect" /\ Inspect!Next

Spec == Init /\ [][Next]_vars

-----------------------------------------------------------------------------
\* Broadcasts arrive.  Every client of a chat server that was in the list when a
\* message was taken gets it, in the order of the loop that sends, and a list that
\* is being read does not change; the last that a subscriber of the hub has of a
\* topic is the last that was published.
BroadcastsArrive ==
  /\ program = "chat" => Chat!EveryoneIsTold /\ Chat!OrderKept /\ Chat!ListsStay
  /\ program = "hub" => Hub!SubscribersUpToDate

\* The echo servers close the connections that are idle in time, and the one with the
\* wheel no others; the list of sortedlist.cc has the open connections; and the server
\* with a limit never has more connections than that.
IdleConnectionsClose ==
  program = "idle" => Idle!IdleIsClosed /\ Idle!ListHasTheOpen /\ Idle!AtMostTheLimit

\* A client that gets the end of the stream of a download has all of the file, and
\* no file stays open without its connection.
DownloadsAreWhole ==
  program = "file" => File!DownloadsComplete /\ File!FilesClosed

\* A tunnel passes on in order what it gets, also what it got before it was
\* connected, and both its ends go down together.
TunnelsPassAll ==
  program = "tunnels" => Tunnels!RelaysInOrder /\ Tunnels!EndsTogether

\* Clients that share the connection to the backend get in order what was meant for
\* them as long as it lasts, also when an id is used again, behind what was on its way
\* to the client that had the id before; and no client stays without a backend.  Two
\* clients whose backend may be lost, two that send more, and three with one id.
ClientsShareABackend ==
  /\ program = "mux" => Mux!ClientsKeptApart /\ Mux!NobodyWaitsForTheBackend
  /\ program = "shared" => Shared!ClientsKeptApart
  /\ program = "reused" => Reused!ClientsKeptApart

\* A remote call completes once, with the response to its own request, and is
\* outstanding until then.
CallsComplete ==
  program = "rpc" => Rpc!AnswersTheirCalls /\ Rpc!OutstandingInv

\* The receivers end with the counts of all the words of all hashers, and a hasher
\* that waits for its output to drain is woken.
WordsAreCounted ==
  program = "count" => Count!ShardsAreTotals /\ Count!ThrottleEnds

\* The solver finds a solution whenever there is one, with its links in step with
\* its choices, and the servers answer each request once.
SudokusAreSolved ==
  /\ program = "solver" => Sudokus!SolverInv
  /\ program = "sudoku" => Sudokus!EachIsAnswered

\* Nobody waits at a queue, bounded or not, for what is there.
QueuesWake == program = "queues" => Queues!NobodySleepsInVain

\* The acceptor without a descriptor left harms no descriptor but its own.
AcceptorKeepsItsOwn == program = "accept" => Accept!IdleFdIsOwn

\* A line of the log is made of whole parts in their order, and has all of them
\* unless it came near the end of its buffer, which it never overruns, or one of them
\* is a text as long as that.
LogLinesAreWhole == program = "lines" => Lines!LinesAreWhole

\* The inspector answers a request with the command that its path names.
InspectorAnswers == program = "inspect" => Inspect!RequestsAreAnswered
-----------------------------------------------------------------------------
MCLoopOf == c1 :> l1 @@ c2 :> l2 @@ c3 :> l2
MCBucket == w1 :> r1

\* A request that socks4a.cc serves, one it refuses and one that is too long, of
\* the bytes Good, Bad and Zero of Relay.tla.
MCRequests ==
  {<<-1, 0>>, <<-2, 0>>,
   <<-1, -1, -1, -1>>}

\* Boards of 4 x 4: a full one, one that is wrong, one with a character that is no
\* digit, two without a solution and two whose search goes back.
MCPuzzles ==
  {<<1,2,3,4, 3,4,1,2, 2,1,4,3, 4,3,2,1>>,
   <<1,1,3,4, 3,4,1,2, 2,1,4,3, 4,3,2,1>>,
   <<5,2,3,4, 3,4,1,2, 2,1,4,3, 4,3,2,1>>,
   <<4,0,0,2, 0,2,0,0, 0,4,2,0, 2,0,1,3>>,
   <<2,0,3,4, 3,4,1,0, 0,2,0,3, 0,3,1,0>>,
   <<0,0,1,0, 0,0,0,2, 0,0,0,0, 0,4,0,1>>,
   <<0,0,0,0, 2,0,4,0, 1,0,0,0, 0,2,1,0>>}

\* A text that fits with another one, and one that is longer than a number.
MCTexts == {<<"a">>, <<"b", "b", "b", "b", "b", "b", "b">>}
MCIntegers == -128..300

\* Paths of a command, with arguments, with slashes too many and of no command.
MCPaths ==
  {<<"/", "m", "/", "c">>, <<"m", "/", "/", "d", "/", "x", "/">>,
   <<"/", "/", "m", "/", "c", "/", "x", "/", "y", "z">>,
   <<"/", "m">>, <<"/", "/">>, <<"/", "n", "/", "c">>}
MCCommands == {<< <<"m">>, <<"c">> >>, << <<"m">>, <<"d">> >>}
=============================================================================
