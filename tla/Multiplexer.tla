----------------------------- MODULE Multiplexer -----------------------------
(***************************************************************************)
(* examples/multiplexer: a MultiplexServer passes what its clients send to *)
(* a backend, over one connection, in packets with the id of the client:   *)
(*   multiplexer_simple.cc   "simple"     one loop                         *)
(*   multiplexer.cc          "threaded"   clients in loops of their own,   *)
(*                                        and a mutex                      *)
(* The backend is the DemuxServer of demux.cc, which comes second.         *)
(***************************************************************************)
EXTENDS Connections

CONSTANTS
  kMaxConns,
  MaxData,       \* bound: the packets that all clients send, and the answers
  MaxLosses      \* bound: the connections to the backend that are lost

Ids == 1 .. kMaxConns
Links == 1 .. MaxLosses + 1
None == "none"
Nobody == [state |-> "none"]

\* The members of the two servers.  The connections between them are numbered: links
\* were made and accepted were seen by the DemuxServer, which has seen those in over
\* go down and called shutdown() for those in refused; backend and serverConn are 0
\* for NULL.  Each end reads what is on its way in toDemux and toMux.  pc: where a
\* thread of multiplexer.cc is between two locks.  said counts what a client has
\* sent; failed names the assertion that has failed.
Init(kind) ==
  /\ ConnectionsInit
  /\ app = [kind |-> kind, backend |-> 0, availIds |-> <<>>,
            clientConns |-> [id \in Ids |-> None], context |-> [c \in Conns |-> 0],
            pc |-> [c \in Conns |-> "idle"], connsToDestroy |-> {},
            said |-> [c \in Conns |-> 0],
            links |-> 0, accepted |-> 0, over |-> {}, refused |-> {},
            toDemux |-> [k \in Links |-> <<>>], toMux |-> <<>>,
            serverConn |-> 0, socksConns |-> [id \in Ids |-> Nobody],
            answers |-> 0, failed |-> "none"]

\* A packet of data says, as history, which client it is from or for, and which of
\* its packets it is.
Command(cmd, id, c) == [id |-> 0, cmd |-> cmd, conn |-> id, who |-> c]
Data(id, c, n) == [id |-> id, who |-> c, n |-> n]

Failed(a, assertion) == [a EXCEPT !.failed = assertion]

sendBackendPacket(a, packet) ==
  IF a.backend = 0 \/ a.backend \in a.over THEN a
  ELSE [a EXCEPT !.toDemux[a.backend] = Append(@, packet)]

-----------------------------------------------------------------------------
\* onClientConnection(): an id is taken from availIds_, if there is one.
TakeId(a, c) ==
  LET id == Head(a.availIds)
  IN  [a EXCEPT !.availIds = Tail(@), !.clientConns[id] = c, !.context[c] = id]

\* The end of it: the id is put back, if there is a backend; else nothing is left.
GiveBack(a, id) ==
  IF a.backend # 0 THEN [a EXCEPT !.availIds = Append(@, id), !.clientConns[id] = None]
  ELSE IF a.availIds # <<>> \/ \E i \in Ids : a.clientConns[i] # None THEN Failed(a, "ids left")
  ELSE a

Announce(a, cmd, c) == sendBackendPacket(a, Command(cmd, a.context[c], c))

\* An id that is put back before the backend is told that it is free.
LeavingFirst(a, c, step) ==
  IF step = 1 THEN GiveBack(a, a.context[c]) ELSE Announce(a, "down", c)

\* What is done for a client that goes down, in two steps.
Leaving(a, c, step) ==
  IF step = 1 THEN Announce(a, "down", c) ELSE GiveBack(a, a.context[c])

\* multiplexer_simple.cc
onClientConnection(c) ==
  \/ /\ conn[c] = "none" /\ app.availIds # <<>>
     /\ conn' = [conn EXCEPT ![c] = "up"]
     /\ app' = Announce(TakeId(app, c), "up", c)
  \/ /\ conn[c] = "none" /\ app.availIds = <<>>
     /\ conn' = [conn EXCEPT ![c] = "closing"] /\ UNCHANGED app
  \/ /\ Lose(c)
     /\ app' = IF app.context[c] = 0 THEN app ELSE Leaving(Leaving(app, c, 1), c, 2)

\* multiplexer.cc: mutex_ is not held in between.
onClientConnectionLocked(c) ==
  /\ app.pc[c] = "idle"
  /\ \/ /\ conn[c] = "none" /\ app.availIds # <<>>
        /\ conn' = [conn EXCEPT ![c] = "up"]
        /\ app' = [TakeId(app, c) EXCEPT !.pc[c] = "up"]
     \/ /\ conn[c] = "none" /\ app.availIds = <<>>
        /\ conn' = [conn EXCEPT ![c] = "closing"] /\ UNCHANGED app
     \/ /\ Lose(c)
        /\ app' = IF app.context[c] = 0 THEN app
                  ELSE [Leaving(app, c, 1) EXCEPT !.pc[c] = "down"]

onClientConnectionGoesOn(c) ==
  /\ \/ app.pc[c] = "up" /\ app' = [Announce(app, "up", c) EXCEPT !.pc[c] = "idle"]
     \/ app.pc[c] = "down" /\ app' = [Leaving(app, c, 2) EXCEPT !.pc[c] = "idle"]
  /\ UNCHANGED <<conn, sent, queue>>

OnClientConnection(c) ==
  /\ IF app.kind = "simple" THEN onClientConnection(c) ELSE onClientConnectionLocked(c)
  /\ UNCHANGED <<sent, queue>>

\* onClientMessage(), with sendBackendBuffer(): a packet of those it makes.
onClientMessage(c) ==
  /\ Open(c) /\ app.pc[c] = "idle" /\ FoldFunction(+, 0, app.said) < MaxData
  /\ app' = IF app.context[c] = 0 THEN app
            ELSE LET said == [app EXCEPT !.said[c] = @ + 1]
                 IN  sendBackendPacket(said, Data(app.context[c], c, said.said[c]))
  /\ UNCHANGED <<conn, sent, queue>>

-----------------------------------------------------------------------------
\* sendToClient(), for a packet with data.
sendToClient(packet) ==
  /\ sent' = IF app.clientConns[packet.id] = None THEN sent
             ELSE Sent({app.clientConns[packet.id]}, packet)
  /\ UNCHANGED conn

\* doCommand(), which multiplexer.cc does not have.
doCommandDisconnect(id) ==
  /\ conn' = IF app.clientConns[id] = None \/ app.kind = "threaded" THEN conn
             ELSE Closed(app.clientConns[id])
  /\ UNCHANGED sent

onBackendMessage ==
  /\ app.backend # 0 /\ app.toMux # <<>>
  /\ LET packet == Head(app.toMux)
     IN  IF packet.id = 0 THEN doCommandDisconnect(packet.conn) ELSE sendToClient(packet)
  /\ app' = [app EXCEPT !.toMux = Tail(@)]
  /\ UNCHANGED queue

\* onBackendConnection(), up: the TcpClient retries.
onBackendConnection ==
  /\ app.backend = 0 /\ app.connsToDestroy = {} /\ app.links + 1 \in Links
  /\ app' = IF app.availIds # <<>> THEN Failed(app, "ids left")
            ELSE [app EXCEPT !.links = @ + 1, !.backend = app.links + 1,
                             !.availIds = [i \in Ids |-> i]]
  /\ UNCHANGED <<conn, sent, queue>>

\* onBackendConnection(), down.
Forgotten(a) == [a EXCEPT !.backend = 0, !.availIds = <<>>, !.toMux = <<>>,
                          !.clientConns = [id \in Ids |-> None]]

\* A loop over clientConns_ that starts with the second.
ShutDownRest == {c \in Conns : \E id \in Ids \ {1} : app.clientConns[id] = c}

ShutDown == {c \in Conns : \E id \in Ids : app.clientConns[id] = c}
onBackendLost ==
  /\ app.backend # 0
  /\ app.backend <= MaxLosses \/ app.backend \in app.refused
  /\ \/ /\ app.kind = "simple" /\ app' = Forgotten(app)
        /\ conn' = [c \in Conns |-> IF conn[c] = "up" /\ c \in ShutDown THEN "closing" ELSE conn[c]]
     \/ /\ app.kind = "threaded" /\ app' = [Forgotten(app) EXCEPT !.connsToDestroy = ShutDown]
        /\ UNCHANGED conn
  /\ UNCHANGED <<sent, queue>>

\* The end of it in multiplexer.cc, without mutex_.
DestroyConn(c) ==
  /\ c \in app.connsToDestroy
  /\ app' = [app EXCEPT !.connsToDestroy = @ \ {c}]
  /\ conn' = Closed(c)
  /\ UNCHANGED <<sent, queue>>

-----------------------------------------------------------------------------
(***************************************************************************)
(* examples/multiplexer/demux.cc: the DemuxServer behind a MultiplexServer *)
(* opens a connection of its own (to a socks server) for every client, and *)
(* passes the packets of the client on to it and what it gets back.        *)
(*                                                                         *)
(* An Entry has the state of its TcpClient: connecting, up, closing, down; *)
(* pending; and, as history, what was passed on, how many answers came,    *)
(* and the client it was made for.                                         *)
(***************************************************************************)
Entry(c) == [state |-> "connecting", pending |-> <<>>, got |-> <<>>, replies |-> 0, who |-> c]
Connected(entry) == entry.state \in {"up", "closing", "down"}

\* send() of a connection that the MultiplexServer has seen go down is lost.
sendServerPacket(a, packet) ==
  IF a.serverConn # 0 /\ a.serverConn = a.backend THEN [a EXCEPT !.toMux = Append(@, packet)] ELSE a

\* onServerConnection(), up: there is one at a time.
onServerConnection ==
  LET k == app.accepted + 1
  IN  /\ k <= app.links
      /\ app' = [app EXCEPT !.accepted = k,
                            !.serverConn = IF @ = 0 THEN k ELSE @,
                            !.refused = IF app.serverConn = 0 THEN @ ELSE @ \cup {k}]
      /\ UNCHANGED <<conn, sent, queue>>

Served(k) == k \in 1 .. app.accepted /\ k \notin app.over

\* onServerConnection(), down.  socksConns_.clear() destroys TcpClients, which must
\* not have connections that are up.
onServerLost(k) ==
  LET a == [app EXCEPT !.over = @ \cup {k}, !.toDemux[k] = <<>>]
  IN  /\ Served(k)
      /\ k <= MaxLosses \/ k # app.backend
      /\ app' = IF app.serverConn # k THEN a
                ELSE IF \E id \in Ids : app.socksConns[id].state \in {"up", "closing"}
                THEN Failed(a, "destroyed")
                ELSE [a EXCEPT !.serverConn = 0, !.socksConns = [id \in Ids |-> Nobody]]
      /\ UNCHANGED <<conn, sent, queue>>

\* doCommand() for a connection that is down.
End(entry) ==
  CASE entry.state = "up" -> [entry EXCEPT !.state = "closing"]
    [] entry.state \in {"closing", "down"} -> entry
    [] entry.state = "connecting" -> Nobody

doCommand(a, p) ==
  LET entry == a.socksConns[p.conn]
  IN  CASE p.cmd = "up" ->
             IF entry # Nobody THEN Failed(a, "id in use")
             ELSE [a EXCEPT !.socksConns[p.conn] = Entry(p.who)]
        [] p.cmd = "down" ->
             IF entry = Nobody THEN Failed(a, "no entry")
             ELSE [a EXCEPT !.socksConns[p.conn] = End(entry)]

\* Data that is passed on at once, or lost.
PassNow(entry, data) ==
  IF entry.state = "up" THEN [entry EXCEPT !.got = Append(@, data)] ELSE entry

\* Data that is prepended to pending.
PassFirst(entry, data) ==
  CASE entry.state = "connecting" -> [entry EXCEPT !.pending = <<data>> \o @]
    [] entry.state = "up" -> [entry EXCEPT !.got = Append(@, data)]
    [] entry.state \in {"closing", "down"} -> entry

\* What onServerMessage() does with data: send() if there is a connection.
Pass(entry, data) ==
  CASE entry.state = "connecting" -> [entry EXCEPT !.pending = Append(@, data)]
    [] entry.state = "up" -> [entry EXCEPT !.got = Append(@, data)]
    [] entry.state \in {"closing", "down"} -> entry

\* onServerMessage(), for a packet of whatever connection.
onServerMessage(k) ==
  LET p == Head(app.toDemux[k])
      a == [app EXCEPT !.toDemux[k] = Tail(@)]
      entry == IF p.id = 0 THEN Nobody ELSE a.socksConns[p.id]
  IN  /\ Served(k) /\ app.toDemux[k] # <<>>
      /\ app' = IF p.id = 0 THEN doCommand(a, p)
                ELSE IF entry = Nobody THEN Failed(a, "no entry")
                ELSE IF Connected(entry) /\ entry.pending # <<>> THEN Failed(a, "pending")
                ELSE [a EXCEPT !.socksConns[p.id] = Pass(entry, p)]
      /\ UNCHANGED <<conn, sent, queue>>

\* onSocksConnection(), up and down.
onSocksConnection(id) ==
  LET entry == app.socksConns[id]
  IN  /\ \/ /\ entry.state = "connecting"
            /\ app' = [app EXCEPT !.socksConns[id] =
                         [entry EXCEPT !.state = "up", !.got = entry.pending, !.pending = <<>>]]
         \/ /\ entry.state \in {"up", "closing"} /\ app.serverConn # 0
            /\ app' = sendServerPacket([app EXCEPT !.socksConns[id].state = "down"],
                                       Command("disconnect", id, entry.who))
         \/ /\ entry.state \in {"up", "closing"} /\ app.serverConn = 0
            /\ app' = [app EXCEPT !.socksConns[id] = Nobody]
      /\ UNCHANGED <<conn, sent, queue>>

\* onSocksMessage(), for a packet of those it makes.
onSocksMessage(id) ==
  LET entry == app.socksConns[id]
  IN  /\ entry.state \in {"up", "closing"} /\ app.answers < MaxData
      /\ app' = sendServerPacket([app EXCEPT !.socksConns[id].replies = @ + 1, !.answers = @ + 1],
                                 Data(id, entry.who, entry.replies + 1))
      /\ UNCHANGED <<conn, sent, queue>>

Next ==
  /\ app.failed = "none"
  /\ \/ \E c \in Conns : \/ OnClientConnection(c) \/ onClientConnectionGoesOn(c)
                         \/ onClientMessage(c) \/ DestroyConn(c)
     \/ onBackendConnection \/ onBackendMessage \/ onBackendLost \/ onServerConnection
     \/ \E k \in Links : onServerMessage(k) \/ onServerLost(k)
     \/ \E id \in Ids : onSocksConnection(id) \/ onSocksMessage(id)

-----------------------------------------------------------------------------
\* The connection between the servers has not been lost so far.
Lasts == app.backend = app.links /\ app.links <= 1 /\ app.over = {}

DataFor(packets, id) == SelectSeq(packets, LAMBDA p : p.id = id)
From(packets, c) == SelectSeq(packets, LAMBDA p : p.id # 0 /\ p.who = c)
Others(packets, c) == SelectSeq(packets, LAMBDA p : p.who # c)
All(c, n) == [i \in 1 .. n |-> Data(app.context[c], c, i)]

\* What a client has got, and what is on its way to the holder of its id.
ToClient(c) == sent[c] \o DataFor(app.toMux, app.context[c])

\* As long as the connection between the servers lasts, in whatever order the ends of
\* the two connections of a client go down, and also when an id is used again:
\*  - an id is free or has one client, which is the one the server looks up;
\*  - all that a client sends goes in order to the connection that was made for it,
\*    and nothing of another client does;
\*  - all that comes back on that goes in order to the client; what else the client
\*    gets comes before, and was meant for one that had the id before and has left:
\*    the code does not keep such answers from it;
\*  - one assertion may fail, that of doCommand() that there is no entry for an id.
\*    It does when the id is used again and the connection of the client that had it
\*    before was made: its entry is never erased.
ClientsKeptApart ==
  Lasts =>
    /\ IsInjective(app.availIds)
    /\ \A i \in DOMAIN app.availIds : app.clientConns[app.availIds[i]] = None
    /\ \A c \in Conns : (Open(c) /\ app.context[c] # 0) =>
         LET entry == app.socksConns[app.context[c]]
             mine == entry # Nobody /\ entry.who = c
             others == Others(ToClient(c), c)
         IN  /\ app.clientConns[app.context[c]] = c
             /\ conn[c] = "up" =>
                  ToClient(c) = others \o All(c, IF mine THEN entry.replies ELSE 0)
             /\ \A p \in ToSet(others) : p.id = app.context[c] /\ conn[p.who] = "down"
    /\ \A id \in Ids : LET entry == app.socksConns[id] IN entry # Nobody =>
         /\ app.context[entry.who] = id
         /\ entry.state \in {"connecting", "up"} =>
              entry.got \o entry.pending \o From(app.toDemux[1], entry.who)
                = All(entry.who, app.said[entry.who])
    /\ app.failed # "none" =>
         /\ app.failed = "id in use"
         /\ \E id \in Ids : LET entry == app.socksConns[id]
                            IN  Connected(entry) /\ conn[entry.who] = "down"

\* When the backend is lost for the first time no client stays connected, whether it
\* came before or after, but for those that the loop is about to shut down.  Whatever
\* happens, no id is left when there is no backend, as the server asserts.
NobodyWaitsForTheBackend ==
  /\ (app.backend = 0 /\ app.links <= 1) =>
       \A c \in Conns : conn[c] = "up" => c \in app.connsToDestroy
  /\ app.failed # "ids left"
=============================================================================
