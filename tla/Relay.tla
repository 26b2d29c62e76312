-------------------------------- MODULE Relay --------------------------------
(***************************************************************************)
(* examples/socks4a: tcprelay.cc and socks4a.cc, with the Tunnel of        *)
(* tunnel.h.  A connection that is accepted has a Tunnel, whose TcpClient  *)
(* connects to a server; what arrives on one is sent on the other.         *)
(* socks4a.cc reads a request first, which says what server.               *)
(*                                                                         *)
(* A peer sends the bytes 1, 2, 3...  For socks4a.cc it sends a request    *)
(* before, of bytes Good or Bad that end with Zero, and gets one of them.  *)
(***************************************************************************)
EXTENDS Connections

CONSTANTS
  Requests,        \* the requests of the peers of socks4a.cc
  kMaxRequest,     \* the 128 bytes at most that are read before a request ends
  MaxBytes         \* bound: the bytes that a peer sends, its request included

\* tunnel: the TcpClient of a connection's Tunnel.  inTable: g_tunnels.  context:
\* the connections whose context is that of their tunnel.  input: inputBuffer().
\* heard counts the bytes that have arrived, toServer has those sent on.  late:
\* the tunnels that were up after their connection was down.
Init(kind) ==
  /\ ConnectionsInit
  /\ \E request \in [Conns -> IF kind = "socks4a" THEN Requests ELSE {<<>>}] :
       app = [kind |-> kind, request |-> request, tunnel |-> [c \in Conns |-> "none"],
              inTable |-> {}, context |-> {}, input |-> [c \in Conns |-> <<>>],
              heard |-> [c \in Conns |-> 0], toServer |-> [c \in Conns |-> <<>>],
              replies |-> [c \in Conns |-> 0], late |-> {}]

Zero == 0
Good == -1
Bad == -2

Stream(c) == app.request[c] \o [i \in 1 .. MaxBytes - Len(app.request[c]) |-> i]

\* new Tunnel, setup() and connect().
WithTunnel(a, c) == [a EXCEPT !.tunnel[c] = "connecting", !.inTable = @ \cup {c}]

\* A Tunnel that is dropped from g_tunnels only.
StaysConnected(tunnel) == tunnel

\* disconnect() does not stop the connector of a client that is not connected.
Disconnect(tunnel) == IF tunnel = "up" THEN "closing" ELSE tunnel

\* clientConn->send(buf): the buffer is left as it is if that is not connected.
SendOn(a, c) ==
  IF a.tunnel[c] # "up" THEN a
  ELSE [a EXCEPT !.toServer[c] = @ \o a.input[c], !.input[c] = <<>>]

-----------------------------------------------------------------------------
\* onServerConnection() of tcprelay.cc, and of socks4a.cc.
onServerConnection(c) ==
  /\ Establish(c)
  /\ app' = IF app.kind = "tcprelay" THEN WithTunnel(app, c) ELSE app
  /\ UNCHANGED <<sent, queue>>

onServerDown(c) ==
  /\ Lose(c)
  /\ app' = [app EXCEPT !.inTable = @ \ {c},
                        !.tunnel[c] = IF c \in app.inTable THEN Disconnect(@) ELSE @]
  /\ UNCHANGED <<sent, queue>>

\* onServerMessage() of socks4a.cc before there is a tunnel.
Request(a, c) ==
  LET buf == a.input[c]
      zero == {i \in DOMAIN buf : buf[i] = Zero}
      end == Min(zero)
  IN  CASE Len(buf) > kMaxRequest -> conn' = Closed(c) /\ app' = a /\ UNCHANGED sent
        [] Len(buf) <= kMaxRequest /\ zero = {} -> app' = a /\ UNCHANGED <<conn, sent>>
        [] Len(buf) <= kMaxRequest /\ zero # {} ->
             IF buf[1] = Good
             THEN /\ app' = [WithTunnel(a, c) EXCEPT !.input[c] = SubSeq(@, end + 1, Len(@))]
                  /\ sent' = Sent({c}, Good)
                  /\ UNCHANGED conn
             ELSE app' = a /\ sent' = Sent({c}, Bad) /\ conn' = Closed(c)

onServerMessage(c, len) ==
  LET a == [app EXCEPT !.heard[c] = @ + len,
              !.input[c] = @ \o SubSeq(Stream(c), app.heard[c] + 1, app.heard[c] + len)]
  IN  /\ Open(c) /\ app.heard[c] + len <= Len(Stream(c))
      /\ IF app.kind = "socks4a" /\ c \notin app.inTable THEN Request(a, c)
         ELSE app' = (IF c \in app.context THEN SendOn(a, c) ELSE a) /\ UNCHANGED <<conn, sent>>
      /\ UNCHANGED queue

-----------------------------------------------------------------------------
\* A tunnel that forgets what came before it was connected.
ForgetsEarly(c) == [app EXCEPT !.tunnel[c] = "up", !.context = @ \cup {c}]

\* Tunnel::onClientConnection(), connected.
SendsEarly(c) == SendOn([app EXCEPT !.tunnel[c] = "up", !.context = @ \cup {c}], c)

onClientConnection(c) ==
  /\ app.tunnel[c] = "connecting"
  /\ app' = [SendsEarly(c) EXCEPT !.late = IF conn[c] = "down" THEN @ \cup {c} ELSE @]
  /\ UNCHANGED <<conn, sent, queue>>

\* onClientConnection(), not connected any more, with teardown().
teardown(c) == conn' = Closed(c)
onClientDown(c) ==
  /\ app.tunnel[c] \in {"up", "closing"}
  /\ app' = [app EXCEPT !.tunnel[c] = "down", !.context = @ \ {c}]
  /\ teardown(c)
  /\ UNCHANGED <<sent, queue>>

onClientMessage(c) ==
  /\ app.tunnel[c] \in {"up", "closing"} /\ app.replies[c] < MaxBytes
  /\ app' = [app EXCEPT !.replies[c] = @ + 1]
  /\ sent' = Sent({c}, app.replies[c] + 1)
  /\ UNCHANGED <<conn, queue>>

\* Either connection has too much to write.
onHighWaterMark(c) ==
  /\ app.tunnel[c] = "up"
  /\ app' = [app EXCEPT !.tunnel[c] = Disconnect(@)]
  /\ UNCHANGED <<conn, sent, queue>>

Next == \E c \in Conns :
          \/ onServerConnection(c) \/ onServerDown(c) \/ onClientConnection(c)
          \/ onClientDown(c) \/ onClientMessage(c) \/ onHighWaterMark(c)
          \/ \E len \in 1 .. MaxBytes : onServerMessage(c, len)

-----------------------------------------------------------------------------
\* What a server gets is what its peer has sent, after the request, in order and
\* with nothing left out; the rest waits in the input buffer, and nothing waits
\* once the tunnel is up.  As long as the peer is there it gets all the answers of the server in order, after the
\* answer to its request.
RelaysInOrder ==
  \A c \in Conns :
    /\ LET first == IF app.tunnel[c] = "none" THEN 1 ELSE Len(app.request[c]) + 1
       IN  app.toServer[c] \o app.input[c] = SubSeq(Stream(c), first, app.heard[c])
    /\ app.tunnel[c] = "up" => app.input[c] = <<>>
    /\ (conn[c] = "up" /\ app.tunnel[c] # "none") =>
         sent[c] = (IF app.kind = "socks4a" THEN <<Good>> ELSE <<>>)
                     \o [i \in 1 .. app.replies[c] |-> i]

\* When one end of a tunnel is down the other is down or being shut down, but
\* for a tunnel that got its connection only after its peer had gone.
EndsTogether ==
  \A c \in Conns :
    /\ (conn[c] = "down" /\ app.tunnel[c] = "up") => c \in app.late
    /\ app.tunnel[c] = "down" => conn[c] # "up"
=============================================================================
