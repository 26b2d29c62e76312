----------------------------- MODULE RpcChannel -----------------------------
(***************************************************************************)
(* net/protorpc: the RpcChannels at the two ends of a connection.  Any     *)
(* thread of the client may call CallMethod(): it takes a number, sends    *)
(* the request and then puts the call into outstandings_.  The loop thread *)
(* of the client handles the answers between these steps of the other      *)
(* threads, not between its own.  The server's channel is the context of   *)
(* its connection; a service answers within the call, or runs `done' later.*)
(***************************************************************************)
EXTENDS Connections

CONSTANTS
  Threads,      \* threads of the client that call, the loop thread LoopThread among them
  LoopThread,
  MaxCalls      \* bound: calls

\* A call of the client: who makes it, whether the server knows the service and
\* the method, and how far it is; got is what its response has, done how often its
\* closure has run.  The request and the response of a call are its place in calls.
\* kept has the `done' closures of the server by id, channel is whether its
\* RpcChannel is alive.
Init ==
  /\ ConnectionsInit
  /\ app = [id |-> 0, calls |-> <<>>, outstandings |-> <<>>, requests |-> <<>>,
            responses |-> <<>>, answered |-> {}, early |-> {}, kept |-> <<>>,
            channel |-> FALSE, undefined |-> FALSE]

TheConn == CHOOSE c \in Conns : TRUE
Calls == DOMAIN app.calls
Idle(t) == \A n \in Calls : app.calls[n].thread = t => app.calls[n].at = "returned"

\* A send() drops what it is given when the connection is not up.
Put(messages, m) == IF conn[TheConn] = "up" THEN Append(messages, m) ELSE messages

\* RpcServer::onConnection(): the channel is made, and later dropped.
onConnection ==
  \/ Establish(TheConn) /\ app' = [app EXCEPT !.channel = TRUE] /\ UNCHANGED <<sent, queue>>
  \/ Lose(TheConn) /\ app' = [app EXCEPT !.channel = FALSE, !.requests = <<>>, !.responses = <<>>]
     /\ UNCHANGED <<sent, queue>>

-----------------------------------------------------------------------------
\* id_.incrementAndGet().
NextId == app.id + 1

\* CallMethod(): send() and registration, of call n.
SendCall(a, n) ==
  [a EXCEPT !.requests = Put(@, [id |-> a.calls[n].id, call |-> n]), !.calls[n].at = "sent"]
Register(a, n) ==
  [a EXCEPT !.outstandings = (a.calls[n].id :> n) @@ @, !.calls[n].at = "returned"]

CallMethod(t, known) ==
  LET n == Len(app.calls) + 1
      numbered == [app EXCEPT !.id = NextId,
                     !.calls = Append(@, [thread |-> t, known |-> known, id |-> NextId,
                                          at |-> "numbered", got |-> 0, done |-> 0])]
  IN  /\ conn[TheConn] # "none" /\ Len(app.calls) < MaxCalls /\ Idle(t)
      /\ app' = IF t = LoopThread THEN Register(SendCall(numbered, n), n) ELSE numbered
      /\ UNCHANGED <<conn, sent, queue>>

CallMethodGoesOn(n) ==
  /\ \/ app.calls[n].at = "numbered" /\ app' = SendCall(app, n)
     \/ app.calls[n].at = "sent" /\ app' = Register(app, n)
  /\ UNCHANGED <<conn, sent, queue>>

-----------------------------------------------------------------------------
\* doneCallback(): the answer to the request with this id; the service may be
\* the last to know that the channel is gone.
doneCallback(a, id, call) ==
  IF a.channel THEN [a EXCEPT !.responses = Put(@, [id |-> id, call |-> call])]
  ELSE [a EXCEPT !.undefined = TRUE]

\* onRpcMessage() of the server: a service or a method that is not known is not
\* answered.
onRequest ==
  /\ app.requests # <<>>
  /\ LET r == Head(app.requests)
         rest == [app EXCEPT !.requests = Tail(@)]
     IN  IF ~app.calls[r.call].known THEN app' = rest
         ELSE app' \in {doneCallback(rest, r.id, r.call),
                        [rest EXCEPT !.kept = (r.id :> r.call) @@ @]}
  /\ UNCHANGED <<conn, sent, queue>>

\* A service that answers later.
Done(id) ==
  /\ app' = doneCallback([app EXCEPT !.kept = [i \in DOMAIN @ \ {id} |-> @[i]]], id, app.kept[id])
  /\ UNCHANGED <<conn, sent, queue>>

\* onRpcMessage() of the client that leaves the call in outstandings_ and takes
\* the first there is.
TakeFirst(id) == IF app.outstandings = <<>> THEN {} ELSE {Min(DOMAIN app.outstandings)}

\* The outstanding call with the id of the response.
Take(id) == DOMAIN app.outstandings \cap {id}

\* onRpcMessage() of the client: the call is taken out of outstandings_, its
\* response is filled and its closure run; with none there, nothing happens.
onResponse ==
  /\ app.responses # <<>>
  /\ LET r == Head(app.responses)
         rest == [app EXCEPT !.responses = Tail(@), !.answered = @ \cup {r.call}]
     IN  IF Take(r.id) = {}
         THEN app' = [rest EXCEPT !.early = @ \cup {r.call}]
         ELSE LET id == CHOOSE i \in Take(r.id) : TRUE
              IN  app' = [rest EXCEPT
                            !.outstandings = [i \in DOMAIN @ \ {id} |-> @[i]],
                            !.calls[app.outstandings[id]].got = r.call,
                            !.calls[app.outstandings[id]].done = @ + 1]
  /\ UNCHANGED <<conn, sent, queue>>

Next ==
  \/ onConnection \/ onRequest \/ onResponse
  \/ \E t \in Threads, known \in BOOLEAN : CallMethod(t, known)
  \/ \E n \in Calls : CallMethodGoesOn(n)
  \/ \E id \in DOMAIN app.kept : Done(id)

-----------------------------------------------------------------------------
\* Whatever the order of the answers, a call completes once and with the response
\* to its own request; and when the answer to a call has come, the call is
\* complete, unless a thread that is not the loop's had not registered it yet.
AnswersTheirCalls ==
  \A n \in Calls :
    LET call == app.calls[n]
    IN  /\ call.done = IF call.got = n THEN 1 ELSE 0
        /\ call.done = 1 => n \in app.answered /\ call.known
        /\ n \in app.answered => call.done = 1 \/ n \in app.early
        /\ n \in app.early => call.thread # LoopThread

\* outstandings_ has just the calls that have returned and are not complete: none
\* is forgotten while its answer may still come.
OutstandingInv ==
  \A n \in Calls :
    (app.calls[n].at = "returned" /\ app.calls[n].done = 0)
      <=> \E id \in DOMAIN app.outstandings : app.outstandings[id] = n /\ app.calls[n].id = id
=============================================================================
