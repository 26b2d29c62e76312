----------------------------- MODULE ChatServers -----------------------------
(***************************************************************************)
(* The four chat servers of examples/asio/chat, which send a message to    *)
(* every client:                                                           *)
(*   server.cc                          "server"   one loop, no lock       *)
(*   server_threaded.cc                 "threaded" a list under a mutex    *)
(*   server_threaded_efficient.cc       "efficient"                        *)
(*       the list is shared with those who iterate over it, and copied     *)
(*       before it is changed                                              *)
(*   server_threaded_highperformance.cc "highperformance"                  *)
(*       every loop has the list of its own connections                    *)
(***************************************************************************)
EXTENDS Connections

CONSTANT MaxMessages

\* connections_ is the list `current', or that of a loop; reader has what a
\* loop is doing in the for loop of onStringMessage(), or nothing.  told and
\* from are the history: who was up when a message came, and who sent it.
Lists == 1 .. Cardinality(Loops) + 1
Idle == [list |-> 0]

Init(kind) ==
  /\ ConnectionsInit
  /\ app = [kind |-> kind, current |-> 1,
            lists |-> [i \in (IF kind = "highperformance" THEN Loops ELSE Lists) |-> {}],
            reader |-> [l \in Loops |-> Idle], told |-> <<>>, from |-> <<>>]

Free(l) == app.reader[l] = Idle
Change(list, c) == IF conn'[c] = "up" THEN list \cup {c} ELSE list \ {c}
Log(c) == [app EXCEPT !.told = Append(@, {d \in Conns : conn[d] = "up"}),
                      !.from = Append(@, c)]
New == Len(app.told) + 1

-----------------------------------------------------------------------------
\* server.cc.
onConnection(c) == app' = [app EXCEPT !.lists[1] = Change(@, c)]

onStringMessage(c) ==
  /\ sent' = Sent(app.lists[1], New)
  /\ app' = Log(c)
  /\ UNCHANGED queue

\* server_threaded.cc: mutex_ makes each one step.  send() to the connections of
\* other loops is queued there.
onConnectionLocked(c) == onConnection(c)

onStringMessageLocked(c) ==
  LET here == {d \in app.lists[1] : LoopOf[d] = LoopOf[c]}
      To(l) == {d \in app.lists[1] \ here : LoopOf[d] = l /\ conn[d] = "up"}
      Sends(l) == [i \in 1 .. Cardinality(To(l)) |-> [msg |-> New, to |-> SetToSeq(To(l))[i]]]
  IN  /\ sent' = Sent(here, New)
      /\ queue' = [l \in Loops |-> queue[l] \o Sends(l)]
      /\ app' = Log(c)

-----------------------------------------------------------------------------
\* server_threaded_efficient.cc.
Unique == \A l \in Loops : app.reader[l].list # app.current
Unused == {i \in Lists : i # app.current /\ \A l \in Loops : app.reader[l].list # i}

\* A list that is changed where it is.
onConnectionInPlace(c) == app' = [app EXCEPT !.lists[app.current] = Change(@, c)]

onConnectionCopy(c) ==
  LET copy == IF Unique THEN app.current ELSE Min(Unused)
  IN  app' = [app EXCEPT !.current = copy, !.lists[copy] = Change(app.lists[app.current], c)]

getConnectionList(c) ==
  /\ app' = [Log(c) EXCEPT !.reader[LoopOf[c]] =
               [list |-> app.current, msg |-> New, done |-> {}, was |-> app.lists[app.current]]]
  /\ UNCHANGED <<sent, queue>>

SendNext(l) ==
  LET r == app.reader[l]
  IN  /\ ~Free(l)
      /\ \E d \in app.lists[r.list] \ r.done :
           /\ IF LoopOf[d] = l
              THEN sent' = Sent({d}, r.msg) /\ UNCHANGED queue
              ELSE /\ queue' = IF conn[d] # "up" THEN queue
                               ELSE Queued(LoopOf[d], [msg |-> r.msg, to |-> d])
                   /\ UNCHANGED sent
           /\ app' = [app EXCEPT !.reader[l].done = @ \cup {d}]
      /\ UNCHANGED conn

\* The iteration is over, and the pointer to the list goes.
Release(l) ==
  /\ ~Free(l) /\ app.lists[app.reader[l].list] \subseteq app.reader[l].done
  /\ app' = [app EXCEPT !.reader[l] = Idle]
  /\ UNCHANGED <<conn, sent, queue>>

-----------------------------------------------------------------------------
\* server_threaded_highperformance.cc.
onConnectionLocal(c) == app' = [app EXCEPT !.lists[LoopOf[c]] = Change(@, c)]

\* A server that forgets its own loop.
onStringMessageOthers(c) ==
  /\ queue' = [l \in Loops |-> IF l = LoopOf[c] THEN queue[l]
                               ELSE Append(queue[l], [msg |-> New, to |-> "all"])]
  /\ app' = Log(c)
  /\ UNCHANGED sent

onStringMessageLoops(c) ==
  /\ queue' = [l \in Loops |-> Append(queue[l], [msg |-> New, to |-> "all"])]
  /\ app' = Log(c)
  /\ UNCHANGED sent

-----------------------------------------------------------------------------
\* A functor: distributeMessage(), or a send() that was queued.
Receiving(l, f) == IF f.to = "all" THEN app.lists[l] ELSE {f.to}

RunFunctor(l) ==
  /\ Free(l) /\ queue[l] # <<>>
  /\ sent' = Sent(Receiving(l, Head(queue[l])), Head(queue[l]).msg)
  /\ queue' = [queue EXCEPT ![l] = Tail(@)]
  /\ UNCHANGED <<conn, app>>

Connection(c) ==
  /\ Free(LoopOf[c]) /\ (Establish(c) \/ Lose(c))
  /\ CASE app.kind = "server" -> onConnection(c)
       [] app.kind = "threaded" -> onConnectionLocked(c)
       [] app.kind = "efficient" -> onConnectionCopy(c)
       [] app.kind = "highperformance" -> onConnectionLocal(c)
  /\ UNCHANGED <<sent, queue>>

Message(c) ==
  /\ Free(LoopOf[c]) /\ Open(c) /\ New <= MaxMessages
  /\ CASE app.kind = "server" -> onStringMessage(c)
       [] app.kind = "threaded" -> onStringMessageLocked(c)
       [] app.kind = "efficient" -> getConnectionList(c)
       [] app.kind = "highperformance" -> onStringMessageLoops(c)
  /\ UNCHANGED conn

Next == \/ \E c \in Conns : Connection(c) \/ Message(c)
        \/ \E l \in Loops : SendNext(l) \/ Release(l) \/ RunFunctor(l)

-----------------------------------------------------------------------------
Copies(c, m) ==
  Cardinality({i \in DOMAIN sent[c] : sent[c][i] = m})
    + Cardinality({i \in DOMAIN queue[LoopOf[c]] :
                     queue[LoopOf[c]][i].msg = m /\ queue[LoopOf[c]][i].to \in {c, "all"}})
    + Cardinality({l \in Loops : /\ ~Free(l) /\ app.reader[l].msg = m
                                 /\ c \in app.lists[app.reader[l].list] \ app.reader[l].done})

\* A message reaches every client that was up when it came and still is,
\* once, or is on its way to it; no client gets a message twice.
EveryoneIsTold ==
  \A m \in DOMAIN app.told, c \in Conns :
    conn[c] = "up" => IF c \in app.told[m] THEN Copies(c, m) = 1 ELSE Copies(c, m) <= 1

\* All clients see the messages in one order where the server has a loop only,
\* or passes them to all loops while it holds the mutex.  The other servers
\* keep the order of the messages of each client.
OrderKept ==
  \A c \in Conns : \A i, j \in DOMAIN sent[c] :
    (i < j /\ sent[c][i] > sent[c][j]) =>
      /\ app.kind \in {"threaded", "efficient"}
      /\ app.from[sent[c][i]] # app.from[sent[c][j]]

\* Nobody changes a list while a thread iterates over it.
ListsStay == \A l \in Loops : Free(l) \/ app.lists[app.reader[l].list] = app.reader[l].was
=============================================================================
