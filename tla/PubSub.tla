------------------------------- MODULE PubSub -------------------------------
(***************************************************************************)
(* examples/hub: the server of hub.cc, with a PubSubClient of pubsub.cc at *)
(* the other end of every connection.  The commands of a client are on     *)
(* their way in app.toHub, the messages of the hub in sent.  Contents are  *)
(* numbered as they are published, and 0 stands for none (lastPubTime_ is  *)
(* not valid).  Codecs.tla has parseMessage().                             *)
(***************************************************************************)
EXTENDS Connections

CONSTANTS
  Topics,        \* utc_time is one of them
  utc_time,
  MaxCommands    \* bound: the commands of all clients, and the times published

\* topics_, where getTopic() makes the ones that are missing; subs is the
\* context of a connection.  seen is what a client's callback got last.
Init ==
  /\ ConnectionsInit
  /\ app = [topics |-> [t \in Topics |-> [content |-> 0, audiences |-> {}]],
            subs |-> [c \in Conns |-> {}], toHub |-> [c \in Conns |-> <<>>],
            subscribeCallback |-> {}, seen |-> [c \in Conns |-> [t \in Topics |-> 0]],
            made |-> 0, commands |-> 0, stopped |-> {}]

Message(t, content) == [topic |-> t, content |-> content]

-----------------------------------------------------------------------------
\* The hub.
onConnection(c) == Establish(c) /\ UNCHANGED <<sent, queue, app>>

\* A topic whose new subscribers wait for the next message.
addSilently(c, t) ==
  /\ app' = [app EXCEPT !.toHub[c] = Tail(@), !.subs[c] = @ \cup {t},
                        !.topics[t].audiences = @ \cup {c}]
  /\ UNCHANGED sent

\* doSubscribe() and Topic::add().
doSubscribe(c, t) ==
  /\ app' = [app EXCEPT !.toHub[c] = Tail(@), !.subs[c] = @ \cup {t},
                        !.topics[t].audiences = @ \cup {c}]
  /\ sent' = IF app.topics[t].content = 0 THEN sent
             ELSE Sent({c}, Message(t, app.topics[t].content))

\* doUnsubscribe() and Topic::remove().
doUnsubscribe(c, t) ==
  /\ app' = [app EXCEPT !.toHub[c] = Tail(@), !.subs[c] = @ \ {t},
                        !.topics[t].audiences = @ \ {c}]
  /\ UNCHANGED sent

\* doPublish() and Topic::publish().
doPublish(t, before) ==
  /\ app' = [before EXCEPT !.made = @ + 1, !.topics[t].content = before.made + 1]
  /\ sent' = Sent(app.topics[t].audiences, Message(t, before.made + 1))

onMessage(c) ==
  /\ Open(c) /\ app.toHub[c] # <<>>
  /\ LET m == Head(app.toHub[c])
     IN  CASE m.cmd = "sub" -> doSubscribe(c, m.topic)
           [] m.cmd = "unsub" -> doUnsubscribe(c, m.topic)
           [] m.cmd = "pub" -> doPublish(m.topic, [app EXCEPT !.toHub[c] = Tail(@)])
  /\ UNCHANGED <<conn, queue>>

timePublish ==
  /\ app.made < MaxCommands
  /\ doPublish(utc_time, app)
  /\ UNCHANGED <<conn, queue>>

\* onConnection() of a connection that is down: the loop goes over a set that
\* doUnsubscribe() erases from, with a reference to what was erased.  This is
\* undefined; the connection may stay in the audience of any of its topics.
onConnectionDown(c) ==
  /\ Lose(c)
  /\ \E left \in SUBSET app.subs[c] :
       app' = [app EXCEPT !.subs[c] = left, !.toHub[c] = <<>>,
                 !.topics = [t \in Topics |->
                    IF t \in app.subs[c] \ left
                    THEN [@[t] EXCEPT !.audiences = @ \ {c}] ELSE @[t]]]
  /\ UNCHANGED <<sent, queue>>

-----------------------------------------------------------------------------
\* PubSubClient.  send() is for a connection that is up; after stop() it is not.
send(c, cmd, t) ==
  /\ conn[c] = "up" /\ c \notin app.stopped /\ app.commands < MaxCommands
  /\ app' = [app EXCEPT !.commands = @ + 1,
                        !.toHub[c] = Append(@, [cmd |-> cmd, topic |-> t]),
                        !.subscribeCallback = IF cmd = "sub" THEN @ \cup {c} ELSE @]
  /\ UNCHANGED <<conn, sent, queue>>

subscribe(c, t) == send(c, "sub", t)
unsubscribe(c, t) == send(c, "unsub", t)
publish(c, t) == send(c, "pub", t)

stop(c) ==
  /\ conn[c] = "up" /\ c \notin app.stopped
  /\ app' = [app EXCEPT !.stopped = @ \cup {c}]
  /\ UNCHANGED <<conn, sent, queue>>

\* onMessage() of the client.
onPublication(c) ==
  /\ sent[c] # <<>>
  /\ sent' = [sent EXCEPT ![c] = Tail(@)]
  /\ app' = IF c \in app.subscribeCallback
            THEN [app EXCEPT !.seen[c][Head(sent[c]).topic] = Head(sent[c]).content]
            ELSE app
  /\ UNCHANGED <<conn, queue>>

Next ==
  \/ timePublish
  \/ \E c \in Conns :
       \/ onConnection(c) \/ onMessage(c) \/ onConnectionDown(c)
       \/ stop(c) \/ onPublication(c)
       \/ \E t \in Topics : subscribe(c, t) \/ unsubscribe(c, t) \/ publish(c, t)

-----------------------------------------------------------------------------
\* What a client has seen of a topic once it has read all that was sent.
LastSeen(c, t) ==
  LET got == SelectSeq(sent[c], LAMBDA m : m.topic = t)
  IN  IF got = <<>> THEN app.seen[c][t] ELSE Last(got).content

\* The hub and its connections agree on who listens to what, and the last that
\* a subscriber hears of a topic is the last that was published, also when
\* that was before it subscribed.
SubscribersUpToDate ==
  \A c \in Conns, t \in Topics : conn[c] = "up" =>
    /\ c \in app.topics[t].audiences <=> t \in app.subs[c]
    /\ t \in app.subs[c] => LastSeen(c, t) = app.topics[t].content
=============================================================================
