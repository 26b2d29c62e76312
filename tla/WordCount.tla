------------------------------ MODULE WordCount ------------------------------
(***************************************************************************)
(* examples/wordcount: hashers (hasher.cc) count the words of their files  *)
(* and send the counts to the receivers (receiver.cc), which add them up   *)
(* and write their shard when all hashers are gone.  A hasher's main       *)
(* thread fills a SendThrottler for each receiver and waits in throttle()  *)
(* while the connection is congested; the thread of its loop writes, and   *)
(* runs the two callbacks that the connection queues.  A connection is     *)
(* <<hasher, receiver>>.                                                   *)
(***************************************************************************)
EXTENDS Connections

CONSTANTS
  Hashers, Receivers,
  Words,
  Bucket,       \* the receiver of a word: its hash % buckets_.size()
  g_batchSize,  \* records in a batch
  HighMark,     \* records in outputBuffer_ at the high water mark
  MaxWords      \* bound: words in the files of all hashers

\* Of a hasher: main is where its main thread is, records what it has still to
\* hand over, as <<word, count>>, and queue the functors of its loop; of a
\* connection: buffer (buffer_), congestion (congestion_), output (outputBuffer_),
\* and in sent what the receiver has not handled yet.  A receiver has counts
\* (wordcounts_), senders (senders_), and the shards it has written.
Init ==
  /\ ConnectionsInit
  /\ app = [main |-> [h \in Hashers |-> "connect"], records |-> [h \in Hashers |-> <<>>],
            read |-> [h \in Hashers |-> <<>>],
            buffer |-> [c \in Conns |-> <<>>], congestion |-> [c \in Conns |-> FALSE],
            output |-> [c \in Conns |-> <<>>],
            counts |-> [r \in Receivers |-> [w \in Words |-> 0]],
            senders |-> [r \in Receivers |-> Cardinality(Hashers)],
            shard |-> [r \in Receivers |-> {}]]

Functor(f, c, records) == [f |-> f, c |-> c, records |-> records]
Callbacks(c, fs) == [i \in DOMAIN fs |-> Functor(fs[i], c, <<>>)]
Pairs(h) == {c \in Conns : c[1] = h}
At(h, at) == app.main[h] = at
Occurrences(s, w) == Cardinality({i \in DOMAIN s : s[i] = w})

WordsRead == FoldSet(LAMBDA h, n : n + Len(app.read[h]), 0, Hashers)

-----------------------------------------------------------------------------
\* connectAll(): each connect() waits on its latch until onConnection() has run.
onConnectionUp(c) == Establish(c) /\ UNCHANGED <<sent, queue, app>>

ConnectAll(h) ==
  /\ At(h, "connect") /\ \A c \in Pairs(h) : conn[c] = "up"
  /\ app' = [app EXCEPT !.main[h] = "process"]
  /\ UNCHANGED <<conn, sent, queue>>

\* processFile(): the words of a file are counted; the records go to the buckets
\* in the order of the map, which is any.
processFile(h) ==
  /\ At(h, "process") /\ app.records[h] = <<>>
  /\ \E n \in 1 .. MaxWords - WordsRead : \E file \in [1 .. n -> Words] :
       \E order \in SetToSeqs(ToSet(file)) :
         app' = [app EXCEPT !.read[h] = @ \o file,
                            !.records[h] = [i \in DOMAIN order |->
                                              <<order[i], Occurrences(file, order[i])>>]]
  /\ UNCHANGED <<conn, sent, queue>>

\* send(): the record is put into buffer_.
send(h) ==
  /\ At(h, "process") /\ app.records[h] # <<>>
  /\ LET record == Head(app.records[h])
         c == <<h, Bucket[record[1]]>>
         filled == Append(app.buffer[c], record)
     IN  app' = [app EXCEPT !.records[h] = Tail(@), !.buffer[c] = filled,
                            !.main[h] = IF Len(filled) >= g_batchSize THEN "throttle" ELSE @]
  /\ UNCHANGED <<conn, sent, queue>>

\* throttle(), for a full batch: cond_.wait() as long as there is congestion.
throttle(c) ==
  /\ At(c[1], "throttle") /\ Len(app.buffer[c]) >= g_batchSize
  /\ app' = [app EXCEPT !.main[c[1]] = IF app.congestion[c] THEN "wait" ELSE "batch"]
  /\ UNCHANGED <<conn, sent, queue>>

\* cond_.wait() may return without a notify().
WakeUp(h) ==
  /\ At(h, "wait")
  /\ app' = [app EXCEPT !.main[h] = "throttle"]
  /\ UNCHANGED <<conn, sent, queue>>

\* send() goes on, without mutex_.
sendBatch(c) ==
  /\ At(c[1], "batch") /\ Len(app.buffer[c]) >= g_batchSize
  /\ queue' = Queued(c[1], Functor("send", c, app.buffer[c]))
  /\ app' = [app EXCEPT !.main[c[1]] = "process", !.buffer[c] = <<>>]
  /\ UNCHANGED <<conn, sent>>

\* disconnect() that leaves what is not a full batch.
DropRest(c) == <<>>

\* disconnect(): what is left in buffer_.
Rest(c) ==
  IF app.buffer[c] = <<>> THEN <<>> ELSE <<Functor("send", c, app.buffer[c])>>

\* disconnect(), bucket by bucket: the rest, without throttle(), and shutdown().
disconnect(c) ==
  LET h == c[1] IN
  /\ At(h, "process") /\ app.records[h] = <<>>
  /\ conn[c] = "up" /\ \A d \in Pairs(h) : conn[d] # "closing"
  /\ queue' = [queue EXCEPT ![h] = @ \o Rest(c) \o Callbacks(c, <<"shutdown">>)]
  /\ app' = [app EXCEPT !.buffer[c] = <<>>,
                        !.main[h] = IF \A d \in Pairs(h) \ {c} : conn[d] = "down"
                                    THEN "done" ELSE @]
  /\ conn' = Closed(c)
  /\ UNCHANGED sent

-----------------------------------------------------------------------------
\* sendInLoop() and handleWrite() of the connection: n of the records are written
\* to the peer; onHighWaterMark() is queued when what is left passes the mark, and
\* onWriteComplete() when nothing is left.
Write(c, records, n, q) ==
  LET old == app.output[c]
      all == old \o records
      left == SubSeq(all, n + 1, Len(all))
      high == records # <<>> /\ Len(left) >= HighMark /\ Len(old) < HighMark
  IN  /\ sent' = [sent EXCEPT ![c] = @ \o SubSeq(all, 1, n)]
      /\ app' = [app EXCEPT !.output[c] = left]
      /\ queue' = [queue EXCEPT ![c[1]] =
                     q \o Callbacks(c, (IF high THEN <<"high">> ELSE <<>>)
                                       \o IF left = <<>> THEN <<"complete">> ELSE <<>>)]
      /\ UNCHANGED conn

\* Only a connection with nothing left writes at once.
sendInLoop(c, records, q) ==
  \E n \in IF app.output[c] = <<>> THEN 0 .. Len(records) ELSE {0} : Write(c, records, n, q)

handleWrite(c) ==
  /\ app.output[c] # <<>>
  /\ \E n \in 1 .. Len(app.output[c]) : Write(c, <<>>, n, queue[c[1]])

onHighWaterMark(c) == [app EXCEPT !.congestion[c] = TRUE]

\* The batch that the main thread waits for is that of c.
WaitsFor(c) == At(c[1], "wait") /\ Len(app.buffer[c]) >= g_batchSize

\* onWriteComplete() that only notifies, and one that does not notify.
StaysCongested(c) == IF WaitsFor(c) THEN [app EXCEPT !.main[c[1]] = "throttle"] ELSE app
NobodyIsNotified(c) == [app EXCEPT !.congestion[c] = FALSE]

\* onWriteComplete(): the congestion is over, and a throttle() that waits is notified.
onWriteComplete(c) ==
  [app EXCEPT !.congestion[c] = FALSE,
              !.main[c[1]] = IF app.congestion[c] /\ WaitsFor(c) THEN "throttle" ELSE @]

\* The loop runs the next functor.
RunFunctor(h) ==
  /\ queue[h] # <<>>
  /\ LET next == Head(queue[h])
         c == next.c
     IN  IF next.f = "send" THEN sendInLoop(c, next.records, Tail(queue[h]))
         ELSE /\ queue' = [queue EXCEPT ![h] = Tail(@)]
              /\ app' = CASE next.f = "high" -> onHighWaterMark(c)
                          [] next.f = "complete" -> onWriteComplete(c)
                          [] next.f = "shutdown" -> app
              /\ UNCHANGED <<conn, sent>>

-----------------------------------------------------------------------------
\* receiver.cc, onMessage(): a record adds its count to the word's.
onMessage(c) ==
  /\ sent[c] # <<>>
  /\ app' = [app EXCEPT !.counts[c[2]][Head(sent[c])[1]] = @ + Head(sent[c])[2]]
  /\ sent' = [sent EXCEPT ![c] = Tail(@)]
  /\ UNCHANGED <<conn, queue>>

\* onConnection(): the last of the senders is down.
LastSender(c) == app.senders[c[2]] = 1

\* The connection is down when all that was sent has been read: output() and
\* quit(), if it was the last.
onConnectionDown(c) ==
  /\ conn[c] = "closing" /\ sent[c] = <<>> /\ app.output[c] = <<>>
  /\ \A i \in DOMAIN queue[c[1]] :
       queue[c[1]][i].c = c => queue[c[1]][i].f \notin {"send", "shutdown"}
  /\ Lose(c)
  /\ app' = [app EXCEPT !.senders[c[2]] = @ - 1,
                        !.shard[c[2]] = IF LastSender(c) THEN @ \cup {app.counts[c[2]]} ELSE @]
  /\ UNCHANGED <<sent, queue>>

Next ==
  \/ \E h \in Hashers : ConnectAll(h) \/ processFile(h) \/ send(h) \/ WakeUp(h) \/ RunFunctor(h)
  \/ \E c \in Conns :
       \/ onConnectionUp(c) \/ throttle(c) \/ sendBatch(c) \/ disconnect(c) \/ handleWrite(c)
       \/ onMessage(c) \/ onConnectionDown(c)

-----------------------------------------------------------------------------
\* The number of times that the hashers have read a word.
TimesRead(w) == FoldSet(LAMBDA h, n : n + Occurrences(app.read[h], w), 0, Hashers)

\* The shard of a receiver is written once, and has for each of its words the
\* number of times that it is in the files of all hashers: no batch is lost
\* between the buffers, and the last hasher to go is waited for.
ShardsAreTotals ==
  \A r \in Receivers :
    /\ Cardinality(app.shard[r]) <= 1
    /\ \A counts \in app.shard[r], w \in Words :
         counts[w] = IF Bucket[w] = r THEN TimesRead(w) ELSE 0

\* A main thread that waits in throttle() is not left there.  It waits only while
\* congestion_ is set, as nobody notifies it otherwise; and while congestion_ is set
\* there is something to write still, or onWriteComplete() is queued and has not run.
ThrottleEnds ==
  \A c \in Conns :
    /\ WaitsFor(c) => app.congestion[c]
    /\ app.congestion[c] =>
         app.output[c] # <<>> \/ Functor("complete", c, <<>>) \in ToSet(queue[c[1]])
=============================================================================
