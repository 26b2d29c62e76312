# muduo in TLA+

This directory specifies muduo: the reactor of `src/muduo/muduo/net`, the threads
around it and the components that run inside it, the concurrent parts of
`src/muduo/muduo/base`, the protocols above them, and the example programs that
have state of their own. Each module is written from the source; `PROJECT.json` maps every definition to its lines, lists the
runs, the mutants that show that each property can fail, the hazards and the
theorems. TLC checks small instances; TLAPS proves the main results for all
values of the constants.

Below, `net/`, `base/` and `examples/` stand for `src/muduo/muduo/net/`,
`src/muduo/muduo/base/` and `src/muduo/examples/`.

## The system

- An **EventLoop** runs in one thread. It waits in a **Poller** (`EPollPoller` or
  `PollPoller`) for events of **Channel**s, calls their handlers, and runs the
  functors that other threads have queued with `runInLoop()`/`queueInLoop()`; an
  eventfd ends the wait when a functor is queued or `quit()` is called.
- A **TimerQueue** belongs to each loop: two sets of timers and a timerfd.
- An **EventLoopThread** is a thread with a loop; an **EventLoopThreadPool** is
  several of them, handed out in turn.
- A **TcpConnection** belongs to one loop. Other threads reach it through functors.
  Functors, the owner's map and the channel's tie keep it alive.
- A **TcpServer** has an **Acceptor** in a base loop, spreads its connections over
  the pool and keeps them in a map that only the base loop touches.
- A **TcpClient** has a **Connector**, which tries until it is connected and hands
  the descriptor over to a TcpConnection.
- A **Buffer** is the input and the output buffer of a connection.
- `base/`: **AsyncLogging** (many threads append, one writes to a **LogFile**),
  **ThreadPool**, **CountDownLatch**, the blocking queues, threads, mutexes, and
  **Logger** with its **LogStream**.
- `net/http`, `net/protorpc` and `net/inspect` are protocols over these: decoders
  of the byte stream, remote calls, and a server of commands.
- `examples/`: chat servers, a hub for publications, servers that limit their
  connections, file transfer, tunnels, a multiplexer, a distributed word count,
  sudoku servers.

The components in `PROJECT.json` are the complete list, with what is left out.

## Modules

| module | models | state and actions |
|---|---|---|
| `EventLoop` | `net/EventLoop.cc` | `pc` is the place of the loop thread in `loop()`; the flags, `pendingFunctors` and the local vector of `doPendingFunctors()` have the names of the code. `queueInLoop()` and `quit()` are two steps each: the push (or assignment), then the test of the flags and the write to the eventfd. |
| `FunctorQueue` | what `EventLoop` promises | one FIFO queue, each functor run once |
| `EventLoopThread` | `net/EventLoopThread.cc` | extends `EventLoop`: `startLoop()`, `threadFunc()`, destructor |
| `Channel`, `Poller` | `net/Channel.*`, `net/Poller.h` | the objects common to the pollers; the contract of a poller |
| `EPollPoller`, `PollPoller`, `DefaultPoller` | `net/poller/*.cc` | `channels`, `index` and the kernel's list or the `pollfd` array |
| `TimerQueue` | `net/TimerQueue.cc`, `net/Timer.*` | the heap of `Timer` objects (an address may be used again), `timers`, `activeTimers`, `cancelingTimers`, the batch being run, the timerfd |
| `ByteStream` | what the sending side of a connection promises | bytes accepted, bytes on the wire, end of stream |
| `TcpConnection` | `net/TcpConnection.cc`, `handleEvent()` of `net/Channel.cc` | `state`, interest and registration of the channel, the output buffer, the queues of the loop; the peer and the socket are the environment |
| `TcpServer` | `net/TcpServer.cc`, `net/EventLoopThreadPool.cc` | the map, the loops with their queues, the life of each connection |
| `Connector`, `TcpClient` | `net/Connector.cc`, `net/TcpClient.cc` | the operators of the connector, and a loop that calls them together with the client, its user and a second thread |
| `CountDownLatch` | `base/CountDownLatch.cc` | used by the next two |
| `AsyncLogging` | `base/AsyncLogging.cc`, `base/LogFile.cc` | the four buffers and the vectors, by their names; the files, their period and the time of the last roll and flush |
| `ThreadPool` | `base/ThreadPool.cc` | queue, workers, waits, owner |
| `ByteQueue` | what a `Buffer` promises | a queue of bytes |
| `Buffer` | `net/Buffer.h`, `net/Buffer.cc` | the vector and its two indices |
| `Codecs` | `net/Endian.h`, the reading operations of `net/Buffer.h`, `net/protorpc/RpcCodec.cc`, `examples/protobuf/codec`, `examples/asio/chat/codec.h`, `examples/hub/codec.cc`, `examples/sudoku/server_basic.cc`, `examples/fastcgi` | integers in network order, `findCRLF()`, the connection as a decoder sees it; each `onMessage()` is an operator from a connection (buffer, members, output) to the next |
| `HttpServer` | `net/http` | the same for the parser of requests, with `HttpContext` and the answer |
| `Framing` | the stream between a peer and a decoder | a script of messages arrives in pieces of any size |
| `Connections` | `TcpConnection` as a program sees it | up, closing, down; what was sent; functors of each loop. The programs below extend it: `app` is the program's state |
| `Acceptor` | `net/Acceptor.cc` | `handleRead()`, one system call per step, with the descriptors of the process |
| `RpcChannel` | `net/protorpc/RpcChannel.cc`, `RpcServer.cc` | calls of several threads, `outstandings_`, answers in any order |
| `Inspector` | `net/inspect/Inspector.cc` | the maps between the assignments of `add()`, and requests |
| `LogLines` | `base/Logging.*`, `base/LogStream.*` | a stack of Loggers with their buffers, the cached time, conversion of numbers |
| `BlockingQueues` | `base/BlockingQueue.h`, `base/BoundedBlockingQueue.h` | the queue, and where each thread is |
| `ChatServers` | `examples/asio/chat/server*.cc` | the four servers, with the lists that threads share or copy |
| `PubSub` | `examples/hub` | topics, subscriptions, and the clients |
| `IdleConnections` | `examples/idleconnection`, `examples/maxconnection` | the wheel of buckets, the list by time, the counter |
| `FileTransfer` | `examples/filetransfer` | files, their owners and the pieces sent |
| `Relay` | `examples/socks4a` | both ends of a Tunnel, the request, what was sent early |
| `Multiplexer` | `examples/multiplexer` | both multiplexers and the demultiplexer, with packets on their way in each direction. The connections between the two servers are numbered, since each end sees a loss in its own time and `demux.cc` may still have an old one when a new one comes. A packet names its client, as history |
| `WordCount` | `examples/wordcount` | hashers with a main and a loop thread, receivers; `throttle()` waits on a condition that `onWriteComplete()` notifies, and may wake for no reason |
| `Sudoku` | `examples/sudoku` | the dancing links with the recursion as a stack; requests in loops or in a ThreadPool |
| `*Proofs` | | theorems about the module of that name; `EventLoopProofs` also about `EventLoopThread`, and `EPollPollerProofs` about `PollPoller` and `DefaultPoller` |
| `MC*` | | instances for TLC, where a `.cfg` file is not enough; `MCPrograms` puts the programs above `Connections` into one specification, with one program in each behaviour |

A critical section is one action; what the code does outside of it, before and
after, is not part of that action. A data race (`started_` of `TcpServer`,
`running_`, `quit_`, `state_`) is a read or a write in a step of its own.

## Runs

`tlc -config X.cfg X` checks the instance `X`; each takes between some seconds and
three minutes.

| run | module | shows |
|---|---|---|
| `event_loop` | `EventLoopThread` | An EventLoop in its thread, two threads that queue functors, an I/O channel. `NoLostWakeup`: the loop does not sit in `poll()` with work and nobody to wake it. `LoopUsable`: `startLoop()` hands out a live loop. `ImplementsFunctorQueue`, `QueuedRuns`, `DestructorReturns`. |
| `event_loop_thread_prompt` | `EventLoopThread` | the same with an owner that does not wait: `DestructorReturns` is violated (see below) |
| `pollers` | `MCDefaultPoller` | Either poller. `IndexInv`: map, indexes and kernel agree, `epoll_ctl()` does not fail, no destroyed channel is reachable. `ImplementsPoller`. `PollIndexInv`: array, map and indexes of `PollPoller` agree through swaps on removal. |
| `timer_queue` | `TimerQueue` | `QueuesAgree`: the two sets agree and no pointer dangles. `CancelStops`: a cancelled timer does not come back. `TimersFire`. |
| `tcp_connection` | `TcpConnection` | `ConnectionInv`: POLLOUT is awaited exactly when there is output; accepted = written + buffered; the high water mark is reported when the buffer reaches it; no FIN before the last byte. `ImplementsByteStream`. `ClosesInTheEnd`: a shutdown completes, a closed connection is removed. |
| `tcp_server` | `TcpServer` | `ConnectionsLiveOnce`: the map and the functors on their way agree about each connection, callbacks come once each and in order. `ServerWindsUp`: closed connections are destroyed, and the destructor returns. |
| `tcp_client` | `TcpClient` | `OneAttemptOneSocket`, `NothingCallsTheDead`, `ConnectsInTheEnd` |
| `async_logging` | `AsyncLogging` | `LogInv`: the assertions of `threadFunc()` hold, lines reach the file once and in order, files are rolled in time. `DropsOnlyWhenBehind`, `LinesReachTheFile`. |
| `thread_pool` | `ThreadPool` | `TasksInv`: tasks are taken in order and run once, nobody sleeps while one waits, a latch is a barrier. `OwnerReturns`. |
| `buffer` | `Buffer` | `IndexInv`, `ImplementsByteQueue` |
| `framing` | `Framing` | Seven decoders. `MessagesSurvive`: however the stream is cut, what is delivered is what was sent. `RefusedForAReason`: a connection is given up only after a bad or a last message. |
| `programs` | `MCPrograms` | The programs above the library, in every interleaving of their connections, loops, threads and timers, with connections that are lost at any time: `BroadcastsArrive` (chat servers, hub), `IdleConnectionsClose`, `DownloadsAreWhole`, `TunnelsPassAll`, `ClientsShareABackend`, `CallsComplete` (RpcChannel), `WordsAreCounted`, `SudokusAreSolved`, `QueuesWake` (blocking queues), `AcceptorKeepsItsOwn`, `LogLinesAreWhole`, `InspectorAnswers`. Each is the conjunction of the properties of that program's module. |

### Bounds

- `event_loop`: two callers besides the loop thread let one push race the write of
  the other; three functors let one be in the running batch, one pending and one
  being pushed. A channel makes the loop pass through the dispatch.
- `pollers`: four channels, two of which share a descriptor one
  after the other (as the Connector's and the connection's do), so that removal
  hits the first, a middle and the last entry. The two are symmetric: exchanging
  them changes nothing. `InitEventListSize` is 1 so that the
  list of events fills and grows.
- `timer_queue`: two addresses, so that a `Timer` can be allocated where one was
  deleted; an interval of 1 and times up to 3 give a repeating timer several
  batches. `MaxTime` stops the clock.
- `tcp_connection`: messages of one and two bytes, a socket that takes one byte and
  a high water mark of two: every direct write may be complete, partial or empty.
- `tcp_server`: up to two I/O threads and three connections, so that `getNextLoop()`
  wraps around, and the pool without threads.
- `tcp_client`: two connections (the client reconnects once), a delay that is
  doubled and capped.
- `async_logging`: two producers, five lines, buffers of two lines (the code needs
  `avail() > len`), and dropping beyond two buffers instead of 25. A period of three
  seconds, a look at the clock every second append and a roll after three lines let
  size and period roll in turn; `flushInterval` 0 flushes in every new second.
- `thread_pool`: three workers and four tasks, so that tasks, waits and the
  notifications of several workers overlap.
- `buffer`: `kCheapPrepend` 1 and `kInitialSize` 2 instead of 8 and 1024; `readFd()`
  has an extra buffer of 2 bytes; up to 4 readable bytes, so that moving, growing
  and both pieces of `readFd()` occur.

- `framing`: three messages per stream, good and bad, of every decoder; integers have
  two bytes of base 8, so that a negative, a too small and a too large length exist, and
  the input of a FastCGI request can be longer than a record.
- `programs`: three connections in two loops for the chat servers, so that two share
  a loop and a third is elsewhere; two connections where clients of one server meet,
  one where they do not. An idle time of two ticks within six. The multiplexer three
  times: two clients with two ids and a backend that is lost once and comes back; two
  clients with two ids that send two packets and get two answers, so that order
  matters; three clients with one id, so that it is used again and again. Three calls
  of three threads; four words with a batch and a high water mark of two; boards of 4 by 4
  that need no search, a search that goes back, or have no solution; three producers
  and three consumers of a queue of two; four descriptors; log buffers of 14
  characters that two arguments may fill.

`CHECK_DEADLOCK FALSE` is set where the program may stop: objects are destroyed,
the clock or the input ends. `pollers` checks for deadlock.

### Fairness

- Threads are scheduled: weak fairness of each thread's own steps. A wait is not a
  step; the wakeup is.
- Callbacks, functors and tasks return. Where a callback may make any number of calls
  before it returns this is strong fairness of the return (`EventLoop`, `TimerQueue`).
- Nobody has to call `loop()`, `send()`, `stop()` and so on, and spurious wakeups are
  allowed but never needed. `kPollTimeMs` is not used: `poll()` may wait for ever.
  The one timeout that the code relies on, `flushInterval_` of `AsyncLogging`, is.
- `TimerQueue`: time passes, and the loop gets to an expired timerfd and to its
  functors although other callbacks may come between (strong fairness, since
  an epoll wait reports every ready descriptor again).
- `TcpConnection`: the peer takes bytes, or the connection ends; the owner removes a
  connection that reports its close (`TcpServer` and `TcpClient` do).
- `framing` and `programs` have no fairness: they check safety. That a waiting thread
  will be woken is stated as an invariant there (somebody is awake, or something is
  on its way, that wakes it).
- `TcpClient`: an attempt that is made again and again succeeds in the end (the
  premise under which `ConnectsInTheEnd` is interesting: the code must keep trying).

## Proofs

The theorems hold for every value of the constants that the assumptions named in the
modules (`ASSUME`) allow. Threads, channels, functors and messages are any sets, finite
or not. Sizes and bounds are natural numbers, and special values are not members of the
sets. Three sets are finite, because something in them is counted or listed: the
descriptors of a process (`EPollAssumption`), the connections that a `TcpClient` makes
(`ConnsAssumption`) and the workers of a `ThreadPool` (`PoolAssumption`). The base loop's
thread is one of the callers of `TcpServer::start()` (`ServerAssumption`), and the owner of
an `EventLoopThread` is a thread other than the loop's (`OwnerAssumption`).

Each invariant is proved from an inductive one. What had to be added is what is worth
reading:

- `EventLoopProofs`. `LoopInv` is inductive. The part that makes it so is the wakeup
  on record: outside the dispatch and before the swap, pending functors imply that
  the eventfd is readable, or that a thread that pushed one has still to write to
  it, or that the loop thread queued them before `loop()`. `NoLostWakeup` alone
  says this only about `poll()`, and a step into `poll()` would not preserve it.
  `LoopInvariant`, `WakeupNeverLost` and `Refinement` (the vector being run followed
  by `pendingFunctors_` is the queue) follow.
  `ThreadImplementsLoop` shows that every step of `EventLoopThread` is a step of its
  `EventLoop` or none, so that these results hold of the loop that `threadFunc()` runs
  (`ThreadLoopCorrect`). `ThreadLoopUsable` is `LoopUsable`. It rests on `ThreadInv`: `loop_`
  is set exactly from its publication on, and only the destructor calls `quit()`, so the
  thread leaves `loop()` only when the owner is in `join()`.
- `EPollPollerProofs`. `IndexInv` relates `index_`, the map and the kernel, channel
  by channel, and says that `epoll_ctl()` has not failed; it is inductive
  (`EPollInvariant`), and gives `NoDanglingChannel` and `EPollRefinesPoller`.
  `PollPollerCorrect` is `PollIndexInv`, for either choice of `newDefaultPoller()`. Its
  invariant says that the entry at a mapped channel's index has that channel's descriptor
  and events, and that every entry belongs to a mapped channel. Then no two channels share
  an entry, and the swap in `removeChannel()` moves the last entry's channel and no other.
- `TimerQueueProofs`. `TimerInv` adds to the three invariants that sequence numbers
  are not used again, that a cancelled timer of the batch is noted in
  `cancelingTimers_`, that queued additions are of timers that are in no set yet, and
  what the timerfd is set for while a batch runs. `TimerQueueCorrect`,
  `CancelledStaysOut` (`CancelStops`), `NoForgottenTimer`.
- `TcpConnectionProofs`. `ConnectionInv` adds that nothing is sent before
  `connectEstablished()` and that events are left over only while they are handled;
  one lemma describes `sendInLoop()` in all its cases. `OutputCorrect`,
  `ConnectionImplementsByteStream`.
- `TcpServerProofs`. `ConnectionsLiveOnceCorrect`, for any number of I/O threads and of
  connections. Each connection is at one place of a tale (`TaleOf`) that fixes its
  `state_`, its registration, whether it is in the map, what its callbacks were told,
  and how many `connectEstablished()`, `removeConnectionInLoop()` and
  `connectDestroyed()` are on their way. `NoStray` says that each of these is on its way
  to the loop that it is for, and `InOrder` that nothing that destroys a connection is
  ahead of what establishes it. `LoopInv` and `StartInv` say that nothing is queued before
  `start()` and that a loop quits only in the destructor, when the map is empty.
  What is on its way is counted as the number of places of a queue that hold it; a few
  lemmas say what a push, a swap and a run do to the counts.
- `TcpClientProofs`. `OneAttemptCorrect` and `DeadClientCorrect`. The heart is
  `Doing <= 1`: a client that may still be started, waits for its retry timer, connects,
  is connected or restarts does one of these and only one (`StartInv`). Hence
  `startInLoop()` always finds `kDisconnected` and no channel. `QueueInv` says that
  `resetChannel()` and `connectDestroyed()` are queued once for each channel removed and
  connection closed; `IterationInv`, that what `poll()` reported is still there when it is
  handled; `OwnerInv` and `DeadInv`, who knows whom while the client lives and what is left
  when it is gone.
- `ThreadPoolProofs`. `ThreadPoolCorrect` is `TasksInv`, for any number of workers and tasks.
  The queue is the end of what was queued (`OrderInv`); what was taken is run by one
  worker or has run (`TakenInv`); a worker that waits is in `take()` (`WorkerInv`), so that
  enough workers are awake for the tasks in the queue (`NoIdleWorker`); and the latch is
  counted down only by its own task (`LatchInv`), before which all earlier ones were taken.
- `BufferProofs`. One lemma per operation says what it does to the content;
  `BufferInvariant`, `BufferIsByteQueue` and `BufferGrowth` follow.

Only model-checked: all liveness properties (the prover does not handle fairness);
`AsyncLogging`; and the decoders and programs. Most of the last are made of recursive
operators and folds over data, whose results for every input the prover cannot
establish by induction. `LogInv` and `DropsOnlyWhenBehind` are about the lines flattened and
selected from sequences of buffers, which are recursive definitions too; the part of
`LogInv` that is about the buffers alone (`BuffersInv`) does not need them, and no proof of it
has been written.

## What the code does not guarantee

While modelling, these properties were stated, and TLC or a reading of the
assertions showed that they do not hold. The models are restricted, where necessary,
to programs that keep away from them; the restriction is named in each module.

- **EventLoopThread destroyed at once** (`net/EventLoopThread.cc:34`, run
  `event_loop_thread_prompt`). `threadFunc()` sets `loop_` and notifies; `startLoop()`
  returns; the destructor calls `quit()`; only then `loop()` is entered and sets
  `quit_ = false` (`net/EventLoop.cc:113`). `join()` waits for ever.
- **quit() of another thread** (`net/EventLoop.cc:158`) uses the loop after setting
  `quit_`; a loop on the stack of its thread may be gone by then.
- **A functor queued by the loop thread before `loop()`** gets no wakeup
  (`net/EventLoop.cc:185`) and waits for the first event or for `kPollTimeMs`.
- **PollPoller** (`RemovedIsIgnored`, `ImplementsPoller` of `PollPoller`). A channel
  that is disabled has its entry set to `-fd-1`; enabled again, `updateChannel()`
  (`net/poller/PollPoller.cc:134`) does not restore the descriptor, and the
  channel is not polled any more. The removal of a channel that was added without
  interest meets the assertion at line 155.
- **TimerQueue.** `CancelledNeverRuns` (`net/TimerQueue.cc:182`): a callback that cancels a
  timer of its own batch that is still to run does not stop that run.
  `AddTimerReadsLive` (`:134`): `addTimer()` in another thread queues the functor and
  then reads the sequence number of a `Timer` that the loop may have run and deleted.
  `CancelFollowsAdd` (`:140`): a `cancel()` in the loop thread overtakes the queued
  addition, finds nothing, and the timer is then added.
- **TcpConnection.** `NoUseAfterFree` (`net/TcpConnection.cc:107`): `send()` in another
  thread queues `sendInLoop()` with a plain pointer; the connection is closed and
  deleted before it runs. `RemoveAborts` (`:294`, `net/Channel.cc:58`): the owner is
  destroyed after `shutdown()`; `connectDestroyed()` in state `kDisconnecting` does not
  disable the channel, and `remove()` asserts that it is. `shutdown()` (`:243`) tests and
  sets `state_` without synchronisation, as its header says.
- **TcpServer.** `start()` is called "Thread safe" and harmless to repeat
  (`net/TcpServer.h:67`), but tests `started_` without a lock and asserts the base
  loop's thread in the pool (`net/EventLoopThreadPool.cc:36-37`). `removeConnection()`
  queues a functor with a plain pointer to the server (`net/TcpServer.cc:156`, "FIXME:
  unsafe"), which may be destroyed first. The destructor queues `connectDestroyed()`
  and then ends the loops (`:64`); a loop that finds `quit_` set after a batch drops it,
  and the connection is never reported down.
- **Connector and TcpClient.** `start()` a second time, after `stop()` with a retry
  timer pending, or after the connection was closed (`state_` stays `kConnected`) meets
  the assertion at `net/Connector.cc:53`; `start()` right after `stop()` in one iteration
  meets `assert(!channel_)` at line 149. `stop()` in the handler of another channel while
  the connector's is active meets the assertion of `EventLoop::removeChannel()`
  (`net/EventLoop.cc:234`). `restart()` may override a `stop()` of another thread.
  A client destroyed in the iteration in which it connected leaves
  `resetChannel()` queued with a dangling pointer (`net/Connector.cc:39`). The model also
  assumes that no retry timer is due in the iteration in which a channel was removed:
  the delay is half a second at least.
- **AsyncLogging.** Lines appended after the last swap before `stop()` are not written
  (`base/AsyncLogging.cc:91`).
- **ThreadPool.** Tasks in the queue at `stop()` are dropped, unless a latch is waited
  for first (`LatchIsABarrier`).
- **Logger.** A line near the end of its buffer loses the parts that do not fit, the
  newline of `finish()` included (`base/LogStream.h:44`). The comment lines inside the
  definition of `LOG_TRACE` (`base/Logging.h:122`) end the macro early; the model has
  the macro without them.
- **Inspector.** `onRequest()` reads `commands_` without `mutex_`
  (`net/inspect/Inspector.cc:152`), which is a data race with `add()`.
- **Acceptor.** Between the close of `idleFd_` and the `accept()`
  (`net/Acceptor.cc:95-98`) another thread may take the descriptor; `idleFd_` may then
  stay -1.
- **Decoders.** `RpcCodec` and the protobuf codec go on with the loop of `onMessage()`
  after an error unless the callback empties the buffer. `setMethod()` of `HttpRequest`
  asserts that there is no method yet, which fails when more data follow a request
  line that was refused; `HttpServer` handles one request per call of `onMessage()`.
  The sudoku servers wait for more when a line is shorter than a puzzle, and whether
  an id is too long depends on how the bytes arrive. The hub closes the connection
  at an unknown command. `FastCgiCodec::respond()` sends a body that is too long for the
  length of a record without a header (`examples/fastcgi/fastcgi.cc:171`, "FIXME").
- **RpcChannel.** `CallMethod()` sends before it registers the call
  (`net/protorpc/RpcChannel.cc:57`): called in another thread than the loop's it may
  miss its answer. A request for an unknown service or method is not answered, and
  `done` must not be run after the server's connection is gone.
- **Sudoku servers.** With the pool, answers that are under way when a bad request
  closes the connection are lost, or come after "Bad Request!".
- **Hub.** A connection that is down is unsubscribed while the set of its topics is
  iterated over (`examples/hub/hub.cc:96-107`). `PubSubClient` does not subscribe again
  after it has reconnected.
- **File transfer.** A queued `onWriteComplete()` of `download2.cc` may read from a
  `FILE*` that the down handler has closed.
- **Tunnels.** A tunnel that connects after its peer has gone stays up.
- **Multiplexer.** Answers, and a `DISCONNECT`, that are on their way for an id that is
  used again reach the new client, before what is meant for it. `demux.cc` never erases
  the entry of a connection that was made, and asserts at line 129 when its id comes
  again; `ClientsKeptApart` says that no other assertion fails. It is about one
  connection between the servers: a client of before its loss that goes down when the backend is back
  returns an id that is in use; `demux.cc` shuts down a new connection while it has the
  old one (line 62), but goes on reading from it; and when the connection it has is lost
  it destroys clients that are connected (line 75).
- **Word count.** A hasher whose connection is lost waits in `throttle()` for ever.
- **Idle connections.** The list of `sortedlist.cc` is sorted by the time of the
  poll, not of the callback, and a connection may be closed late by that difference.

## Not modelled

`PROJECT.json` gives the reason for each part. Wrappers of system calls, value types
and files (`Socket`, `InetAddress`, `Timestamp`, `FileUtil`, `StringPiece`, ...) have no
behaviour over time: their results are inputs of the models that call them. Threads,
mutexes, conditions and atomics are the steps of the modules that use them.
`Singleton` and `ThreadLocal` leave their work to pthread. The wrappers of libcurl and
udns take their order of callbacks from libraries that are not in the repository. The
examples that echo, discard, generate or measure have one send or one retrieve per
callback and no state beyond `TcpConnection`; clients that read a terminal, and the
load tests, have none either. The data of messages, addresses and names is abstracted
everywhere. Memory allocation and thread creation do not fail in the models, as the
code gives up when they do.
