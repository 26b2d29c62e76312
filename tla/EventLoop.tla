------------------------------ MODULE EventLoop ------------------------------
(***************************************************************************)
(* muduo/net/EventLoop.{h,cc}: the reactor.  One thread, LoopThread, runs  *)
(* loop(); every thread may call queueInLoop(), runInLoop() and quit().    *)
(*                                                                         *)
(* loop() alternates between poller_->poll(), the callbacks of the active  *)
(* channels, and the functors queued for the loop.  Another thread that    *)
(* adds a functor, or asks the loop to quit, writes to an eventfd so that  *)
(* a blocked poll() returns.  The callers are not atomic: a functor is     *)
(* pushed under mutex_, and the decision to write to the eventfd is a      *)
(* later step, with anything in between.                                   *)
(*                                                                         *)
(* A user callback (of a channel, or a functor) is a span of steps of the  *)
(* loop thread, during which it may itself call queueInLoop(),             *)
(* runInLoop() and quit().                                                 *)
(***************************************************************************)
EXTENDS Sequences

CONSTANTS
  Threads,        \* the threads that do not own the loop
  LoopThread,     \* the thread that does: threadId_
  Channels,       \* the channels registered by the user of the loop
  WakeupChannel,  \* wakeupChannel_, the channel of the eventfd
  Functors,       \* the functors, each one submitted at most once
  NoChannel       \* the NULL of currentActiveChannel_

ASSUME EventLoopAssumption ==
  /\ LoopThread \notin Threads
  /\ WakeupChannel \notin Channels
  /\ NoChannel \notin Channels \cup {WakeupChannel}

Callers == Threads \cup {LoopThread}

VARIABLES
  pc,                      \* where LoopThread is, see Locations
  looping,                 \* looping_
  quit,                    \* quit_
  eventHandling,           \* eventHandling_
  callingPendingFunctors,  \* callingPendingFunctors_
  activeChannels,          \* the part of activeChannels_ not yet dispatched
  currentActiveChannel,    \* currentActiveChannel_
  pendingFunctors,         \* pendingFunctors_
  functors,                \* the rest of doPendingFunctors()'s local vector
  wakeupFd,                \* is the eventfd's counter nonzero?
  ready,                   \* user channels with an I/O event in the kernel
  call,                    \* what each caller has left of its call
  done,                    \* history: the functors executed
  early                    \* history: LoopThread queued a functor outside
                           \* loop(), and no batch was taken since

flags == <<looping, quit, eventHandling, callingPendingFunctors>>
dispatching == <<activeChannels, currentActiveChannel>>
work == <<pendingFunctors, functors, done, early>>
vars ==
  <<pc, flags, dispatching, work, wakeupFd, ready, call>>

(***************************************************************************)
(* The locations of LoopThread.                                            *)
(*   out       outside loop()                                              *)
(*   test      at the condition of while (!quit_)                          *)
(*   poll      in poller_->poll()                                          *)
(*   dispatch  between two channels of activeChannels_                     *)
(*   handler   in the callback of currentActiveChannel_                    *)
(*   swap      in doPendingFunctors(), before the batch is taken           *)
(*   batch     in doPendingFunctors(), between two functors                *)
(*   functor   in a functor                                                *)
(***************************************************************************)
Locations ==
  {"out", "test", "poll", "dispatch", "handler", "swap", "batch", "functor"}

(***************************************************************************)
(* A caller is in no call, past the push of queueInLoop(), or past the     *)
(* assignment of quit().                                                   *)
(***************************************************************************)
CallStates == {"none", "queue", "quit"}

Pending == {pendingFunctors[i] : i \in DOMAIN pendingFunctors}
Batch == {functors[i] : i \in DOMAIN functors}
Submitted == Pending \cup Batch \cup done

TypeOK ==
  /\ pc \in Locations
  /\ looping \in BOOLEAN
  /\ quit \in BOOLEAN
  /\ eventHandling \in BOOLEAN
  /\ callingPendingFunctors \in BOOLEAN
  /\ activeChannels \in SUBSET (Channels \cup {WakeupChannel})
  /\ currentActiveChannel \in Channels \cup {WakeupChannel, NoChannel}
  /\ pendingFunctors \in Seq(Functors)
  /\ functors \in Seq(Functors)
  /\ wakeupFd \in BOOLEAN
  /\ ready \in SUBSET Channels
  /\ call \in [Callers -> CallStates]
  /\ done \in SUBSET Functors
  /\ early \in BOOLEAN

\* The constructor: the loop exists, its thread has not called loop() yet.
Init ==
  /\ pc = "out"
  /\ looping = FALSE
  /\ quit = FALSE
  /\ eventHandling = FALSE
  /\ callingPendingFunctors = FALSE
  /\ activeChannels = {}
  /\ currentActiveChannel = NoChannel
  /\ pendingFunctors = <<>>
  /\ functors = <<>>
  /\ wakeupFd = FALSE
  /\ ready = {}
  /\ call = [t \in Callers |-> "none"]
  /\ done = {}
  /\ early = FALSE

-----------------------------------------------------------------------------
(***************************************************************************)
(* loop() and doPendingFunctors(), run by LoopThread.                      *)
(***************************************************************************)

\* The user calls loop(), for the first time or again after it returned.
LoopEnter ==
  /\ pc = "out"
  /\ call[LoopThread] = "none"
  /\ ~looping
  /\ looping' = TRUE
  /\ quit' = FALSE
  /\ pc' = "test"
  /\ UNCHANGED <<eventHandling, callingPendingFunctors, dispatching, work,
                 wakeupFd, ready, call>>

\* while (!quit_) holds: activeChannels_ is cleared and poll() is called.
LoopAgain ==
  /\ pc = "test"
  /\ ~quit
  /\ activeChannels' = {}
  /\ pc' = "poll"
  /\ UNCHANGED <<flags, currentActiveChannel, work, wakeupFd, ready, call>>

\* while (!quit_) fails: loop() returns.
LoopExit ==
  /\ pc = "test"
  /\ quit
  /\ looping' = FALSE
  /\ pc' = "out"
  /\ UNCHANGED <<quit, eventHandling, callingPendingFunctors, dispatching,
                 work, wakeupFd, ready, call>>

\* The channels for which epoll_wait() would return at once.
Readable == ready \cup (IF wakeupFd THEN {WakeupChannel} ELSE {})

\* poll() fills activeChannels_.
PollEvents ==
  /\ pc = "poll"
  /\ Readable # {}
  /\ activeChannels' = Readable
  /\ eventHandling' = TRUE
  /\ pc' = "dispatch"
  /\ UNCHANGED <<looping, quit, callingPendingFunctors, currentActiveChannel,
                 work, wakeupFd, ready, call>>

\* poll() returns with nothing: kPollTimeMs are over, or EINTR.
PollTimeout ==
  /\ pc = "poll"
  /\ Readable = {}
  /\ eventHandling' = TRUE
  /\ pc' = "dispatch"
  /\ UNCHANGED <<looping, quit, callingPendingFunctors, dispatching,
                 work, wakeupFd, ready, call>>

\* EventLoop::handleRead(), the callback of wakeupChannel_.
HandleRead ==
  /\ pc = "dispatch"
  /\ WakeupChannel \in activeChannels
  /\ activeChannels' = activeChannels \ {WakeupChannel}
  /\ currentActiveChannel' = WakeupChannel
  /\ wakeupFd' = FALSE
  /\ UNCHANGED <<pc, flags, work, ready, call>>

\* handleEvent() enters the callback of a user channel, which consumes the
\* event.  The order in which the kernel reports channels is unspecified.
HandleEvent(c) ==
  /\ pc = "dispatch"
  /\ c \in activeChannels
  /\ activeChannels' = activeChannels \ {c}
  /\ currentActiveChannel' = c
  /\ ready' = ready \ {c}
  /\ pc' = "handler"
  /\ UNCHANGED <<flags, work, wakeupFd, call>>

HandlerReturn ==
  /\ pc = "handler"
  /\ call[LoopThread] = "none"
  /\ pc' = "dispatch"
  /\ UNCHANGED <<flags, dispatching, work, wakeupFd, ready, call>>

\* The for loop is over: into doPendingFunctors().
DispatchDone ==
  /\ pc = "dispatch"
  /\ activeChannels = {}
  /\ currentActiveChannel' = NoChannel
  /\ eventHandling' = FALSE
  /\ callingPendingFunctors' = TRUE
  /\ pc' = "swap"
  /\ UNCHANGED <<looping, quit, activeChannels, work, wakeupFd, ready, call>>

\* A copy of pendingFunctors_ in place of the swap.
CopyFunctors ==
  /\ pc = "swap"
  /\ functors' = pendingFunctors
  /\ early' = FALSE
  /\ pc' = "batch"
  /\ UNCHANGED <<flags, dispatching, pendingFunctors, done, wakeupFd, ready,
                 call>>

\* functors.swap(pendingFunctors_), under mutex_.
SwapFunctors ==
  /\ pc = "swap"
  /\ functors' = pendingFunctors
  /\ pendingFunctors' = <<>>
  /\ early' = FALSE
  /\ pc' = "batch"
  /\ UNCHANGED <<flags, dispatching, done, wakeupFd, ready, call>>

\* functors[i]() is called.
RunFunctor ==
  /\ pc = "batch"
  /\ functors # <<>>
  /\ done' = done \cup {Head(functors)}
  /\ functors' = Tail(functors)
  /\ pc' = "functor"
  /\ UNCHANGED <<flags, dispatching, pendingFunctors, early, wakeupFd, ready,
                 call>>

FunctorReturn ==
  /\ pc = "functor"
  /\ call[LoopThread] = "none"
  /\ pc' = "batch"
  /\ UNCHANGED <<flags, dispatching, work, wakeupFd, ready, call>>

FunctorsDone ==
  /\ pc = "batch"
  /\ functors = <<>>
  /\ callingPendingFunctors' = FALSE
  /\ pc' = "test"
  /\ UNCHANGED <<looping, quit, eventHandling, dispatching, work, wakeupFd,
                 ready, call>>

LoopStep ==
  \/ LoopAgain \/ LoopExit
  \/ PollEvents
  \/ HandleRead \/ (\E c \in Channels : HandleEvent(c)) \/ HandlerReturn
  \/ DispatchDone
  \/ SwapFunctors \/ RunFunctor \/ FunctorReturn \/ FunctorsDone

-----------------------------------------------------------------------------
(***************************************************************************)
(* The calls that any thread may make.  LoopThread makes them outside      *)
(* loop() or from a callback.                                              *)
(***************************************************************************)

InLoopThread(t) == t = LoopThread

MayCall(t) ==
  /\ call[t] = "none"
  /\ InLoopThread(t) => pc \in {"out", "handler", "functor"}

\* queueInLoop() that wakes the loop up only for other threads.
QueueInLoopWakeupNotWhileCalling(t) ==
  /\ call[t] = "queue"
  /\ wakeupFd' = (wakeupFd \/ ~InLoopThread(t))
  /\ call' = [call EXCEPT ![t] = "none"]
  /\ UNCHANGED <<pc, flags, dispatching, work, ready>>

\* queueInLoop(f), as far as the push under mutex_.
QueueInLoop(t, f) ==
  /\ MayCall(t)
  /\ f \notin Submitted
  /\ pendingFunctors' = Append(pendingFunctors, f)
  /\ early' = (early \/ (InLoopThread(t) /\ pc = "out"))
  /\ call' = [call EXCEPT ![t] = "queue"]
  /\ UNCHANGED <<pc, flags, dispatching, functors, done, wakeupFd, ready>>

\* The rest of queueInLoop(): wakeup(), when it is needed.
QueueInLoopWakeup(t) ==
  /\ call[t] = "queue"
  /\ wakeupFd' = (wakeupFd \/ ~InLoopThread(t) \/ callingPendingFunctors)
  /\ call' = [call EXCEPT ![t] = "none"]
  /\ UNCHANGED <<pc, flags, dispatching, work, ready>>

\* runInLoop(f): executed at once in the loop thread, queued in another.
RunInLoop(t, f) ==
  \/ /\ InLoopThread(t)
     /\ MayCall(t)
     /\ f \notin Submitted
     /\ done' = done \cup {f}
     /\ UNCHANGED <<pc, flags, dispatching, pendingFunctors, functors, early,
                    wakeupFd, ready, call>>
  \/ /\ ~InLoopThread(t)
     /\ QueueInLoop(t, f)

\* quit(), as far as the assignment.
Quit(t) ==
  /\ MayCall(t)
  /\ quit' = TRUE
  /\ call' = [call EXCEPT ![t] = "quit"]
  /\ UNCHANGED <<pc, looping, eventHandling, callingPendingFunctors,
                 dispatching, work, wakeupFd, ready>>

\* The rest of quit(): wakeup(), unless in the loop thread.
QuitWakeup(t) ==
  /\ call[t] = "quit"
  /\ wakeupFd' = (wakeupFd \/ ~InLoopThread(t))
  /\ call' = [call EXCEPT ![t] = "none"]
  /\ UNCHANGED <<pc, flags, dispatching, work, ready>>

CallReturn(t) == QueueInLoopWakeup(t) \/ QuitWakeup(t)

Caller(t) ==
  \/ \E f \in Functors : QueueInLoop(t, f) \/ RunInLoop(t, f)
  \/ Quit(t)
  \/ CallReturn(t)

\* The kernel: an I/O event on a user channel.
IoEvent(c) ==
  /\ c \notin ready
  /\ ready' = ready \cup {c}
  /\ UNCHANGED <<pc, flags, dispatching, work, wakeupFd, call>>

Next ==
  \/ LoopEnter
  \/ LoopStep
  \/ PollTimeout
  \/ \E t \in Callers : Caller(t)
  \/ \E c \in Channels : IoEvent(c)

Spec == Init /\ [][Next]_vars

(***************************************************************************)
(* Fairness.  The loop thread is scheduled, its callbacks return (after    *)
(* finitely many calls, hence the strong fairness), and a thread in the    *)
(* middle of a call finishes it.  Nobody has to call loop(), queueInLoop() *)
(* or quit(), and poll() may wait for ever: kPollTimeMs is no part of the  *)
(* argument that work gets done.                                           *)
(***************************************************************************)
Fairness ==
  /\ WF_vars(LoopStep)
  /\ SF_vars(HandlerReturn \/ FunctorReturn)
  /\ \A t \in Callers : WF_vars(CallReturn(t))

FairSpec == Spec /\ Fairness

-----------------------------------------------------------------------------
(***************************************************************************)
(* Properties.                                                             *)
(***************************************************************************)

\* The bookkeeping of loop() that the wakeup protocol rests on: the flags
\* say where the loop thread is (queueInLoop() decides by one of them, and
\* LoopEnter asserts another), the local batch is empty outside
\* doPendingFunctors(), and from the moment the batch is taken until poll()
\* returns a functor that is pending has a wakeup on record.  With
\* NoLostQuit it is inductive.
WakeupPledged ==
  \/ wakeupFd
  \/ \E t \in Callers : call[t] = "queue"
  \/ early

LoopInv ==
  /\ TypeOK
  /\ looping <=> pc # "out"
  /\ eventHandling <=> pc \in {"dispatch", "handler"}
  /\ callingPendingFunctors <=> pc \in {"swap", "batch", "functor"}
  /\ functors # <<>> => pc \in {"batch", "functor"}
  /\ call[LoopThread] # "none" => pc \in {"out", "handler", "functor"}
  /\ (pc = "out" /\ call[LoopThread] = "queue") => early
  /\ (pc \notin {"dispatch", "handler", "swap"} /\ pendingFunctors # <<>>)
       => WakeupPledged

\* No lost wakeup: when the loop thread sits in poll() with functors
\* pending, either the eventfd is readable, or the thread that pushed a
\* functor has still to write to it.  The exception is the code's own:
\* LoopThread does not write to the eventfd for what it queues outside
\* loop(), and that functor waits for the next event or for kPollTimeMs.
NoLostWakeup ==
  (pc = "poll" /\ pendingFunctors # <<>>) =>
    \/ wakeupFd
    \/ \E t \in Threads : call[t] = "queue"
    \/ early

\* No lost quit: the loop thread never sits in poll() with quit_ set unless
\* the eventfd is readable or the thread that called quit() has still to
\* write to it.
NoLostQuit ==
  (pc = "poll" /\ quit) =>
    \/ wakeupFd
    \/ \E t \in Threads : call[t] = "quit"

\* queueInLoop(), runInLoop() and the two-vector batching implement one FIFO
\* queue: nothing is lost, duplicated, reordered or run concurrently.
FQ == INSTANCE FunctorQueue WITH queue <- functors \o pendingFunctors
ImplementsFunctorQueue == FQ!Spec

\* A functor that is queued is executed, without the help of the timeout of
\* poll(), unless the loop is told to quit or the functor was queued by the
\* loop thread before it called loop().
QueuedRuns ==
  \A f \in Functors :
    (f \in Pending /\ looping /\ ~early) ~> (f \in done \/ quit)
=============================================================================
