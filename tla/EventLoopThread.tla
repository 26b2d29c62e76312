--------------------------- MODULE EventLoopThread ---------------------------
(***************************************************************************)
(* muduo/net/EventLoopThread.{h,cc}: a thread with an EventLoop of its     *)
(* own.  Owner is the thread that creates the EventLoopThread object,      *)
(* calls startLoop() and destroys it; the loop's thread runs threadFunc(). *)
(* The EventLoop's own steps are those of EventLoop.tla.                   *)
(*                                                                         *)
(* The clients modelled here leave quit() to the destructor, and stop      *)
(* using the loop before the owner destroys the object.                    *)
(***************************************************************************)
EXTENDS EventLoop

CONSTANTS
  Owner,       \* the thread that owns the EventLoopThread
  OwnerWaits   \* does the owner destroy it only once loop() is running?

ASSUME OwnerAssumption == Owner \in Threads /\ OwnerWaits \in BOOLEAN

VARIABLES
  loopSet,     \* loop_ # NULL
  exiting,     \* exiting_
  thread,      \* where the new thread is in threadFunc()
  owner        \* where the owner is in the life of the object

threadVars == <<loopSet, exiting, thread, owner>>
allVars == <<vars, threadVars>>

(***************************************************************************)
(* thread: new      not started                                            *)
(*         init     `loop' is constructed, callback_ runs                  *)
(*         published loop_ is set, loop.loop() is next                     *)
(*         looping  in loop.loop(), or just past it                        *)
(*         gone     threadFunc() has returned and `loop' is destroyed      *)
(* owner:  new      the object exists, startLoop() was not called          *)
(*         check    in startLoop(), holds mutex_, about to test loop_      *)
(*         wait     in cond_.wait()                                        *)
(*         up       startLoop() has returned                               *)
(*         dtor     in the destructor, about to call loop_->quit()         *)
(*         join     in the destructor, past the assignment of quit()       *)
(*         gone     the destructor has returned                            *)
(***************************************************************************)
ThreadInit ==
  /\ Init
  /\ loopSet = FALSE
  /\ exiting = FALSE
  /\ thread = "new"
  /\ owner = "new"

\* startLoop(): thread_.start().
StartLoop ==
  /\ owner = "new"
  /\ thread = "new"
  /\ owner' = "check"
  /\ thread' = "init"
  /\ UNCHANGED <<vars, loopSet, exiting>>

\* startLoop() that does not wait for loop_.
StartLoopNoWait ==
  /\ owner = "check"
  /\ owner' = "up"
  /\ UNCHANGED <<vars, loopSet, exiting, thread>>

\* startLoop(): while (loop_ == NULL) cond_.wait(), under mutex_.
StartLoopTest ==
  /\ owner = "check"
  /\ owner' = IF loopSet THEN "up" ELSE "wait"
  /\ UNCHANGED <<vars, loopSet, exiting, thread>>

\* A wakeup nobody asked for, which pthread_cond_wait() permits.
SpuriousWakeup ==
  /\ owner = "wait"
  /\ owner' = "check"
  /\ UNCHANGED <<vars, loopSet, exiting, thread>>

\* threadFunc(): loop_ = &loop; cond_.notify(), under mutex_.
Publish ==
  /\ thread = "init"
  /\ call[LoopThread] = "none"
  /\ loopSet' = TRUE
  /\ thread' = "published"
  /\ owner' = IF owner = "wait" THEN "check" ELSE owner
  /\ UNCHANGED <<vars, exiting>>

\* threadFunc(): loop.loop().
ThreadLoop ==
  \/ /\ thread = "published"
     /\ LoopEnter
     /\ thread' = "looping"
     /\ UNCHANGED <<loopSet, exiting, owner>>
  \/ /\ thread = "looping"
     /\ LoopStep
     /\ UNCHANGED threadVars

ThreadPollTimeout == thread = "looping" /\ PollTimeout /\ UNCHANGED threadVars

\* threadFunc() returns: `loop' is destroyed.
ThreadExit ==
  /\ thread = "looping"
  /\ pc = "out"
  /\ thread' = "gone"
  /\ UNCHANGED <<vars, loopSet, exiting, owner>>

\* The new thread uses its loop, in callback_ or in a callback of the loop.
LoopThreadCalls ==
  /\ thread \in {"init", "looping"}
  /\ \E f \in Functors : QueueInLoop(LoopThread, f) \/ RunInLoop(LoopThread, f)
  /\ UNCHANGED threadVars

\* The other threads use the loop that startLoop() returned.
ClientCalls(t) ==
  /\ owner = "up"
  /\ \E f \in Functors : QueueInLoop(t, f) \/ RunInLoop(t, f)
  /\ UNCHANGED threadVars

FinishCall(t) == CallReturn(t) /\ UNCHANGED threadVars

\* ~EventLoopThread(): exiting_ = true.
Destroy ==
  /\ owner = "up"
  /\ \A t \in Threads : call[t] = "none"
  /\ OwnerWaits => thread = "looping"
  /\ exiting' = TRUE
  /\ owner' = "dtor"
  /\ UNCHANGED <<vars, loopSet, thread>>

\* ~EventLoopThread() that joins without asking the loop to quit.
DestroyWithoutQuit ==
  /\ owner = "dtor"
  /\ owner' = "join"
  /\ UNCHANGED <<vars, loopSet, exiting, thread>>

\* ~EventLoopThread(): loop_->quit().
DestroyQuit ==
  /\ owner = "dtor"
  /\ Quit(Owner)
  /\ owner' = "join"
  /\ UNCHANGED <<loopSet, exiting, thread>>

\* ~EventLoopThread(): thread_.join() returns.
Join ==
  /\ owner = "join"
  /\ call[Owner] = "none"
  /\ thread = "gone"
  /\ owner' = "gone"
  /\ UNCHANGED <<vars, loopSet, exiting, thread>>

ThreadIoEvent(c) == thread = "looping" /\ IoEvent(c) /\ UNCHANGED threadVars

ThreadNext ==
  \/ StartLoop \/ StartLoopTest \/ SpuriousWakeup
  \/ Publish \/ ThreadLoop \/ ThreadPollTimeout \/ ThreadExit
  \/ LoopThreadCalls
  \/ \E t \in Threads : ClientCalls(t)
  \/ \E t \in Callers : FinishCall(t)
  \/ Destroy \/ DestroyQuit \/ Join
  \/ \E c \in Channels : ThreadIoEvent(c)

(***************************************************************************)
(* Fairness.  Both threads are scheduled, callbacks return, calls that     *)
(* were begun are finished.  Neither spurious wakeups nor the timeout of   *)
(* poll() can be relied on, and the owner need not destroy the object.     *)
(***************************************************************************)
ThreadFairness ==
  /\ WF_allVars(StartLoopTest)
  /\ WF_allVars(Publish)
  /\ WF_allVars(ThreadLoop)
  /\ SF_allVars(ThreadLoop /\ (HandlerReturn \/ FunctorReturn))
  /\ WF_allVars(ThreadExit)
  /\ \A t \in Callers : WF_allVars(FinishCall(t))
  /\ WF_allVars(DestroyQuit)
  /\ WF_allVars(Join)

ThreadSpec == ThreadInit /\ [][ThreadNext]_allVars /\ ThreadFairness

-----------------------------------------------------------------------------
\* The loop that startLoop() returns is there until the destructor is
\* entered: no other thread is handed a loop that is not constructed yet or
\* is already destroyed.
LoopUsable == owner = "up" => thread \in {"published", "looping"}

\* The destructor returns: quit() reaches the loop, whose thread ends.
DestructorReturns == (owner = "dtor") ~> (owner = "gone")
=============================================================================
