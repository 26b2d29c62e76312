--------------------------- MODULE EventLoopProofs ---------------------------
(***************************************************************************)
(* Proofs about EventLoop, and about EventLoopThread, which runs one, for  *)
(* any sets of threads, channels and functors.                             *)
(***************************************************************************)
EXTENDS EventLoopThread, Naturals, TLAPS

\* Initially the bookkeeping is right and nothing is pending: the state the
\* constructor EventLoop::EventLoop() leaves.
LEMMA InitLoopInv == Init => LoopInv /\ NoLostQuit
<1> SUFFICES ASSUME Init PROVE LoopInv /\ NoLostQuit
  OBVIOUS
<1> USE DEF Init
<1>1. call \in [Callers -> CallStates]
  BY DEF CallStates
<1>2. <<>> \in Seq(Functors)
  OBVIOUS
<1>3. TypeOK
  BY <1>1, <1>2 DEF TypeOK, Locations
<1>4. call[LoopThread] = "none"
  BY DEF Callers
<1> QED
  BY <1>3, <1>4 DEF LoopInv, NoLostQuit

\* Every step of loop() that LoopThread takes keeps the bookkeeping.
LEMMA LoopStepLoopInv ==
  ASSUME LoopInv, NoLostQuit, LoopEnter \/ LoopStep \/ PollTimeout
  PROVE  LoopInv' /\ NoLostQuit'
<1> USE EventLoopAssumption DEF LoopInv, TypeOK, Locations, NoLostQuit,
        Callers, WakeupPledged, flags, dispatching, work
<1>1. CASE LoopEnter
  BY <1>1 DEF LoopEnter
<1>2. CASE LoopAgain
  BY <1>2 DEF LoopAgain
<1>3. CASE LoopExit
  BY <1>3 DEF LoopExit
<1>4. CASE PollEvents
  BY <1>4 DEF PollEvents, Readable
<1>5. CASE PollTimeout
  BY <1>5 DEF PollTimeout
<1>6. CASE HandleRead
  BY <1>6 DEF HandleRead
<1>7. ASSUME NEW c \in Channels, HandleEvent(c)
      PROVE  LoopInv' /\ NoLostQuit'
  BY <1>7 DEF HandleEvent
<1>8. CASE HandlerReturn
  BY <1>8 DEF HandlerReturn
<1>9. CASE DispatchDone
  BY <1>9 DEF DispatchDone
<1>10. CASE SwapFunctors
  BY <1>10 DEF SwapFunctors
<1>11. CASE RunFunctor
  <2>1. Tail(functors) \in Seq(Functors) /\ Head(functors) \in Functors
    BY <1>11 DEF RunFunctor
  <2> QED
    BY <1>11, <2>1 DEF RunFunctor
<1>12. CASE FunctorReturn
  BY <1>12 DEF FunctorReturn
<1>13. CASE FunctorsDone
  BY <1>13 DEF FunctorsDone
<1> QED
  BY <1>1, <1>2, <1>3, <1>4, <1>5, <1>6, <1>7, <1>8, <1>9, <1>10, <1>11,
     <1>12, <1>13 DEF LoopStep

\* Every step of a call that any thread makes keeps the bookkeeping.
LEMMA CallerLoopInv ==
  ASSUME LoopInv, NoLostQuit, NEW t \in Callers, Caller(t)
  PROVE  LoopInv' /\ NoLostQuit'
<1> USE EventLoopAssumption DEF LoopInv, TypeOK, Locations, CallStates,
        NoLostQuit, Callers, WakeupPledged, flags, dispatching, work,
        InLoopThread, MayCall
<1>1. ASSUME NEW f \in Functors, QueueInLoop(t, f)
      PROVE  LoopInv' /\ NoLostQuit'
  <2>1. Append(pendingFunctors, f) \in Seq(Functors)
    OBVIOUS
  <2>2. call'[t] = "queue"
    BY <1>1 DEF QueueInLoop
  <2>3. \A u \in Threads : call[u] = "quit" => call'[u] = "quit"
    BY <1>1 DEF QueueInLoop
  <2> QED
    BY <1>1, <2>1, <2>2, <2>3 DEF QueueInLoop
<1>2. ASSUME NEW f \in Functors, RunInLoop(t, f)
      PROVE  LoopInv' /\ NoLostQuit'
  <2>1. CASE InLoopThread(t)
    BY <1>2, <2>1 DEF RunInLoop
  <2>2. CASE ~InLoopThread(t)
    BY SMTT(30), <1>1, <1>2, <2>2 DEF RunInLoop
  <2> QED
    BY <2>1, <2>2
<1>3. CASE QueueInLoopWakeup(t)
  <2>1. \A u \in Callers \ {t} : call'[u] = call[u]
    BY <1>3 DEF QueueInLoopWakeup
  <2> QED
    BY <1>3, <2>1 DEF QueueInLoopWakeup
<1>4. CASE Quit(t)
  <2>1. \A u \in Callers \ {t} : call'[u] = call[u]
    BY <1>4 DEF Quit
  <2>2. call[t] = "none" /\ call'[t] = "quit"
    BY <1>4 DEF Quit
  <2> QED
    BY <1>4, <2>1, <2>2 DEF Quit
<1>5. CASE QuitWakeup(t)
  <2>1. \A u \in Callers \ {t} : call'[u] = call[u]
    BY <1>5 DEF QuitWakeup
  <2>2. call[t] = "quit" /\ call'[t] = "none"
    BY <1>5 DEF QuitWakeup
  <2> QED
    BY <1>5, <2>1, <2>2 DEF QuitWakeup
<1> QED
  BY SMTT(30), <1>1, <1>2, <1>3, <1>4, <1>5 DEF Caller, CallReturn

\* The bookkeeping of EventLoop::loop() and doPendingFunctors(), and the
\* absence of lost quits, hold in every reachable state.
THEOREM LoopInvariant == Spec => [](LoopInv /\ NoLostQuit)
<1>1. LoopInv /\ NoLostQuit /\ [Next]_vars => LoopInv' /\ NoLostQuit'
  <2> SUFFICES ASSUME LoopInv, NoLostQuit, [Next]_vars
               PROVE  LoopInv' /\ NoLostQuit'
    OBVIOUS
  <2>1. CASE LoopEnter \/ LoopStep \/ PollTimeout
    BY <2>1, LoopStepLoopInv
  <2>2. ASSUME NEW t \in Callers, Caller(t)
        PROVE  LoopInv' /\ NoLostQuit'
    BY <2>2, CallerLoopInv
  <2>3. ASSUME NEW c \in Channels, IoEvent(c)
        PROVE  LoopInv' /\ NoLostQuit'
    BY <2>3 DEF IoEvent, LoopInv, TypeOK, NoLostQuit, WakeupPledged, flags,
                dispatching, work
  <2>4. CASE UNCHANGED vars
    BY <2>4 DEF vars, LoopInv, TypeOK, NoLostQuit, WakeupPledged, flags,
                dispatching, work
  <2> QED
    BY <2>1, <2>2, <2>3, <2>4 DEF Next
<1> QED
  BY InitLoopInv, <1>1, PTL DEF Spec

\* EventLoop::queueInLoop() never loses a wakeup, whatever the number of
\* threads that call it and whatever the callbacks do.
THEOREM WakeupNeverLost == Spec => []NoLostWakeup
<1>1. LoopInv => NoLostWakeup
  BY EventLoopAssumption
     DEF LoopInv, NoLostWakeup, WakeupPledged, Callers, TypeOK
<1> QED
  BY LoopInvariant, <1>1, PTL

\* Two facts about sequences: where the elements of a concatenation come
\* from, and what taking its first element leaves.
LEMMA ConcatElements ==
  ASSUME NEW S, NEW a \in Seq(S), NEW b \in Seq(S), NEW x,
         x \notin {a[i] : i \in DOMAIN a}, x \notin {b[i] : i \in DOMAIN b}
  PROVE  x \notin {(a \o b)[i] : i \in DOMAIN (a \o b)}
<1> SUFFICES ASSUME NEW i \in 1 .. (Len(a) + Len(b)), (a \o b)[i] = x
             PROVE  FALSE
  OBVIOUS
<1>1. CASE i <= Len(a)
  BY <1>1
<1>2. CASE i > Len(a)
  BY <1>2
<1> QED
  BY <1>1, <1>2

LEMMA ConcatHeadTail ==
  ASSUME NEW S, NEW a \in Seq(S), NEW b \in Seq(S), a # <<>>
  PROVE  /\ a \o b # <<>>
         /\ Head(a \o b) = Head(a)
         /\ Tail(a \o b) = Tail(a) \o b
  OBVIOUS

LEMMA ConcatAppend ==
  ASSUME NEW S, NEW a \in Seq(S), NEW b \in Seq(S), NEW x \in S
  PROVE  a \o Append(b, x) = Append(a \o b, x)
  OBVIOUS

LEMMA ConcatEmpty ==
  ASSUME NEW S, NEW a \in Seq(S)
  PROVE  a \o <<>> = a /\ <<>> \o a = a
  OBVIOUS

\* What the callers do to the abstract queue: a push appends, runInLoop() in
\* the loop thread runs the functor at once, the rest leaves it alone.
LEMMA CallerRefines ==
  ASSUME TypeOK, NEW t \in Callers, Caller(t)
  PROVE  [FQ!Next]_(FQ!vars)
<1> USE DEF TypeOK, flags, dispatching, work, MayCall, FQ!vars, FQ!Next
<1> DEFINE queue == functors \o pendingFunctors
<1>1. ASSUME NEW f \in Functors, QueueInLoop(t, f)
      PROVE  [FQ!Next]_(FQ!vars)
  <2>1. queue' = Append(queue, f)
    BY <1>1, ConcatAppend DEF QueueInLoop
  <2>2. f \notin FQ!Queued
    BY <1>1, ConcatElements DEF QueueInLoop, Submitted, Pending, Batch, FQ!Queued
  <2>3. FQ!Enqueue(f)
    BY <1>1, <2>1, <2>2 DEF QueueInLoop, Submitted, FQ!Enqueue
  <2> QED
    BY <2>3
<1>2. ASSUME NEW f \in Functors, RunInLoop(t, f)
      PROVE  [FQ!Next]_(FQ!vars)
  <2>1. CASE InLoopThread(t)
    <3>1. f \notin FQ!Queued
      BY <1>2, <2>1, ConcatElements
         DEF RunInLoop, Submitted, Pending, Batch, FQ!Queued
    <3>2. FQ!RunInline(f)
      BY <1>2, <2>1, <3>1 DEF RunInLoop, Submitted, FQ!RunInline
    <3> QED
      BY <3>2
  <2>2. CASE ~InLoopThread(t)
    BY <1>1, <1>2, <2>2 DEF RunInLoop
  <2> QED
    BY <2>1, <2>2
<1>3. CASE Quit(t) \/ CallReturn(t)
  BY <1>3 DEF Quit, CallReturn, QueueInLoopWakeup, QuitWakeup
<1> QED
  BY <1>1, <1>2, <1>3 DEF Caller

\* What loop() does to it: RunFunctor takes the oldest functor; the swap moves
\* functors from one vector to the other, which the abstract queue cannot see.
LEMMA LoopRefines ==
  ASSUME LoopInv, LoopEnter \/ LoopStep \/ PollTimeout
  PROVE  [FQ!Next]_(FQ!vars)
<1> USE DEF LoopInv, TypeOK, flags, dispatching, work, FQ!vars, FQ!Next
<1>1. CASE SwapFunctors
  <2>1. functors = <<>>
    BY <1>1 DEF SwapFunctors
  <2>2. (functors \o pendingFunctors)' = functors \o pendingFunctors
    BY <1>1, <2>1, ConcatEmpty DEF SwapFunctors
  <2> QED
    BY <1>1, <2>2 DEF SwapFunctors
<1>2. CASE RunFunctor
  <2>1. FQ!Execute
    BY <1>2, ConcatHeadTail DEF RunFunctor, FQ!Execute
  <2> QED
    BY <2>1
<1>3. CASE LoopEnter \/ LoopAgain \/ LoopExit \/ PollEvents \/ PollTimeout
  BY <1>3 DEF LoopEnter, LoopAgain, LoopExit, PollEvents, PollTimeout
<1>4. CASE \/ HandleRead
           \/ \E c \in Channels : HandleEvent(c)
           \/ HandlerReturn \/ DispatchDone \/ FunctorReturn \/ FunctorsDone
  BY <1>4 DEF HandleRead, HandleEvent, HandlerReturn, DispatchDone,
              FunctorReturn, FunctorsDone
<1> QED
  BY SMTT(30), <1>1, <1>2, <1>3, <1>4 DEF LoopStep

\* EventLoop implements one FIFO queue of functors, each run exactly once:
\* the two vectors of queueInLoop() and doPendingFunctors(), joined, are it.
THEOREM Refinement == Spec => ImplementsFunctorQueue
<1>1. Init => FQ!Init
  BY ConcatEmpty DEF Init, FQ!Init
<1>2. LoopInv /\ [Next]_vars => [FQ!Next]_(FQ!vars)
  <2> SUFFICES ASSUME LoopInv, [Next]_vars
               PROVE  [FQ!Next]_(FQ!vars)
    OBVIOUS
  <2>1. CASE LoopEnter \/ LoopStep \/ PollTimeout
    BY <2>1, LoopRefines
  <2>2. ASSUME NEW t \in Callers, Caller(t)
        PROVE  [FQ!Next]_(FQ!vars)
    BY <2>2, CallerRefines DEF LoopInv
  <2>3. CASE (\E c \in Channels : IoEvent(c)) \/ UNCHANGED vars
    BY <2>3 DEF IoEvent, vars, work, FQ!vars
  <2> QED
    BY <2>1, <2>2, <2>3 DEF Next
<1> QED
  BY LoopInvariant, <1>1, <1>2, PTL DEF Spec, ImplementsFunctorQueue, FQ!Spec

-----------------------------------------------------------------------------
(***************************************************************************)
(* EventLoopThread.                                                        *)
(***************************************************************************)
\* What the owner and the new thread know of each other: loop_ is set while
\* the loop exists and after; quit() is called by the destructor alone; and
\* the loop's thread leaves loop() only after that.
ThreadInv ==
  /\ loopSet <=> thread \in {"published", "looping", "gone"}
  /\ owner \in {"up", "dtor"} => loopSet
  /\ quit => owner \in {"join", "gone"}
  /\ thread = "looping" /\ pc = "out" => quit
  /\ thread = "gone" => owner \in {"join", "gone"}

\* A step of the EventLoopThread is a step of its EventLoop, or none.
LEMMA ThreadStepIsLoopStep == [ThreadNext]_allVars => [Next]_vars
<1> SUFFICES ASSUME [ThreadNext]_allVars PROVE [Next]_vars
  OBVIOUS
<1>1. CASE StartLoop \/ StartLoopTest \/ SpuriousWakeup \/ Publish \/ ThreadExit
           \/ Destroy \/ Join
  BY Zenon, <1>1 DEF StartLoop, StartLoopTest, SpuriousWakeup, Publish, ThreadExit,
                     Destroy, Join
<1>2. CASE ThreadLoop \/ ThreadPollTimeout
  BY Zenon, <1>2 DEF ThreadLoop, ThreadPollTimeout, Next
<1>3. CASE LoopThreadCalls \/ \E t \in Threads : ClientCalls(t)
  <2>1. PICK t \in Callers : \E f \in Functors : QueueInLoop(t, f) \/ RunInLoop(t, f)
    BY Zenon, <1>3 DEF LoopThreadCalls, ClientCalls, Callers
  <2> QED
    BY Zenon, <2>1 DEF Next, Caller
<1>4. CASE \E t \in Callers : FinishCall(t)
  BY Zenon, <1>4 DEF FinishCall, Next, Caller
<1>5. CASE DestroyQuit
  <2>1. Owner \in Callers
    BY Zenon, OwnerAssumption DEF Callers
  <2> QED
    BY Zenon, <1>5, <2>1 DEF DestroyQuit, Next, Caller
<1>6. CASE \E c \in Channels : ThreadIoEvent(c)
  BY Zenon, <1>6 DEF ThreadIoEvent, Next
<1>7. CASE UNCHANGED allVars
  BY Zenon, <1>7 DEF allVars
<1> QED
  BY Zenon, <1>1, <1>2, <1>3, <1>4, <1>5, <1>6, <1>7 DEF ThreadNext

\* The loop of an EventLoopThread is used as any other: what holds of
\* EventLoop holds of the one that threadFunc() runs.
THEOREM ThreadImplementsLoop == ThreadSpec => Spec
<1>1. ThreadInit => Init
  BY Zenon DEF ThreadInit
<1> QED
  BY <1>1, ThreadStepIsLoopStep, PTL DEF ThreadSpec, Spec

\* Only quit() sets quit_, and loop() itself clears it.
LEMMA QuitFlag ==
  ASSUME NEW t, \/ \E f \in Functors : QueueInLoop(t, f) \/ RunInLoop(t, f)
                \/ CallReturn(t)
  PROVE  UNCHANGED <<quit, pc>>
  BY Zenon DEF QueueInLoop, RunInLoop, CallReturn, QueueInLoopWakeup, QuitWakeup, flags

\* Every step preserves what the two threads know of each other.
LEMMA ThreadInvStep == ThreadInv /\ [ThreadNext]_allVars => ThreadInv'
<1> SUFFICES ASSUME ThreadInv, [ThreadNext]_allVars PROVE ThreadInv'
  OBVIOUS
<1>1. CASE StartLoop \/ StartLoopTest \/ SpuriousWakeup \/ Publish \/ ThreadExit
           \/ Destroy \/ Join
  <2>1. quit' = quit /\ pc' = pc
    BY Zenon, <1>1 DEF StartLoop, StartLoopTest, SpuriousWakeup, Publish, ThreadExit,
                       Destroy, Join, vars, flags
  <2> QED
    BY <1>1, <2>1 DEF ThreadInv, StartLoop, StartLoopTest, SpuriousWakeup, Publish,
                      ThreadExit, Destroy, Join
<1>2. CASE ThreadLoop
  <2>1. CASE thread = "published" /\ LoopEnter /\ thread' = "looping"
             /\ UNCHANGED <<loopSet, exiting, owner>>
    BY Zenon, <2>1 DEF ThreadInv, LoopEnter
  <2>2. CASE thread = "looping" /\ LoopStep /\ UNCHANGED threadVars
    <3>1. quit' = quit /\ (pc' = "out" => quit)
      BY Zenon, <2>2 DEF LoopStep, LoopAgain, LoopExit, PollEvents, HandleRead,
           HandleEvent, HandlerReturn, DispatchDone, SwapFunctors, RunFunctor,
           FunctorReturn, FunctorsDone, flags
    <3> QED
      BY Zenon, <2>2, <3>1 DEF ThreadInv, threadVars
  <2> QED
    BY Zenon, <1>2, <2>1, <2>2 DEF ThreadLoop
<1>3. CASE ThreadPollTimeout
  BY Zenon, <1>3 DEF ThreadPollTimeout, PollTimeout, ThreadInv, threadVars
<1>4. CASE \/ LoopThreadCalls
           \/ \E t \in Threads : ClientCalls(t)
           \/ \E t \in Callers : FinishCall(t)
  <2>1. quit' = quit /\ pc' = pc /\ UNCHANGED threadVars
    BY Zenon, <1>4, QuitFlag DEF LoopThreadCalls, ClientCalls, FinishCall
  <2> QED
    BY Zenon, <2>1 DEF ThreadInv, threadVars
<1>5. CASE DestroyQuit
  <2>1. /\ pc' = pc /\ quit' = TRUE /\ owner' = "join"
        /\ UNCHANGED <<loopSet, thread>>
    BY Zenon, <1>5 DEF DestroyQuit, Quit
  <2> QED
    BY Zenon, <2>1 DEF ThreadInv
<1>6. CASE \E c \in Channels : ThreadIoEvent(c)
  <2>1. quit' = quit /\ pc' = pc /\ UNCHANGED threadVars
    BY Zenon, <1>6 DEF ThreadIoEvent, IoEvent, flags
  <2> QED
    BY Zenon, <2>1 DEF ThreadInv, threadVars
<1>7. CASE UNCHANGED allVars
  BY Zenon, <1>7 DEF allVars, threadVars, vars, flags, ThreadInv
<1> QED
  BY Zenon, <1>1, <1>2, <1>3, <1>4, <1>5, <1>6, <1>7 DEF ThreadNext

\* The loop that startLoop() hands out is constructed, and it is there until
\* the destructor is entered.
THEOREM ThreadLoopUsable == ThreadSpec => []LoopUsable
<1>1. ThreadInit => ThreadInv
  BY Zenon DEF ThreadInit, ThreadInv, Init
<1>2. ThreadInv => LoopUsable
  BY Zenon DEF ThreadInv, LoopUsable
<1> QED
  BY <1>1, <1>2, ThreadInvStep, PTL DEF ThreadSpec

\* In an EventLoopThread too queueInLoop() loses no wakeup, and the functors
\* of all threads are run once and in order.
THEOREM ThreadLoopCorrect == ThreadSpec => []NoLostWakeup /\ ImplementsFunctorQueue
  BY ThreadImplementsLoop, WakeupNeverLost, Refinement, PTL
=============================================================================
