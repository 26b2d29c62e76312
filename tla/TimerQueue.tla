----------------------------- MODULE TimerQueue -----------------------------
(***************************************************************************)
(* muduo/net/TimerQueue.{h,cc} with Timer and TimerId: the timers of one   *)
(* loop, driven by one timerfd.                                            *)
(*                                                                         *)
(* A Timer is a heap object: it is created by whoever calls addTimer(), it *)
(* is known to the queue by its address, and it is deleted by the loop     *)
(* thread.  Addresses are reused, so a TimerId pairs one with a sequence   *)
(* number.  Callbacks run in the loop thread and may add and cancel        *)
(* timers, those of the batch being run included.  Other threads reach     *)
(* the queue through EventLoop::runInLoop(), that is, through a FIFO of    *)
(* functors (EventLoop.tla shows that it is one).                          *)
(*                                                                         *)
(* Time is a count of ticks; a tick stands for the 100 microseconds below  *)
(* which the timerfd is never set.                                         *)
(***************************************************************************)
EXTENDS Integers, Sequences

CONSTANTS
  Threads,      \* the threads other than the loop's
  MaxAddr,      \* bound: Timer objects that exist at a time
  MaxSeq,       \* bound: timers created
  MaxTime,      \* bound: the clock stops here, and stands for any later time
  Whens,        \* the absolute times that timers are added for
  Intervals     \* 0 for once, or the period of a repeating timer

ASSUME TimerAssumption ==
  /\ MaxAddr \in Nat /\ MaxSeq \in Nat /\ MaxTime \in Nat
  /\ Whens \subseteq Nat
  /\ Intervals \subseteq Nat

Addrs == 1 .. MaxAddr
Ids == Addrs \X (1 .. MaxSeq)
NoId == <<0, 0>>
Functor == [op : {"add", "cancel"}, id : Addrs \X Nat]
Never == -1                   \* the timerfd is not set
Free == [seq |-> 0, expiration |-> 0, interval |-> 0]

VARIABLES
  clock,                \* Timestamp::now()
  heap,                 \* the Timer object at each address, or Free
  numCreated,           \* Timer::s_numCreated_
  timers,               \* timers_: pairs of expiration and address
  activeTimers,         \* activeTimers_: pairs of address and sequence
  cancelingTimers,      \* cancelingTimers_
  callingExpiredTimers, \* callingExpiredTimers_
  timerfd,              \* when the timerfd becomes readable, or Never
  pc,                   \* of the loop thread: idle, batch, callback
  now,                  \* handleRead()'s `now'
  expired,              \* handleRead()'s `expired', as a set
  toRun,                \* the part of it that is still to be run
  functors,             \* addTimerInLoop and cancelInLoop, queued
  adding,               \* the timer of the addTimer() a thread is in, or NoId
  known,                \* the TimerIds that addTimer() has returned
  cancelled             \* history: the ids of added timers given to
                        \* cancelInLoop()

queueVars == <<timers, activeTimers>>
batchVars == <<pc, now, expired, toRun, callingExpiredTimers>>
vars == <<clock, heap, numCreated, queueVars, cancelingTimers, batchVars,
          timerfd, functors, adding, known, cancelled>>

Allocated(a) == heap[a].seq # 0
IdAt(a) == <<a, heap[a].seq>>

Init ==
  /\ clock = 1
  /\ heap = [a \in Addrs |-> Free]
  /\ numCreated = 0
  /\ timers = {}
  /\ activeTimers = {}
  /\ cancelingTimers = {}
  /\ callingExpiredTimers = FALSE
  /\ timerfd = Never
  /\ pc = "idle"
  /\ now = 0
  /\ expired = {}
  /\ toRun = {}
  /\ functors = <<>>
  /\ adding = [t \in Threads |-> NoId]
  /\ known = {}
  /\ cancelled = {}

-----------------------------------------------------------------------------
\* resetTimerfd(): not before one tick from now.
TimerfdFor(expiration) ==
  IF expiration > clock THEN expiration ELSE clock + 1

\* Is `when' earlier than every timer of the list?  insert()'s result.
EarliestChanged(when) == \A e \in timers : when < e[1]

\* addTimerInLoop(), with insert(), for the Timer object `timer' at a.
AddTimerInLoop(a, timer) ==
  /\ timers' = timers \cup {<<timer.expiration, a>>}
  /\ activeTimers' = activeTimers \cup {<<a, timer.seq>>}
  /\ timerfd' = IF EarliestChanged(timer.expiration)
                  THEN TimerfdFor(timer.expiration) ELSE timerfd

\* A search that finds any Timer object that exists.
ExistingTimer(id) == IdAt(id[1]) = id

\* activeTimers_.find(): by address and sequence number.
ActiveTimer(id) == id \in activeTimers

\* cancelInLoop(): an active timer is deleted; one of the batch being run,
\* which is not active, is noted.
CancelInLoop(id) ==
  \/ /\ ActiveTimer(id)
     /\ timers' = timers \ {<<heap[id[1]].expiration, id[1]>>}
     /\ activeTimers' = activeTimers \ {id}
     /\ heap' = [heap EXCEPT ![id[1]] = Free]
     /\ cancelled' = cancelled \cup {id}
     /\ UNCHANGED cancelingTimers
  \/ /\ ~ActiveTimer(id)
     /\ cancelingTimers' = IF callingExpiredTimers
                             THEN cancelingTimers \cup {id}
                             ELSE cancelingTimers
     /\ cancelled' = IF \E e \in expired : IdAt(e[2]) = id
                       THEN cancelled \cup {id} ELSE cancelled
     /\ UNCHANGED <<queueVars, heap>>

-----------------------------------------------------------------------------
(***************************************************************************)
(* The loop thread: user code, functors, handleRead().                     *)
(***************************************************************************)

\* User code runs in the loop thread between two calls of handleRead(), or
\* in the callback of a timer.
InUserCode == pc \in {"idle", "callback"}

NewTimer(a, when, interval) ==
  /\ ~Allocated(a)
  /\ numCreated < MaxSeq
  /\ numCreated' = numCreated + 1
  /\ heap' = [heap EXCEPT ![a] = [seq |-> numCreated + 1,
                                  expiration |-> when,
                                  interval |-> interval]]

\* addTimer() in the loop thread.
AddTimer(a, when, interval) ==
  /\ InUserCode
  /\ NewTimer(a, when, interval)
  /\ AddTimerInLoop(a, heap'[a])
  /\ known' = known \cup {<<a, numCreated'>>}
  /\ UNCHANGED <<clock, cancelingTimers, batchVars, functors, adding, cancelled>>

\* cancel() in the loop thread.
Cancel(id) ==
  /\ InUserCode
  /\ CancelInLoop(id)
  /\ UNCHANGED <<clock, numCreated, batchVars, timerfd, functors, adding, known>>

\* doPendingFunctors() runs a queued addTimerInLoop() or cancelInLoop().
RunFunctor ==
  /\ pc = "idle"
  /\ functors # <<>>
  /\ LET id == Head(functors).id
     IN  \/ /\ Head(functors).op = "add"
            /\ AddTimerInLoop(id[1], heap[id[1]])
            /\ UNCHANGED <<heap, cancelingTimers, cancelled>>
         \/ /\ Head(functors).op = "cancel"
            /\ CancelInLoop(id)
            /\ UNCHANGED timerfd
  /\ functors' = Tail(functors)
  /\ UNCHANGED <<clock, numCreated, batchVars, adding, known>>

\* handleRead(), as far as the first callback: the timerfd is read, and the
\* timers up to `now' leave the queue.
HandleRead ==
  /\ pc = "idle"
  /\ timerfd # Never
  /\ clock >= timerfd \/ clock = MaxTime
  /\ timerfd' = Never
  /\ now' = clock
  /\ expired' = {e \in timers : e[1] <= clock}
  /\ toRun' = expired'
  /\ timers' = timers \ expired'
  /\ activeTimers' = activeTimers \ {IdAt(e[2]) : e \in expired'}
  /\ callingExpiredTimers' = TRUE
  /\ cancelingTimers' = {}
  /\ pc' = "batch"
  /\ UNCHANGED <<clock, heap, numCreated, functors, adding, known, cancelled>>

\* The order of std::set<Entry>.
Before(e, f) == e[1] < f[1] \/ (e[1] = f[1] /\ e[2] <= f[2])

\* The callback of the next timer of the batch begins.
RunTimer(e) ==
  /\ pc = "batch"
  /\ e \in toRun
  /\ \A f \in toRun : Before(e, f)
  /\ toRun' = toRun \ {e}
  /\ pc' = "callback"
  /\ UNCHANGED <<clock, heap, numCreated, queueVars, cancelingTimers, now,
                 expired, callingExpiredTimers, timerfd, functors, adding,
                 known, cancelled>>

CallbackReturn ==
  /\ pc = "callback"
  /\ pc' = "batch"
  /\ UNCHANGED <<clock, heap, numCreated, queueVars, cancelingTimers, now,
                 expired, toRun, callingExpiredTimers, timerfd, functors,
                 adding, known, cancelled>>

\* reset() that does not look at cancelingTimers_.
AgainIfRepeating(e) == heap[e[2]].interval > 0

\* Will reset() put the timer of this entry back?
Again(e) ==
  /\ heap[e[2]].interval > 0
  /\ IdAt(e[2]) \notin cancelingTimers

\* What reset() does to the Timer objects of the batch: restart() or delete.
AfterReset ==
  [a \in Addrs |->
     IF \E e \in expired : e[2] = a /\ Again(e)
       THEN [heap[a] EXCEPT !.expiration = now + heap[a].interval]
     ELSE IF \E e \in expired : e[2] = a THEN Free
     ELSE heap[a]]

\* reset() that relies on insert() to have set the timerfd.
NotRearmed == UNCHANGED timerfd

\* The last part of reset(): the timerfd is set for the first timer of the
\* list, unless its Timestamp is not valid(), which is 0.
Rearm ==
  \/ /\ timers' = {}
     /\ UNCHANGED timerfd
  \/ \E e \in timers' :
       /\ \A f \in timers' : Before(e, f)
       /\ timerfd' = IF e[1] > 0 THEN TimerfdFor(e[1]) ELSE timerfd

\* The end of handleRead(): reset().
Reset ==
  /\ pc = "batch"
  /\ toRun = {}
  /\ heap' = AfterReset
  /\ LET again == {e[2] : e \in {x \in expired : Again(x)}}
     IN  /\ timers' = timers \cup {<<AfterReset[a].expiration, a>> : a \in again}
         /\ activeTimers' = activeTimers \cup {IdAt(a) : a \in again}
  /\ Rearm
  /\ callingExpiredTimers' = FALSE
  /\ expired' = {}
  /\ pc' = "idle"
  /\ UNCHANGED <<clock, numCreated, cancelingTimers, now, toRun, functors,
                 adding, known, cancelled>>

-----------------------------------------------------------------------------
(***************************************************************************)
(* Another thread: addTimer() creates the Timer and hands it to the loop,  *)
(* then reads its sequence number for the TimerId it returns.              *)
(***************************************************************************)
AddTimerFrom(t, a, when, interval) ==
  /\ adding[t] = NoId
  /\ NewTimer(a, when, interval)
  /\ adding' = [adding EXCEPT ![t] = <<a, numCreated'>>]
  /\ functors' = Append(functors, [op |-> "add", id |-> <<a, numCreated'>>])
  /\ UNCHANGED <<clock, queueVars, cancelingTimers, batchVars, timerfd, known,
                 cancelled>>

\* TimerId(timer, timer->sequence()).  When the Timer is already deleted the
\* read yields anything.
AddTimerReturn(t) ==
  /\ adding[t] # NoId
  /\ \E seq \in 1 .. MaxSeq :
       /\ Allocated(adding[t][1]) => seq = heap[adding[t][1]].seq
       /\ known' = known \cup {<<adding[t][1], seq>>}
  /\ adding' = [adding EXCEPT ![t] = NoId]
  /\ UNCHANGED <<clock, heap, numCreated, queueVars, cancelingTimers,
                 batchVars, timerfd, functors, cancelled>>

\* cancel() in another thread; one cancel of an id is queued at a time.
CancelFrom(t, id) ==
  /\ adding[t] = NoId
  /\ \A i \in DOMAIN functors : functors[i] # [op |-> "cancel", id |-> id]
  /\ functors' = Append(functors, [op |-> "cancel", id |-> id])
  /\ UNCHANGED <<clock, heap, numCreated, queueVars, cancelingTimers,
                 batchVars, timerfd, adding, known, cancelled>>

Tick ==
  /\ clock < MaxTime
  /\ clock' = clock + 1
  /\ UNCHANGED <<heap, numCreated, queueVars, cancelingTimers, batchVars,
                 timerfd, functors, adding, known, cancelled>>

LoopStep ==
  \/ RunFunctor
  \/ HandleRead
  \/ \E e \in toRun : RunTimer(e)
  \/ CallbackReturn
  \/ Reset

Next ==
  \/ LoopStep
  \/ Tick
  \/ \E a \in Addrs, when \in Whens, interval \in Intervals :
       \/ AddTimer(a, when, interval)
       \/ \E t \in Threads : AddTimerFrom(t, a, when, interval)
  \/ \E id \in known :
       \/ Cancel(id)
       \/ \E t \in Threads : CancelFrom(t, id)
  \/ \E t \in Threads : AddTimerReturn(t)

Spec == Init /\ [][Next]_vars

(***************************************************************************)
(* Fairness: time passes; every iteration of the loop polls the timerfd    *)
(* and runs the queued functors, whatever else it does (strong fairness);  *)
(* a callback returns, whatever calls it makes first.                      *)
(***************************************************************************)
Fairness ==
  /\ WF_vars(Tick)
  /\ SF_vars(HandleRead)
  /\ SF_vars(RunFunctor)
  /\ SF_vars(CallbackReturn)
  /\ WF_vars(\E e \in toRun : RunTimer(e))
  /\ WF_vars(Reset)

FairSpec == Spec /\ Fairness

-----------------------------------------------------------------------------
TypeOK ==
  /\ clock \in Nat /\ now \in Nat /\ numCreated \in Nat
  /\ timerfd \in Nat \cup {Never}
  /\ heap \in [Addrs -> [seq : Nat, expiration : Nat, interval : Nat]]
  /\ timers \in SUBSET (Nat \X Addrs)
  /\ expired \in SUBSET (Nat \X Addrs)
  /\ toRun \in SUBSET expired
  /\ functors \in Seq(Functor)
  /\ known \in SUBSET (Addrs \X Nat)
  /\ cancelled \in SUBSET (Addrs \X Nat)
  /\ adding \in [Threads -> (Addrs \X Nat) \cup {NoId}]
  /\ activeTimers \in SUBSET (Addrs \X Nat)
  /\ cancelingTimers \in SUBSET (Addrs \X Nat)
  /\ callingExpiredTimers \in BOOLEAN
  /\ pc \in {"idle", "batch", "callback"}

\* An entry of timers_ is an existing Timer, filed under its expiration, and
\* is in activeTimers_ ...
TimersOK ==
  \A e \in timers :
    /\ Allocated(e[2])
    /\ e[1] = heap[e[2]].expiration
    /\ IdAt(e[2]) \in activeTimers

\* ... and the other way round.
ActiveOK ==
  \A id \in activeTimers :
    /\ id = IdAt(id[1])
    /\ Allocated(id[1])
    /\ <<heap[id[1]].expiration, id[1]>> \in timers

\* The timers of the batch exist and have left both sets.
ExpiredOK ==
  \A e \in expired :
    /\ Allocated(e[2])
    /\ e[1] = heap[e[2]].expiration
    /\ IdAt(e[2]) \notin activeTimers

\* The timers that are queued for addTimerInLoop(), each of them once, exist
\* and are not in the queue yet.
AddsOK ==
  \A i \in DOMAIN functors : functors[i].op = "add" =>
    /\ Allocated(functors[i].id[1])
    /\ IdAt(functors[i].id[1]) = functors[i].id
    /\ functors[i].id \notin activeTimers
    /\ \A e \in expired : e[2] # functors[i].id[1]
    /\ \A j \in DOMAIN functors :
         functors[j].op = "add" /\ functors[j].id = functors[i].id => i = j

\* timers_ and activeTimers_ hold the same timers, and every Timer that the
\* queue, the batch or a functor points to exists.  So the assertions on the
\* sizes and on erase() and insert() hold, and run(), restart() and the
\* deletes of handleRead() touch no deleted Timer.
QueuesAgree ==
  /\ TypeOK
  /\ TimersOK
  /\ ActiveOK
  /\ ExpiredOK
  /\ AddsOK
  /\ callingExpiredTimers <=> pc # "idle"
  /\ expired # {} => pc # "idle"

\* No timer is forgotten: whenever the loop is about to wait, and a timer is
\* in the queue, the timerfd is set, and for no later than the earliest
\* timer (or the next tick, when that one is due).
ArmedInTime ==
  pc = "idle" =>
    \A e \in timers :
      /\ timerfd # Never
      /\ timerfd <= e[1] \/ timerfd <= clock + 1

\* A timer that was cancelled after it was added is not in the queue again:
\* a repeating timer cancelled by its own callback, or by another one of the
\* same batch, is not put back by reset().
CancelStops == cancelled \cap activeTimers = {}

\* Sequence numbers are not used twice.
SeqOK ==
  /\ \A a \in Addrs : heap[a].seq <= numCreated
  /\ \A id \in cancelled : id[2] <= numCreated

\* A cancelled timer is not queued for addition, and if it is in the batch
\* it is noted in cancelingTimers_.
CancelNoted ==
  /\ \A i \in DOMAIN functors :
       functors[i].op = "add" => functors[i].id \notin cancelled
  /\ \A e \in expired :
       IdAt(e[2]) \in cancelled => IdAt(e[2]) \in cancelingTimers

\* While a batch is run the timerfd is set for any timer that reset() would
\* not set it for.
ArmedInBatch ==
  pc # "idle" =>
    \A e \in timers : e[1] = 0 => timerfd # Never /\ timerfd <= clock + 1

\* The inductive invariant behind the three invariants above.
TimerInv ==
  /\ QueuesAgree
  /\ ArmedInTime
  /\ CancelStops
  /\ SeqOK
  /\ CancelNoted
  /\ ArmedInBatch

\* A timer that was cancelled does not run.
CancelledNeverRuns ==
  [][\A e \in toRun \ toRun' : IdAt(e[2]) \notin cancelled]_vars

\* A cancel() that follows addTimer() takes effect after it: cancel() in the
\* loop thread does not overtake an addTimerInLoop() that is still queued.
CancelFollowsAdd ==
  [][\A id \in known :
       Cancel(id) => \A i \in DOMAIN functors :
                       functors[i] # [op |-> "add", id |-> id]]_vars

\* addTimer() in another thread reads the sequence number of a Timer that
\* still exists.
AddTimerReadsLive ==
  \A t \in Threads : adding[t] # NoId => IdAt(adding[t][1]) = adding[t]

\* A timer is run (and then deleted, or restarted for a later time) or
\* cancelled: none waits for ever, in the queue or on its way to it.
TimersFire ==
  \A a \in Addrs, s \in 1 .. MaxSeq, x \in 0 .. MaxTime :
    (heap[a].seq = s /\ heap[a].expiration = x)
      ~> ~(heap[a].seq = s /\ heap[a].expiration = x)
=============================================================================
