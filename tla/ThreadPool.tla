----------------------------- MODULE ThreadPool -----------------------------
(***************************************************************************)
(* muduo/base/ThreadPool.{h,cc}, used as its test does: the owner starts   *)
(* the pool, tasks are submitted, by the owner and by other tasks; the     *)
(* owner may submit a task that counts a latch down, and wait for it,      *)
(* before it stops the pool.                                               *)
(*                                                                         *)
(* A task is its number in the order of submission.                        *)
(***************************************************************************)
EXTENDS CountDownLatch, Sequences, FiniteSets

CONSTANTS
  Workers,       \* the threads that start() can create
  MaxTasks       \* bound: calls of run()

ASSUME PoolAssumption == IsFiniteSet(Workers) /\ MaxTasks \in Nat

VARIABLES
  running,       \* running_
  threads,       \* threads_: those created so far
  queue,         \* queue_
  waiting,       \* the workers in cond_.wait()
  worker,        \* where each worker is: none, test, take, run, exit
  task,          \* the task that each worker runs, or 0
  owner,         \* where the owner is: new, starting, up, latch, joining, stopped
  last,          \* how many threads start() was asked for
  tasks,         \* history: how many tasks were submitted
  queued,        \* history: the tasks that went through the queue, in order
  finished,      \* history: the tasks that have run
  latchTask      \* the task that counts the latch down, or 0

poolVars == <<running, threads, queue, waiting>>
history == <<tasks, queued, finished, latchTask>>
vars == <<poolVars, worker, task, owner, last, history, latchVars>>

Init ==
  /\ running = FALSE
  /\ threads = {}
  /\ queue = <<>>
  /\ waiting = {}
  /\ worker = [w \in Workers |-> "none"]
  /\ task = [w \in Workers |-> 0]
  /\ owner = "new"
  /\ last = 0
  /\ tasks = 0 /\ queued = <<>> /\ finished = {} /\ latchTask = 0
  /\ LatchInit(1)

-----------------------------------------------------------------------------
(***************************************************************************)
(* start(), stop() and run().                                              *)
(***************************************************************************)
\* start(): running_ is set first ...
Start(n) ==
  /\ owner = "new"
  /\ owner' = "starting"
  /\ running' = TRUE
  /\ last' = n
  /\ UNCHANGED <<threads, queue, waiting, worker, task, history, latchVars>>

\* ... then the threads are created one by one.
StartThread(w) ==
  /\ owner = "starting"
  /\ Cardinality(threads) < last
  /\ w \notin threads
  /\ threads' = threads \cup {w}
  /\ worker' = [worker EXCEPT ![w] = "test"]
  /\ UNCHANGED <<running, queue, waiting, task, owner, last, history, latchVars>>

StartReturns ==
  /\ owner = "starting"
  /\ Cardinality(threads) = last
  /\ owner' = "up"
  /\ UNCHANGED <<poolVars, worker, task, last, history, latchVars>>

\* cond_.notify() wakes one of the workers that wait, if there is one.
Notify == \/ waiting = {} /\ UNCHANGED waiting
          \/ \E w \in waiting : waiting' = waiting \ {w}

\* cond_.notify() when the queue was empty only.
NotifyFirst == IF queue = <<>> THEN Notify ELSE UNCHANGED waiting

\* The task is queued and a worker notified if the queue was empty.
RunQueuedFirst ==
  /\ queue' = Append(queue, tasks + 1)
  /\ queued' = Append(queued, tasks + 1)
  /\ NotifyFirst
  /\ UNCHANGED finished

\* The task is queued and a worker notified.
RunQueued ==
  /\ queue' = Append(queue, tasks + 1)
  /\ queued' = Append(queued, tasks + 1)
  /\ Notify
  /\ UNCHANGED finished

\* run(); without threads the task runs at once.
Run ==
  /\ tasks < MaxTasks
  /\ tasks' = tasks + 1
  /\ \/ /\ threads = {}
        /\ finished' = finished \cup {tasks + 1}
        /\ UNCHANGED <<queue, queued, waiting>>
     \/ /\ threads # {}
        /\ RunQueued
  /\ UNCHANGED <<running, threads, worker, task, last>>

\* The owner submits a task.
OwnerRuns ==
  /\ owner \in {"new", "up", "stopped"}
  /\ Run
  /\ UNCHANGED <<owner, latchTask, latchVars>>

\* A task submits another.
TaskRuns(w) ==
  /\ worker[w] = "run"
  /\ Run
  /\ UNCHANGED <<owner, latchTask, latchVars>>

\* The owner submits the task that counts the latch down, and waits.
OwnerRunsLatch ==
  /\ owner = "up"
  /\ threads # {}
  /\ latchTask = 0
  /\ latchTask' = tasks + 1
  /\ owner' = "latch"
  /\ Run
  /\ UNCHANGED latchVars

OwnerWaits ==
  /\ owner = "latch"
  /\ \/ WaitBlocks("owner") /\ UNCHANGED owner
     \/ WaitReturns("owner") /\ owner' = "up"
  /\ UNCHANGED <<poolVars, worker, task, last, history>>

OwnerSpuriousWakeup ==
  /\ SpuriousWakeup("owner")
  /\ UNCHANGED <<poolVars, worker, task, owner, last, history>>

\* stop() that wakes one worker.
StopNotifiesOne ==
  /\ owner = "up"
  /\ owner' = "joining"
  /\ running' = FALSE
  /\ Notify
  /\ UNCHANGED <<threads, queue, worker, task, last, history, latchVars>>

\* stop(), in its critical section.
Stop ==
  /\ owner = "up"
  /\ owner' = "joining"
  /\ running' = FALSE
  /\ waiting' = {}
  /\ UNCHANGED <<threads, queue, worker, task, last, history, latchVars>>

\* stop() has joined all the threads.
Join ==
  /\ owner = "joining"
  /\ \A w \in threads : worker[w] = "exit"
  /\ owner' = "stopped"
  /\ UNCHANGED <<poolVars, worker, task, last, history, latchVars>>

-----------------------------------------------------------------------------
(***************************************************************************)
(* runInThread().                                                          *)
(***************************************************************************)
\* while (running_), read without the mutex.
TestRunning(w) ==
  /\ worker[w] = "test"
  /\ worker' = [worker EXCEPT ![w] = IF running THEN "take" ELSE "exit"]
  /\ UNCHANGED <<poolVars, task, owner, last, history, latchVars>>

\* take() waits; it holds the mutex from the test of queue_ to cond_.wait().
TakeWaits(w) ==
  /\ worker[w] = "take" /\ w \notin waiting
  /\ queue = <<>>
  /\ running
  /\ waiting' = waiting \cup {w}
  /\ UNCHANGED <<running, threads, queue, worker, task, owner, last, history,
                 latchVars>>

SpuriousTake(w) ==
  /\ w \in waiting
  /\ waiting' = waiting \ {w}
  /\ UNCHANGED <<running, threads, queue, worker, task, owner, last, history,
                 latchVars>>

\* take() that leaves a task in the queue when it is the only one.
Rest == IF Len(queue) > 1 THEN Tail(queue) ELSE queue

\* queue_.pop_front().
PopFront == Tail(queue)

\* take() returns the task at the front.
TakeTask(w) ==
  /\ worker[w] = "take" /\ w \notin waiting
  /\ queue # <<>>
  /\ task' = [task EXCEPT ![w] = Head(queue)]
  /\ queue' = PopFront
  /\ worker' = [worker EXCEPT ![w] = "run"]
  /\ UNCHANGED <<running, threads, waiting, owner, last, history, latchVars>>

\* take() returns no task after stop().
TakeNothing(w) ==
  /\ worker[w] = "take" /\ w \notin waiting
  /\ queue = <<>>
  /\ ~running
  /\ worker' = [worker EXCEPT ![w] = "test"]
  /\ UNCHANGED <<poolVars, task, owner, last, history, latchVars>>

\* The task returns; its last act may be to count the latch down.
TaskReturns(w) ==
  /\ worker[w] = "run"
  /\ worker' = [worker EXCEPT ![w] = "test"]
  /\ task' = [task EXCEPT ![w] = 0]
  /\ finished' = finished \cup {task[w]}
  /\ IF task[w] = latchTask THEN CountDown ELSE UNCHANGED latchVars
  /\ UNCHANGED <<poolVars, owner, last, tasks, queued, latchTask>>

-----------------------------------------------------------------------------
WorkerStep(w) ==
  TestRunning(w) \/ TakeWaits(w) \/ TakeTask(w) \/ TakeNothing(w) \/ TaskReturns(w)

OwnerStep == StartReturns \/ OwnerWaits \/ Join \/ \E w \in Workers : StartThread(w)

Next ==
  \/ \E n \in 0 .. Cardinality(Workers) : Start(n)
  \/ OwnerStep
  \/ OwnerRuns \/ OwnerRunsLatch \/ OwnerSpuriousWakeup \/ Stop
  \/ \E w \in Workers : WorkerStep(w) \/ SpuriousTake(w) \/ TaskRuns(w)

Spec == Init /\ [][Next]_vars

(***************************************************************************)
(* Fairness: the threads are scheduled and tasks return; nobody has to     *)
(* submit a task, to stop the pool, or to wake for no reason.              *)
(***************************************************************************)
Fairness == WF_vars(OwnerStep) /\ \A w \in Workers : WF_vars(WorkerStep(w))

FairSpec == Spec /\ Fairness

-----------------------------------------------------------------------------
Task == 1 .. MaxTasks

TypeOK ==
  /\ running \in BOOLEAN
  /\ threads \subseteq Workers
  /\ queue \in Seq(Task) /\ queued \in Seq(Task)
  /\ waiting \subseteq threads
  /\ worker \in [Workers -> {"none", "test", "take", "run", "exit"}]
  /\ task \in [Workers -> Task \cup {0}]
  /\ owner \in {"new", "starting", "up", "latch", "joining", "stopped"}
  /\ last \in 0 .. Cardinality(Workers)
  /\ tasks \in 0 .. MaxTasks /\ finished \subseteq Task
  /\ latchTask \in Task \cup {0}
  /\ count \in {0, 1} /\ blocked \subseteq {"owner"}

RunningTasks == {task[w] : w \in Workers} \ {0}
Taken == SubSeq(queued, 1, Len(queued) - Len(queue))

\* A task is taken in the order of submission and run once: what went through
\* the queue is the tasks taken, which run or have run, and then the queue; two
\* workers never have the same task.
PoolInv ==
  /\ TypeOK
  /\ SubSeq(queued, Len(queued) - Len(queue) + 1, Len(queued)) = queue
  /\ {Taken[i] : i \in DOMAIN Taken} \subseteq RunningTasks \cup finished
  /\ \A i \in DOMAIN queue : queue[i] \notin RunningTasks \cup finished
  /\ \A v, w \in Workers : task[v] = task[w] /\ v # w => task[v] = 0
  /\ \A w \in Workers : (worker[w] = "run" <=> task[w] # 0) /\ task[w] \notin finished

\* Tasks do not queue up while a worker sleeps: as long as one waits, there is
\* for every task in queue_ a worker that is about to take one.
NoIdleWorker ==
  waiting # {} => Cardinality({w \in Workers \ waiting : worker[w] = "take"}) >= Len(queue)

\* After the latch has been waited for, stop() returns only when every task
\* that was submitted before the latch's has run.
LatchIsABarrier ==
  (owner = "stopped" /\ latchTask # 0) => \A t \in 1 .. latchTask : t \in finished

\* The owner's calls return: start(), the wait for the latch, and stop().
OwnerReturns ==
  /\ (owner \in {"starting", "latch"}) ~> (owner = "up")
  /\ (owner = "joining") ~> (owner = "stopped")

\* Tasks are taken in order and run once, no worker sleeps in take() while a task
\* waits, and the latch is a barrier: PoolInv, NoIdleWorker and LatchIsABarrier.
TasksInv == PoolInv /\ NoIdleWorker /\ LatchIsABarrier
=============================================================================
