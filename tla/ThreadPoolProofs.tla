-------------------------- MODULE ThreadPoolProofs --------------------------
(***************************************************************************)
(* TasksInv holds in every reachable state of ThreadPool, for any number   *)
(* of workers and of tasks.                                                *)
(***************************************************************************)
EXTENDS ThreadPool, FiniteSetTheorems, TLAPS

\* How many tasks have been taken from the queue.
Popped == Len(queued) - Len(queue)

\* Tasks are numbered as they are queued, the queue is the end of what was
\* queued, and a task that never went through the queue has run.
OrderInv ==
  /\ Len(queue) <= Len(queued)
  /\ \A i \in DOMAIN queue : queue[i] = queued[Popped + i]
  /\ \A i \in DOMAIN queued : queued[i] <= tasks
  /\ \A i, j \in DOMAIN queued : i < j => queued[i] < queued[j]
  /\ \A t \in 1 .. tasks : t \in finished \/ \E i \in DOMAIN queued : queued[i] = t

\* What runs or has run was submitted, and no two workers run the same task.
EachTaskOnce ==
  /\ \A t \in finished : t <= tasks
  /\ \A w \in Workers : task[w] <= tasks /\ task[w] \notin finished
  /\ \A v, w \in Workers : task[v] = task[w] /\ v # w => task[v] = 0

\* What was taken is run by one worker or has run; the rest has not started.
TakenInv ==
  /\ \A i \in DOMAIN queued : i <= Popped =>
       queued[i] \in finished \/ \E w \in Workers : task[w] = queued[i]
  /\ \A i \in DOMAIN queued : i > Popped =>
       queued[i] \notin finished /\ \A w \in Workers : task[w] # queued[i]

\* A worker is a thread once start() has created it; it waits only in take(),
\* and it has a task only while it runs one.
WorkerInv ==
  /\ \A w \in Workers : worker[w] = "none" <=> w \notin threads
  /\ \A w \in Workers : worker[w] = "run" <=> task[w] # 0
  /\ \A w \in waiting : worker[w] = "take"
  /\ owner = "stopped" => \A w \in threads : worker[w] = "exit"

\* The latch is counted down by its own task, after which the owner goes on.
LatchInv ==
  /\ latchTask # 0 => \E i \in DOMAIN queued : queued[i] = latchTask
  /\ owner \in {"new", "starting"} => latchTask = 0
  /\ owner \in {"up", "joining", "stopped"} /\ latchTask # 0 => count = 0
  /\ count = 0 => latchTask # 0 /\ latchTask \in finished

\* The inductive invariant behind TasksInv.
IInv ==
  /\ TypeOK
  /\ OrderInv
  /\ TakenInv
  /\ EachTaskOnce
  /\ WorkerInv
  /\ NoIdleWorker
  /\ LatchInv

\* The workers that are about to take a task.
Ready == {w \in Workers \ waiting : worker[w] = "take"}

-----------------------------------------------------------------------------
\* One more task.
LEMMA AppendOf ==
  ASSUME NEW S, NEW q \in Seq(S), NEW x \in S
  PROVE  /\ Append(q, x) \in Seq(S)
         /\ Len(Append(q, x)) = Len(q) + 1
         /\ DOMAIN Append(q, x) = DOMAIN q \cup {Len(q) + 1}
         /\ \A i \in DOMAIN q : Append(q, x)[i] = q[i]
         /\ Append(q, x)[Len(q) + 1] = x
  OBVIOUS

\* One task less.
LEMMA TailOf ==
  ASSUME NEW S, NEW q \in Seq(S), q # <<>>
  PROVE  /\ Tail(q) \in Seq(S)
         /\ Len(Tail(q)) = Len(q) - 1 /\ Len(q) > 0
         /\ Head(q) = q[1] /\ 1 \in DOMAIN q /\ q[1] \in S
         /\ \A i \in DOMAIN Tail(q) : i + 1 \in DOMAIN q /\ Tail(q)[i] = q[i + 1]
  OBVIOUS

\* A sequence's indices.
LEMMA IndexOf ==
  ASSUME NEW S, NEW q \in Seq(S)
  PROVE  /\ Len(q) \in Nat /\ DOMAIN q = 1 .. Len(q)
         /\ \A i \in DOMAIN q : i \in Nat /\ i > 0 /\ i <= Len(q) /\ q[i] \in S
  OBVIOUS

\* The workers are finitely many, so the ready ones can be counted.
LEMMA ReadyFinite == IsFiniteSet(Ready) /\ Cardinality(Ready) \in Nat
<1>1. Ready \in SUBSET Workers /\ IsFiniteSet(Workers)
  BY PoolAssumption DEF Ready
<1>2. IsFiniteSet(Ready)
  BY Zenon, <1>1, FS_Subset
<1> QED
  BY Zenon, <1>2, FS_CardinalityType

\* As long as no task is queued, enough workers are ready if none stops being.
LEMMA StillReady ==
  ASSUME NoIdleWorker, Ready \subseteq Ready', waiting' \subseteq waiting,
         Len(queue') = Len(queue), Len(queue) \in Nat
  PROVE  NoIdleWorker'
<1> SUFFICES ASSUME waiting' # {}
             PROVE  Cardinality(Ready') >= Len(queue')
  BY Zenon DEF NoIdleWorker, Ready
<1>1. Cardinality(Ready) >= Len(queue)
  <2>1. waiting # {}
    BY Zenon
  <2> QED
    BY Zenon, <2>1 DEF NoIdleWorker, Ready
<1>2. IsFiniteSet(Ready')
  <2>1. Ready' \in SUBSET Workers /\ IsFiniteSet(Workers)
    BY PoolAssumption DEF Ready
  <2> QED
    BY Zenon, <2>1, FS_Subset
<1>3. Cardinality(Ready) <= Cardinality(Ready')
  BY Zenon, <1>2, FS_Subset
<1>4. Cardinality(Ready') \in Nat /\ Cardinality(Ready) \in Nat
  BY Zenon, <1>2, FS_CardinalityType, ReadyFinite
<1> QED
  BY <1>1, <1>3, <1>4

-----------------------------------------------------------------------------
\* Nothing is queued and nobody is started.
LEMMA InitIInv == Init => IInv
<1> SUFFICES ASSUME Init PROVE IInv
  OBVIOUS
<1> USE DEF Init, LatchInit
<1>1. <<>> \in Seq(Task) /\ Len(<<>>) = 0 /\ DOMAIN <<>> = {}
  OBVIOUS
<1>2. Cardinality(Workers) \in Nat
  BY Zenon, PoolAssumption, FS_CardinalityType
<1>3. TypeOK
  <2>1. last \in 0 .. Cardinality(Workers) /\ tasks \in 0 .. MaxTasks
    BY <1>2, PoolAssumption
  <2>2. /\ worker \in [Workers -> {"none", "test", "take", "run", "exit"}]
        /\ task \in [Workers -> Task \cup {0}]
    OBVIOUS
  <2> QED
    BY Zenon, <1>1, <2>1, <2>2 DEF TypeOK
<1>4. OrderInv /\ TakenInv /\ EachTaskOnce
  BY <1>1 DEF OrderInv, TakenInv, EachTaskOnce, Popped
<1>5. WorkerInv /\ NoIdleWorker /\ LatchInv
  BY <1>1 DEF WorkerInv, NoIdleWorker, LatchInv
<1> QED
  BY <1>3, <1>4, <1>5 DEF IInv

\* run() keeps the order of the tasks, and wakes a worker for the one it queues.
LEMMA RunPreserves ==
  ASSUME IInv, Run, UNCHANGED latchVars,
         owner' = owner \/ (owner = "up" /\ owner' = "latch"),
         latchTask' \in Task \cup {0}
  PROVE  /\ TypeOK' /\ OrderInv' /\ TakenInv' /\ EachTaskOnce' /\ WorkerInv' /\ NoIdleWorker'
         /\ tasks' = tasks + 1
         /\ finished \subseteq finished'
         /\ \A i \in DOMAIN queued : i \in DOMAIN queued' /\ queued'[i] = queued[i]
         /\ threads # {} => \E i \in DOMAIN queued' : queued'[i] = tasks + 1
<1> DEFINE t == tasks + 1
<1>1. /\ TypeOK /\ OrderInv /\ TakenInv /\ EachTaskOnce /\ WorkerInv /\ NoIdleWorker
      /\ queue \in Seq(Task) /\ queued \in Seq(Task)
  BY Zenon DEF IInv, TypeOK
<1>2. /\ tasks \in Nat /\ tasks < MaxTasks /\ tasks' = t
      /\ t \in Task /\ t \in Nat /\ t > tasks /\ t # 0 /\ t \in 0 .. MaxTasks
  BY <1>1, PoolAssumption DEF Run, TypeOK, Task
<1>3. UNCHANGED <<running, threads, worker, task, last, count, blocked>>
  BY Zenon DEF Run, latchVars
<1>4. /\ Len(queue) \in Nat /\ Len(queued) \in Nat
      /\ DOMAIN queue = 1 .. Len(queue) /\ DOMAIN queued = 1 .. Len(queued)
      /\ \A i \in DOMAIN queued : i \in Nat /\ i > 0 /\ i <= Len(queued)
                                  /\ queued[i] \in Nat /\ queued[i] <= tasks
      /\ \A i \in DOMAIN queue : i \in Nat /\ i > 0 /\ i <= Len(queue)
      /\ Len(queue) <= Len(queued)
  <2>1. /\ Len(queue) \in Nat /\ DOMAIN queue = 1 .. Len(queue)
        /\ \A i \in DOMAIN queue : i \in Nat /\ i > 0 /\ i <= Len(queue)
    BY Zenon, <1>1, IndexOf
  <2>2. /\ Len(queued) \in Nat /\ DOMAIN queued = 1 .. Len(queued)
        /\ \A i \in DOMAIN queued : i \in Nat /\ i > 0 /\ i <= Len(queued)
                                    /\ queued[i] \in Task
    BY Zenon, <1>1, IndexOf
  <2>3. \A x \in Task : x \in Nat
    BY PoolAssumption DEF Task
  <2> QED
    BY Zenon, <1>1, <2>1, <2>2, <2>3 DEF OrderInv
<1>5. /\ \A w \in Workers : task[w] \in Nat /\ task[w] <= tasks
      /\ \A x \in finished : x \in Nat /\ x <= tasks
  BY <1>1, PoolAssumption DEF TypeOK, EachTaskOnce, Task
<1>a. owner' \in {"new", "starting", "up", "latch", "joining", "stopped"}
      /\ (owner' = "stopped" => owner = "stopped")
  BY Zenon, <1>1 DEF TypeOK
<1> HIDE DEF t
<1>6. CASE threads = {}
  <2>1. finished' = finished \cup {t} /\ UNCHANGED <<queue, queued, waiting>>
    BY Zenon, <1>6 DEF Run, RunQueued, t
  <2>2. TypeOK'
    BY Zenon, <1>1, <1>2, <1>3, <1>a, <2>1 DEF TypeOK
  <2>3. OrderInv'
    <3>1. \A x \in 1 .. t : x \in 1 .. tasks \/ x = t
      BY <1>2 DEF t
    <3>2. \A x \in 1 .. t : x \in finished' \/ \E i \in DOMAIN queued : queued[i] = x
      BY Zenon, <1>1, <2>1, <3>1 DEF OrderInv
    <3>3. \A i \in DOMAIN queued : queued[i] <= t
      BY <1>2, <1>4
    <3> QED
      BY Zenon, <1>1, <1>2, <2>1, <3>2, <3>3 DEF OrderInv, Popped
  <2>4. TakenInv' /\ EachTaskOnce'
    <3>1. \A i \in DOMAIN queued : queued[i] # t
      BY <1>2, <1>4
    <3>2. \A w \in Workers : task[w] # t /\ task[w] <= t
      BY <1>2, <1>5
    <3>3. \A x \in finished' : x <= t
      BY <1>2, <1>5, <2>1
    <3>4. Popped' = Popped
      BY Zenon, <2>1 DEF Popped
    <3>5. \A i \in DOMAIN queued : i <= Popped =>
            queued[i] \in finished' \/ \E w \in Workers : task[w] = queued[i]
      BY Zenon, <1>1, <2>1 DEF TakenInv
    <3>6. \A i \in DOMAIN queued : i > Popped =>
            queued[i] \notin finished' /\ \A w \in Workers : task[w] # queued[i]
      BY Zenon, <1>1, <2>1, <3>1 DEF TakenInv
    <3>7. \A w \in Workers : task[w] <= t /\ task[w] \notin finished'
      BY Zenon, <1>1, <2>1, <3>2 DEF EachTaskOnce
    <3> QED
      BY Zenon, <1>1, <1>2, <1>3, <2>1, <3>3, <3>4, <3>5, <3>6, <3>7 DEF TakenInv, EachTaskOnce
  <2>5. WorkerInv'
    BY Zenon, <1>1, <1>3, <1>a, <2>1 DEF WorkerInv
  <2>6. NoIdleWorker'
    BY Zenon, <1>1, <1>3, <2>1 DEF NoIdleWorker
  <2> QED
    BY Zenon, <1>2, <1>6, <2>1, <2>2, <2>3, <2>4, <2>5, <2>6 DEF t
<1>7. CASE threads # {}
  <2>1. /\ queue' = Append(queue, t) /\ queued' = Append(queued, t)
        /\ Notify /\ finished' = finished
    BY Zenon, <1>7 DEF Run, RunQueued, t
  <2>2. /\ queue' \in Seq(Task) /\ queued' \in Seq(Task)
        /\ Len(queue') = Len(queue) + 1 /\ Len(queued') = Len(queued) + 1
        /\ DOMAIN queue' = DOMAIN queue \cup {Len(queue) + 1}
        /\ DOMAIN queued' = DOMAIN queued \cup {Len(queued) + 1}
        /\ \A i \in DOMAIN queue : queue'[i] = queue[i]
        /\ \A i \in DOMAIN queued : queued'[i] = queued[i]
        /\ queue'[Len(queue) + 1] = t /\ queued'[Len(queued) + 1] = t
    <3>1. /\ queue' \in Seq(Task) /\ Len(queue') = Len(queue) + 1
          /\ DOMAIN queue' = DOMAIN queue \cup {Len(queue) + 1}
          /\ \A i \in DOMAIN queue : queue'[i] = queue[i]
          /\ queue'[Len(queue) + 1] = t
      BY <1>1, <1>2, <2>1, AppendOf
    <3>2. /\ queued' \in Seq(Task) /\ Len(queued') = Len(queued) + 1
          /\ DOMAIN queued' = DOMAIN queued \cup {Len(queued) + 1}
          /\ \A i \in DOMAIN queued : queued'[i] = queued[i]
          /\ queued'[Len(queued) + 1] = t
      BY <1>1, <1>2, <2>1, AppendOf
    <3> QED
      BY Zenon, <3>1, <3>2
  <2>3. waiting' \subseteq waiting
    BY Zenon, <2>1 DEF Notify
  <2>4. TypeOK'
    <3>1. waiting' \subseteq threads'
      BY Zenon, <1>1, <1>3, <2>3 DEF TypeOK
    <3> QED
      BY Zenon, <1>1, <1>2, <1>3, <1>a, <2>1, <2>2, <3>1 DEF TypeOK
  <2>5. Popped' = Popped /\ Popped \in Nat /\ Popped + Len(queue) = Len(queued)
    BY <1>4, <2>2 DEF Popped
  <2>6. OrderInv'
    <3>1. Len(queue') <= Len(queued')
      BY <1>4, <2>2
    <3>2. ASSUME NEW i \in DOMAIN queue' PROVE queue'[i] = queued'[Popped + i]
      <4>1. CASE i \in DOMAIN queue
        <5>1. Popped + i \in DOMAIN queued
          BY <1>4, <2>5, <4>1
        <5> QED
          BY Zenon, <1>1, <2>2, <4>1, <5>1 DEF OrderInv
      <4>2. CASE i = Len(queue) + 1
        <5>1. Popped + i = Len(queued) + 1
          BY <1>4, <2>5, <4>2
        <5> QED
          BY Zenon, <2>2, <4>2, <5>1
      <4> QED
        BY Zenon, <2>2, <4>1, <4>2
    <3>3. \A i \in DOMAIN queued' : queued'[i] <= t
      <4>1. \A i \in DOMAIN queued : queued[i] <= t
        BY <1>2, <1>4
      <4>2. t <= t
        BY <1>2
      <4> QED
        BY Zenon, <2>2, <4>1, <4>2
    <3>4. ASSUME NEW i \in DOMAIN queued', NEW j \in DOMAIN queued', i < j
          PROVE  queued'[i] < queued'[j]
      <4>1. CASE j \in DOMAIN queued
        <5>1. i \in DOMAIN queued
          BY <1>4, <2>2, <3>4, <4>1
        <5> QED
          BY Zenon, <1>1, <2>2, <3>4, <4>1, <5>1 DEF OrderInv
      <4>2. CASE j = Len(queued) + 1
        <5>1. i \in DOMAIN queued
          BY <1>4, <2>2, <3>4, <4>2
        <5>2. queued[i] < t
          BY <1>2, <1>4, <5>1
        <5> QED
          BY Zenon, <2>2, <4>2, <5>1, <5>2
      <4> QED
        BY Zenon, <2>2, <4>1, <4>2
    <3>5. ASSUME NEW x \in 1 .. t
          PROVE  x \in finished \/ \E i \in DOMAIN queued' : queued'[i] = x
      <4>1. x \in 1 .. tasks \/ x = t
        BY <1>2 DEF t
      <4>2. CASE x \in 1 .. tasks
        BY Zenon, <1>1, <2>2, <4>2 DEF OrderInv
      <4>3. CASE x = t
        BY Zenon, <2>2, <4>3
      <4> QED
        BY Zenon, <4>1, <4>2, <4>3
    <3> QED
      BY Zenon, <1>2, <2>1, <2>5, <3>1, <3>2, <3>3, <3>4, <3>5 DEF OrderInv
  <2>7. TakenInv' /\ EachTaskOnce'
    <3>1. ~(Len(queued) + 1 <= Popped)
      BY <1>4, <2>5
    <3>2. t \notin finished /\ \A w \in Workers : task[w] # t
      BY <1>2, <1>5
    <3>3. \A i \in DOMAIN queued' : i <= Popped =>
            queued'[i] \in finished \/ \E w \in Workers : task[w] = queued'[i]
      <4> TAKE i \in DOMAIN queued'
      <4>1. CASE i \in DOMAIN queued
        BY Zenon, <1>1, <2>2, <4>1 DEF TakenInv
      <4> QED
        BY Zenon, <2>2, <3>1, <4>1
    <3>4. \A i \in DOMAIN queued' : i > Popped =>
            queued'[i] \notin finished /\ \A w \in Workers : task[w] # queued'[i]
      <4> TAKE i \in DOMAIN queued'
      <4>1. CASE i \in DOMAIN queued
        BY Zenon, <1>1, <2>2, <4>1 DEF TakenInv
      <4>2. CASE i = Len(queued) + 1
        BY Zenon, <2>2, <3>2, <4>2
      <4> QED
        BY Zenon, <2>2, <4>1, <4>2
    <3>5. \A x \in finished : x <= t
      BY <1>2, <1>5
    <3>6. \A w \in Workers : task[w] <= t
      BY <1>2, <1>5
    <3>7. \A w \in Workers : task[w] <= t /\ task[w] \notin finished
      BY Zenon, <1>1, <3>6 DEF EachTaskOnce
    <3> QED
      BY Zenon, <1>1, <1>2, <1>3, <2>1, <2>5, <3>3, <3>4, <3>5, <3>7 DEF TakenInv, EachTaskOnce
  <2>8. WorkerInv'
    BY Zenon, <1>1, <1>3, <1>a, <2>3 DEF WorkerInv
  <2>9. NoIdleWorker'
    <3>1. CASE waiting = {} /\ waiting' = waiting
      BY Zenon, <3>1 DEF NoIdleWorker
    <3>2. ASSUME NEW w \in waiting, waiting' = waiting \ {w}
          PROVE  NoIdleWorker'
      <4>1. worker[w] = "take" /\ w \in Workers
        BY Zenon, <1>1 DEF WorkerInv, TypeOK
      <4>2. Ready' = Ready \cup {w} /\ w \notin Ready
        BY <1>3, <3>2, <4>1 DEF Ready
      <4>3. Cardinality(Ready') = Cardinality(Ready) + 1
        BY Zenon, <4>2, ReadyFinite, FS_AddElement
      <4>4. Cardinality(Ready) >= Len(queue)
        BY Zenon, <1>1, <3>2 DEF NoIdleWorker, Ready
      <4>5. Cardinality(Ready') >= Len(queue')
        BY <1>4, <2>2, <4>3, <4>4, ReadyFinite
      <4> QED
        BY Zenon, <4>5 DEF NoIdleWorker, Ready
    <3> QED
      BY Zenon, <2>1, <3>1, <3>2 DEF Notify
  <2>10. \E i \in DOMAIN queued' : queued'[i] = t
    BY Zenon, <2>2
  <2> QED
    BY Zenon, <1>2, <2>1, <2>2, <2>4, <2>6, <2>7, <2>8, <2>9, <2>10 DEF t
<1> QED
  BY Zenon, <1>6, <1>7

\* A step that leaves the queue and the tasks alone.
LEMMA SameTasks ==
  ASSUME UNCHANGED <<queue, queued, tasks, finished, task>>
  PROVE  /\ OrderInv => OrderInv'
         /\ TakenInv => TakenInv'
         /\ EachTaskOnce => EachTaskOnce'
<1>1. OrderInv => OrderInv'
  BY Zenon DEF OrderInv, Popped
<1>2. TakenInv => TakenInv'
  BY Zenon DEF TakenInv, Popped
<1>3. EachTaskOnce => EachTaskOnce'
  BY Zenon DEF EachTaskOnce
<1> QED
  BY Zenon, <1>1, <1>2, <1>3

\* The steps of the owner, other than run(), preserve the invariant.
LEMMA OwnerPreserves ==
  ASSUME IInv,
         \/ \E n \in 0 .. Cardinality(Workers) : Start(n)
         \/ OwnerStep \/ OwnerSpuriousWakeup \/ Stop
  PROVE  IInv'
<1>1. /\ TypeOK /\ OrderInv /\ TakenInv /\ EachTaskOnce /\ WorkerInv /\ NoIdleWorker /\ LatchInv
      /\ queue \in Seq(Task)
  BY Zenon DEF IInv, TypeOK
<1>2. Len(queue) \in Nat
  BY Zenon, <1>1, IndexOf
<1>3. ASSUME NEW n \in 0 .. Cardinality(Workers), Start(n)
      PROVE  IInv'
  <2>1. /\ owner = "new" /\ owner' = "starting" /\ running' = TRUE /\ last' = n
        /\ UNCHANGED <<threads, queue, waiting, worker, task, tasks, queued,
                       finished, latchTask, count, blocked>>
    BY Zenon, <1>3 DEF Start, history, latchVars
  <2>2. TypeOK'
    BY Zenon, <1>1, <2>1 DEF TypeOK
  <2>3. OrderInv' /\ TakenInv' /\ EachTaskOnce'
    BY Zenon, <1>1, <2>1, SameTasks
  <2>4. WorkerInv' /\ NoIdleWorker'
    BY Zenon, <1>1, <2>1 DEF WorkerInv, NoIdleWorker
  <2>5. LatchInv'
    BY Zenon, <1>1, <2>1 DEF LatchInv
  <2> QED
    BY Zenon, <2>2, <2>3, <2>4, <2>5 DEF IInv
<1>4. ASSUME NEW w \in Workers, StartThread(w)
      PROVE  IInv'
  <2>1. /\ owner = "starting" /\ w \notin threads /\ threads' = threads \cup {w}
        /\ worker' = [worker EXCEPT ![w] = "test"]
        /\ UNCHANGED <<running, queue, waiting, task, owner, last, tasks, queued,
                       finished, latchTask, count, blocked>>
    BY Zenon, <1>4 DEF StartThread, history, latchVars
  <2>2. /\ worker[w] = "none" /\ worker'[w] = "test"
        /\ \A v \in Workers : v # w => worker'[v] = worker[v]
    BY Zenon, <1>1, <2>1 DEF TypeOK, WorkerInv
  <2>3. TypeOK'
    <3>1. worker' \in [Workers -> {"none", "test", "take", "run", "exit"}]
      BY <1>1, <2>1 DEF TypeOK
    <3>2. threads' \subseteq Workers /\ waiting' \subseteq threads'
      BY <1>1, <2>1 DEF TypeOK
    <3> QED
      BY Zenon, <1>1, <2>1, <3>1, <3>2 DEF TypeOK
  <2>4. OrderInv' /\ TakenInv' /\ EachTaskOnce'
    BY Zenon, <1>1, <2>1, SameTasks
  <2>5. WorkerInv'
    <3>1. \A v \in Workers : worker'[v] = "none" <=> v \notin threads'
      BY Zenon, <1>1, <2>1, <2>2 DEF WorkerInv
    <3>2. \A v \in Workers : worker'[v] = "run" <=> task[v] # 0
      BY Zenon, <1>1, <2>2 DEF WorkerInv
    <3>3. \A v \in waiting : v \in Workers /\ v # w
      BY Zenon, <1>1, <2>1 DEF TypeOK
    <3>4. \A v \in waiting : worker'[v] = "take"
      BY Zenon, <1>1, <2>2, <3>3 DEF WorkerInv
    <3> QED
      BY Zenon, <2>1, <3>1, <3>2, <3>4 DEF WorkerInv
  <2>6. NoIdleWorker'
    <3>1. Ready \subseteq Ready'
      BY Zenon, <2>1, <2>2 DEF Ready
    <3> QED
      BY Zenon, <1>1, <1>2, <2>1, <3>1, StillReady
  <2>7. LatchInv'
    BY Zenon, <1>1, <2>1 DEF LatchInv
  <2> QED
    BY Zenon, <2>3, <2>4, <2>5, <2>6, <2>7 DEF IInv
<1>5. CASE StartReturns
  <2>1. /\ owner = "starting" /\ owner' = "up"
        /\ UNCHANGED <<running, threads, queue, waiting, worker, task, last, tasks,
                       queued, finished, latchTask, count, blocked>>
    BY Zenon, <1>5 DEF StartReturns, poolVars, history, latchVars
  <2>2. TypeOK'
    BY Zenon, <1>1, <2>1 DEF TypeOK
  <2>3. OrderInv' /\ TakenInv' /\ EachTaskOnce'
    BY Zenon, <1>1, <2>1, SameTasks
  <2>4. WorkerInv' /\ NoIdleWorker'
    BY Zenon, <1>1, <2>1 DEF WorkerInv, NoIdleWorker
  <2>5. LatchInv'
    BY Zenon, <1>1, <2>1 DEF LatchInv
  <2> QED
    BY Zenon, <2>2, <2>3, <2>4, <2>5 DEF IInv
<1>6. CASE OwnerWaits \/ OwnerSpuriousWakeup
  <2>1. UNCHANGED <<running, threads, queue, waiting, worker, task, last, tasks,
                    queued, finished, latchTask, count>>
    BY Zenon, <1>6 DEF OwnerWaits, OwnerSpuriousWakeup, WaitBlocks, WaitReturns,
                       SpuriousWakeup, poolVars, history, latchVars
  <2>2. blocked' \subseteq {"owner"}
    BY Zenon, <1>1, <1>6 DEF OwnerWaits, OwnerSpuriousWakeup, WaitBlocks, WaitReturns,
                             SpuriousWakeup, latchVars, TypeOK
  <2>3. owner' = owner \/ (owner = "latch" /\ owner' = "up" /\ count <= 0)
    BY Zenon, <1>6 DEF OwnerWaits, OwnerSpuriousWakeup, WaitReturns
  <2>4. count <= 0 => count = 0
    BY <1>1 DEF TypeOK
  <2>5. TypeOK'
    BY Zenon, <1>1, <2>1, <2>2, <2>3 DEF TypeOK
  <2>6. OrderInv' /\ TakenInv' /\ EachTaskOnce'
    BY Zenon, <1>1, <2>1, SameTasks
  <2>7. WorkerInv' /\ NoIdleWorker'
    BY Zenon, <1>1, <2>1, <2>3 DEF WorkerInv, NoIdleWorker
  <2>8. LatchInv'
    BY Zenon, <1>1, <2>1, <2>3, <2>4 DEF LatchInv
  <2> QED
    BY Zenon, <2>5, <2>6, <2>7, <2>8 DEF IInv
<1>7. CASE Stop
  <2>1. /\ owner = "up" /\ owner' = "joining" /\ running' = FALSE /\ waiting' = {}
        /\ UNCHANGED <<threads, queue, worker, task, last, tasks, queued, finished,
                       latchTask, count, blocked>>
    BY Zenon, <1>7 DEF Stop, history, latchVars
  <2>2. TypeOK'
    BY Zenon, <1>1, <2>1 DEF TypeOK
  <2>3. OrderInv' /\ TakenInv' /\ EachTaskOnce'
    BY Zenon, <1>1, <2>1, SameTasks
  <2>4. WorkerInv' /\ NoIdleWorker'
    BY Zenon, <1>1, <2>1 DEF WorkerInv, NoIdleWorker
  <2>5. LatchInv'
    BY Zenon, <1>1, <2>1 DEF LatchInv
  <2> QED
    BY Zenon, <2>2, <2>3, <2>4, <2>5 DEF IInv
<1>8. CASE Join
  <2>1. /\ owner = "joining" /\ owner' = "stopped"
        /\ \A w \in threads : worker[w] = "exit"
        /\ UNCHANGED <<running, threads, queue, waiting, worker, task, last, tasks,
                       queued, finished, latchTask, count, blocked>>
    BY Zenon, <1>8 DEF Join, poolVars, history, latchVars
  <2>2. TypeOK'
    BY Zenon, <1>1, <2>1 DEF TypeOK
  <2>3. OrderInv' /\ TakenInv' /\ EachTaskOnce'
    BY Zenon, <1>1, <2>1, SameTasks
  <2>4. WorkerInv' /\ NoIdleWorker'
    BY Zenon, <1>1, <2>1 DEF WorkerInv, NoIdleWorker
  <2>5. LatchInv'
    BY Zenon, <1>1, <2>1 DEF LatchInv
  <2> QED
    BY Zenon, <2>2, <2>3, <2>4, <2>5 DEF IInv
<1> QED
  BY Zenon, <1>3, <1>4, <1>5, <1>6, <1>7, <1>8 DEF OwnerStep

\* take() returns the task at the front, and preserves the invariant.
LEMMA TakeTaskPreserves ==
  ASSUME IInv, NEW w \in Workers, TakeTask(w)
  PROVE  IInv'
<1> DEFINE t == Head(queue)
<1>1. /\ TypeOK /\ OrderInv /\ TakenInv /\ EachTaskOnce /\ WorkerInv /\ NoIdleWorker /\ LatchInv
      /\ queue \in Seq(Task) /\ queued \in Seq(Task)
  BY Zenon DEF IInv, TypeOK
<1>2. /\ worker[w] = "take" /\ w \notin waiting /\ queue # <<>>
      /\ task' = [task EXCEPT ![w] = t] /\ queue' = Tail(queue)
      /\ worker' = [worker EXCEPT ![w] = "run"]
      /\ UNCHANGED <<running, threads, waiting, owner, last, tasks, queued, finished,
                     latchTask, count, blocked>>
  BY Zenon DEF TakeTask, PopFront, history, latchVars
<1>3. /\ queue' \in Seq(Task) /\ Len(queue') = Len(queue) - 1 /\ Len(queue) > 0
      /\ t = queue[1] /\ 1 \in DOMAIN queue /\ t \in Task
      /\ \A i \in DOMAIN queue' : i + 1 \in DOMAIN queue /\ queue'[i] = queue[i + 1]
  BY Zenon, <1>1, <1>2, TailOf
<1>4. /\ Len(queue) \in Nat /\ Len(queued) \in Nat /\ Len(queue) <= Len(queued)
      /\ DOMAIN queued = 1 .. Len(queued)
      /\ \A i \in DOMAIN queued : i \in Nat
      /\ \A i \in DOMAIN queue' : i \in Nat
  BY Zenon, <1>1, <1>3, IndexOf DEF OrderInv
<1>5. /\ Popped' = Popped + 1 /\ Popped \in Nat /\ Popped + 1 \in DOMAIN queued
  BY <1>2, <1>3, <1>4 DEF Popped
<1>6. t = queued[Popped + 1] /\ t \in Nat /\ t # 0
  <2>1. t = queued[Popped + 1]
    BY Zenon, <1>1, <1>3 DEF OrderInv
  <2> QED
    BY <1>3, <2>1, PoolAssumption DEF Task
<1> HIDE DEF t
<1>7. /\ task'[w] = t /\ worker'[w] = "run"
      /\ \A v \in Workers : v # w => task'[v] = task[v] /\ worker'[v] = worker[v]
  BY Zenon, <1>1, <1>2 DEF TypeOK
<1>8. task[w] = 0
  BY Zenon, <1>1, <1>2 DEF WorkerInv
<1>9. t \notin finished /\ t <= tasks /\ \A v \in Workers : task[v] # t
  <2>1. Popped + 1 > Popped
    BY <1>5
  <2> QED
    BY Zenon, <1>1, <1>5, <1>6, <2>1 DEF TakenInv, OrderInv
<1>10. TypeOK'
  <2>1. /\ worker' \in [Workers -> {"none", "test", "take", "run", "exit"}]
        /\ task' \in [Workers -> Task \cup {0}]
    BY <1>1, <1>2, <1>3 DEF TypeOK
  <2> QED
    BY Zenon, <1>1, <1>2, <1>3, <2>1 DEF TypeOK
<1>11. OrderInv'
  <2>1. Len(queue') <= Len(queued')
    BY <1>2, <1>3, <1>4
  <2>2. ASSUME NEW i \in DOMAIN queue' PROVE queue'[i] = queued[(Popped + 1) + i]
    <3>1. queue'[i] = queued[Popped + (i + 1)]
      BY Zenon, <1>1, <1>3, <2>2 DEF OrderInv
    <3>2. Popped + (i + 1) = (Popped + 1) + i
      BY <1>4, <1>5, <2>2
    <3> QED
      BY Zenon, <3>1, <3>2
  <2> QED
    BY Zenon, <1>1, <1>2, <1>5, <2>1, <2>2 DEF OrderInv
<1>12. TakenInv' /\ EachTaskOnce'
  <2>1. ASSUME NEW i \in DOMAIN queued, i <= Popped + 1
        PROVE  queued[i] \in finished \/ \E v \in Workers : task'[v] = queued[i]
    <3>1. CASE i <= Popped
      <4>1. CASE queued[i] \in finished
        BY Zenon, <4>1
      <4>2. ASSUME NEW v \in Workers, task[v] = queued[i]
            PROVE  task'[v] = queued[i]
        <5>1. queued[i] # 0
          <6>1. queued[i] \in Task
            BY Zenon, <1>1, IndexOf
          <6> QED
            BY <6>1 DEF Task
        <5>2. v # w
          BY Zenon, <1>8, <4>2, <5>1
        <5> QED
          BY Zenon, <1>7, <4>2, <5>2
      <4> QED
        BY Zenon, <1>1, <2>1, <3>1, <4>1, <4>2 DEF TakenInv
    <3>2. CASE ~(i <= Popped)
      <4>1. i = Popped + 1
        BY <1>4, <1>5, <2>1, <3>2
      <4> QED
        BY Zenon, <1>6, <1>7, <4>1
    <3> QED
      BY Zenon, <3>1, <3>2
  <2>2. ASSUME NEW i \in DOMAIN queued, i > Popped + 1
        PROVE  queued[i] \notin finished /\ \A v \in Workers : task'[v] # queued[i]
    <3>1. i > Popped /\ Popped + 1 < i
      BY <1>4, <1>5, <2>2
    <3>2. queued[i] \notin finished /\ \A v \in Workers : task[v] # queued[i]
      BY Zenon, <1>1, <2>2, <3>1 DEF TakenInv
    <3>3. t < queued[i]
      BY Zenon, <1>1, <1>5, <1>6, <2>2, <3>1 DEF OrderInv
    <3>4. t # queued[i]
      BY <1>6, <3>3
    <3> QED
      BY Zenon, <1>7, <3>2, <3>4
  <2>3. \A v \in Workers : task'[v] <= tasks /\ task'[v] \notin finished
    <3> TAKE v \in Workers
    <3>1. CASE v = w
      BY Zenon, <1>7, <1>9, <3>1
    <3>2. CASE v # w
      BY Zenon, <1>1, <1>7, <3>2 DEF EachTaskOnce
    <3> QED
      BY Zenon, <3>1, <3>2
  <2>4. ASSUME NEW u \in Workers, NEW v \in Workers, task'[u] = task'[v], u # v
        PROVE  task'[u] = 0
    <3>1. u # w /\ v # w
      BY Zenon, <1>7, <1>9, <2>4
    <3> QED
      BY Zenon, <1>1, <1>7, <2>4, <3>1 DEF EachTaskOnce
  <2> QED
    <3>a. queued' = queued /\ finished' = finished /\ Popped' = Popped + 1
      BY Zenon, <1>2, <1>5
    <3>1. TakenInv'
      BY Zenon, <2>1, <2>2, <3>a DEF TakenInv
    <3>2. \A x \in finished : x <= tasks
      BY Zenon, <1>1 DEF EachTaskOnce
    <3>3. EachTaskOnce'
      BY Zenon, <1>2, <2>3, <2>4, <3>2 DEF EachTaskOnce
    <3> QED
      BY Zenon, <3>1, <3>3
<1>13. WorkerInv'
  <2>1. \A v \in Workers : worker'[v] = "none" <=> v \notin threads
    BY Zenon, <1>1, <1>2, <1>7 DEF WorkerInv
  <2>2. \A v \in Workers : worker'[v] = "run" <=> task'[v] # 0
    BY Zenon, <1>1, <1>6, <1>7 DEF WorkerInv
  <2>3. \A v \in waiting : v \in Workers /\ v # w
    BY Zenon, <1>1, <1>2 DEF TypeOK
  <2>4. \A v \in waiting : worker'[v] = "take"
    BY Zenon, <1>1, <1>7, <2>3 DEF WorkerInv
  <2>5. owner # "stopped"
    BY Zenon, <1>1, <1>2 DEF WorkerInv
  <2> QED
    BY Zenon, <1>2, <2>1, <2>2, <2>4, <2>5 DEF WorkerInv
<1>14. NoIdleWorker'
  <2>1. Ready' = Ready \ {w} /\ w \in Ready
    BY <1>2, <1>7 DEF Ready
  <2>2. Cardinality(Ready') = Cardinality(Ready) - 1
    BY Zenon, <2>1, ReadyFinite, FS_RemoveElement
  <2>3. waiting # {} => Cardinality(Ready) >= Len(queue)
    BY Zenon, <1>1 DEF NoIdleWorker, Ready
  <2>4. waiting # {} => Cardinality(Ready') >= Len(queue')
    BY <1>3, <1>4, <2>2, <2>3, ReadyFinite
  <2> QED
    BY Zenon, <1>2, <2>4 DEF NoIdleWorker, Ready
<1>15. LatchInv'
  BY Zenon, <1>1, <1>2 DEF LatchInv
<1> QED
  BY Zenon, <1>10, <1>11, <1>12, <1>13, <1>14, <1>15 DEF IInv

\* The return of a task, and the latch that it may count down.
LEMMA TaskReturnsPreserves ==
  ASSUME IInv, NEW w \in Workers, TaskReturns(w)
  PROVE  IInv'
<1> DEFINE t == task[w]
<1>1. /\ TypeOK /\ OrderInv /\ TakenInv /\ EachTaskOnce /\ WorkerInv /\ NoIdleWorker /\ LatchInv
      /\ queue \in Seq(Task) /\ queued \in Seq(Task)
  BY Zenon DEF IInv, TypeOK
<1>2. /\ worker[w] = "run" /\ worker' = [worker EXCEPT ![w] = "test"]
      /\ task' = [task EXCEPT ![w] = 0] /\ finished' = finished \cup {t}
      /\ UNCHANGED <<running, threads, queue, waiting, owner, last, tasks, queued,
                     latchTask>>
  BY Zenon DEF TaskReturns, poolVars
<1>3. t # 0 /\ t \in Task /\ t <= tasks /\ t \notin finished
  BY Zenon, <1>1, <1>2 DEF WorkerInv, TypeOK, EachTaskOnce
<1>4. /\ task'[w] = 0 /\ worker'[w] = "test"
      /\ \A v \in Workers : v # w => task'[v] = task[v] /\ worker'[v] = worker[v]
  BY Zenon, <1>1, <1>2 DEF TypeOK
<1>5. \A v \in Workers : task[v] = t => v = w
  BY Zenon, <1>1, <1>3 DEF EachTaskOnce
<1> HIDE DEF t
<1>6. /\ t = latchTask => count = 1 /\ count' = 0 /\ blocked' = {}
      /\ t # latchTask => UNCHANGED <<count, blocked>>
  <2>1. t = latchTask => count # 0
    BY Zenon, <1>1, <1>3 DEF LatchInv
  <2>2. count \in {0, 1}
    BY Zenon, <1>1 DEF TypeOK
  <2>3. t = latchTask => CountDown
    BY Zenon DEF TaskReturns, t
  <2>4. t # latchTask => UNCHANGED <<count, blocked>>
    BY Zenon DEF TaskReturns, latchVars, t
  <2> QED
    BY <2>1, <2>2, <2>3, <2>4 DEF CountDown
<1>7. TypeOK'
  <2>1. /\ worker' \in [Workers -> {"none", "test", "take", "run", "exit"}]
        /\ task' \in [Workers -> Task \cup {0}]
    BY <1>1, <1>2 DEF TypeOK
  <2>2. finished' \subseteq Task
    BY Zenon, <1>1, <1>2, <1>3 DEF TypeOK
  <2>3. count' \in {0, 1} /\ blocked' \subseteq {"owner"}
    BY Zenon, <1>1, <1>6 DEF TypeOK
  <2> QED
    BY Zenon, <1>1, <1>2, <2>1, <2>2, <2>3 DEF TypeOK
<1>8. Popped' = Popped
  BY Zenon, <1>2 DEF Popped
<1>9. OrderInv'
  <2>1. \A x \in 1 .. tasks : x \in finished' \/ \E i \in DOMAIN queued : queued[i] = x
    BY Zenon, <1>1, <1>2 DEF OrderInv
  <2> QED
    BY Zenon, <1>1, <1>2, <1>8, <2>1 DEF OrderInv
<1>10. TakenInv' /\ EachTaskOnce'
  <2>1. ASSUME NEW i \in DOMAIN queued, i <= Popped
        PROVE  queued[i] \in finished' \/ \E v \in Workers : task'[v] = queued[i]
    <3>1. CASE queued[i] \in finished
      BY Zenon, <1>2, <3>1
    <3>2. ASSUME NEW v \in Workers, task[v] = queued[i]
          PROVE  queued[i] \in finished' \/ \E u \in Workers : task'[u] = queued[i]
      <4>1. CASE v = w
        BY Zenon, <1>2, <3>2, <4>1 DEF t
      <4>2. CASE v # w
        BY Zenon, <1>4, <3>2, <4>2
      <4> QED
        BY Zenon, <4>1, <4>2
    <3> QED
      BY Zenon, <1>1, <2>1, <3>1, <3>2 DEF TakenInv
  <2>2. ASSUME NEW i \in DOMAIN queued, i > Popped
        PROVE  queued[i] \notin finished' /\ \A v \in Workers : task'[v] # queued[i]
    <3>1. queued[i] \notin finished /\ \A v \in Workers : task[v] # queued[i]
      BY Zenon, <1>1, <2>2 DEF TakenInv
    <3>2. queued[i] # t
      BY Zenon, <3>1 DEF t
    <3>3. queued[i] # 0
      <4>1. queued[i] \in Task
        BY Zenon, <1>1, IndexOf
      <4> QED
        BY <4>1 DEF Task
    <3> QED
      BY Zenon, <1>2, <1>4, <3>1, <3>2, <3>3
  <2>3. \A x \in finished' : x <= tasks
    BY Zenon, <1>1, <1>2, <1>3 DEF EachTaskOnce
  <2>4. \A v \in Workers : task'[v] <= tasks /\ task'[v] \notin finished'
    <3>1. 0 <= tasks /\ \A x \in finished' : x # 0
      BY <1>1, <1>2, <1>3 DEF TypeOK, Task
    <3> TAKE v \in Workers
    <3>2. CASE v = w
      BY Zenon, <1>4, <3>1, <3>2
    <3>3. CASE v # w
      <4>1. task'[v] = task[v] /\ task[v] # t
        BY Zenon, <1>4, <1>5, <3>3
      <4>2. task[v] <= tasks /\ task[v] \notin finished
        BY Zenon, <1>1 DEF EachTaskOnce
      <4>3. finished' = finished \cup {t}
        BY Zenon, <1>2
      <4> QED
        BY Zenon, <4>1, <4>2, <4>3
    <3> QED
      BY Zenon, <3>2, <3>3
  <2>5. \A u, v \in Workers : task'[u] = task'[v] /\ u # v => task'[u] = 0
    <3> TAKE u, v \in Workers
    <3>1. CASE u = w \/ v = w
      BY Zenon, <1>4, <3>1
    <3>2. CASE u # w /\ v # w
      BY Zenon, <1>1, <1>4, <3>2 DEF EachTaskOnce
    <3> QED
      BY Zenon, <3>1, <3>2
  <2> QED
    <3>a. queued' = queued /\ tasks' = tasks
      BY Zenon, <1>2
    <3>1. TakenInv'
      BY Zenon, <1>8, <2>1, <2>2, <3>a DEF TakenInv
    <3>2. EachTaskOnce'
      BY Zenon, <1>2, <2>3, <2>4, <2>5 DEF EachTaskOnce
    <3> QED
      BY Zenon, <3>1, <3>2
<1>11. WorkerInv'
  <2>1. \A v \in Workers : worker'[v] = "none" <=> v \notin threads
    BY Zenon, <1>1, <1>2, <1>4 DEF WorkerInv
  <2>2. \A v \in Workers : worker'[v] = "run" <=> task'[v] # 0
    BY Zenon, <1>1, <1>4 DEF WorkerInv
  <2>3. \A v \in waiting : v \in Workers /\ v # w
    BY Zenon, <1>1, <1>2 DEF TypeOK, WorkerInv
  <2>4. \A v \in waiting : worker'[v] = "take"
    BY Zenon, <1>1, <1>4, <2>3 DEF WorkerInv
  <2>5. owner # "stopped"
    BY Zenon, <1>1, <1>2 DEF WorkerInv
  <2> QED
    BY Zenon, <1>2, <2>1, <2>2, <2>4, <2>5 DEF WorkerInv
<1>12. NoIdleWorker'
  <2>1. Ready \subseteq Ready'
    BY Zenon, <1>2, <1>4 DEF Ready
  <2>2. Len(queue) \in Nat
    BY Zenon, <1>1, IndexOf
  <2> QED
    BY Zenon, <1>1, <1>2, <2>1, <2>2, StillReady
<1>13. LatchInv'
  BY Zenon, <1>1, <1>2, <1>3, <1>6 DEF LatchInv
<1> QED
  BY Zenon, <1>7, <1>9, <1>10, <1>11, <1>12, <1>13 DEF IInv

\* The other steps of a worker, which do not touch the tasks.
LEMMA WorkerPreserves ==
  ASSUME IInv, NEW w \in Workers,
         TestRunning(w) \/ TakeWaits(w) \/ TakeNothing(w) \/ SpuriousTake(w)
  PROVE  IInv'
<1>1. /\ TypeOK /\ OrderInv /\ TakenInv /\ EachTaskOnce /\ WorkerInv /\ NoIdleWorker /\ LatchInv
      /\ queue \in Seq(Task)
  BY Zenon DEF IInv, TypeOK
<1>2. Len(queue) \in Nat
  BY Zenon, <1>1, IndexOf
<1>3. UNCHANGED <<running, threads, queue, task, owner, last, tasks, queued, finished,
                  latchTask, count, blocked>>
  BY Zenon DEF TestRunning, TakeWaits, TakeNothing, SpuriousTake, poolVars, history,
               latchVars
<1>4. OrderInv' /\ TakenInv' /\ EachTaskOnce' /\ LatchInv'
  BY Zenon, <1>1, <1>3, SameTasks DEF LatchInv
<1>5. CASE TestRunning(w) \/ TakeNothing(w)
  <2>1. /\ worker[w] \in {"test", "take"} /\ waiting' = waiting /\ w \notin waiting
        /\ worker' = [worker EXCEPT ![w] = worker'[w]]
        /\ worker'[w] \in {"test", "take", "exit"}
        /\ worker[w] = "take" => queue = <<>>
    <3>1. CASE TestRunning(w)
      BY <1>1, <3>1 DEF TestRunning, TypeOK, WorkerInv, poolVars
    <3>2. CASE TakeNothing(w)
      BY <1>1, <3>2 DEF TakeNothing, TypeOK, poolVars
    <3> QED
      BY Zenon, <1>5, <3>1, <3>2
  <2>2. \A v \in Workers : v # w => worker'[v] = worker[v]
    BY Zenon, <1>1, <2>1 DEF TypeOK
  <2>3. TypeOK'
    <3>1. worker' \in [Workers -> {"none", "test", "take", "run", "exit"}]
      BY <1>1, <2>1 DEF TypeOK
    <3> QED
      BY Zenon, <1>1, <1>3, <2>1, <3>1 DEF TypeOK
  <2>4. WorkerInv'
    <3>1. \A v \in Workers : worker'[v] = "none" <=> v \notin threads
      BY Zenon, <1>1, <2>1, <2>2 DEF WorkerInv
    <3>2. \A v \in Workers : worker'[v] = "run" <=> task[v] # 0
      BY Zenon, <1>1, <2>1, <2>2 DEF WorkerInv
    <3>3. \A v \in waiting : v \in Workers /\ v # w
      BY Zenon, <1>1, <2>1 DEF TypeOK
    <3>4. \A v \in waiting : worker'[v] = "take"
      BY Zenon, <1>1, <2>2, <3>3 DEF WorkerInv
    <3>5. owner # "stopped"
      BY Zenon, <1>1, <2>1 DEF WorkerInv
    <3> QED
      BY Zenon, <1>3, <2>1, <3>1, <3>2, <3>4, <3>5 DEF WorkerInv
  <2>5. NoIdleWorker'
    <3>1. CASE queue = <<>>
      <4>1. Len(queue') = 0
        BY <1>3, <3>1
      <4>2. IsFiniteSet(Ready')
        <5>1. Ready' \in SUBSET Workers /\ IsFiniteSet(Workers)
          BY PoolAssumption DEF Ready
        <5> QED
          BY Zenon, <5>1, FS_Subset
      <4>3. Cardinality(Ready') \in Nat
        BY Zenon, <4>2, FS_CardinalityType
      <4>4. Cardinality(Ready') >= Len(queue')
        BY <4>1, <4>3
      <4> QED
        BY Zenon, <4>4 DEF NoIdleWorker, Ready
    <3>2. CASE worker[w] = "test"
      <4>1. Ready \subseteq Ready'
        BY Zenon, <2>1, <2>2, <3>2 DEF Ready
      <4> QED
        BY Zenon, <1>1, <1>2, <1>3, <2>1, <4>1, StillReady
    <3> QED
      BY Zenon, <2>1, <3>1, <3>2
  <2> QED
    BY Zenon, <1>4, <2>3, <2>4, <2>5 DEF IInv
<1>6. CASE TakeWaits(w)
  <2>1. /\ worker[w] = "take" /\ queue = <<>> /\ waiting' = waiting \cup {w}
        /\ worker' = worker
    BY Zenon, <1>6 DEF TakeWaits
  <2>2. w \in threads
    BY Zenon, <1>1, <2>1 DEF WorkerInv
  <2>3. TypeOK'
    BY Zenon, <1>1, <1>3, <2>1, <2>2 DEF TypeOK
  <2>4. WorkerInv'
    BY Zenon, <1>1, <1>3, <2>1 DEF WorkerInv
  <2>5. NoIdleWorker'
    <3>1. Len(queue') = 0
      BY <1>3, <2>1
    <3>2. IsFiniteSet(Ready')
      <4>1. Ready' \in SUBSET Workers /\ IsFiniteSet(Workers)
        BY PoolAssumption DEF Ready
      <4> QED
        BY Zenon, <4>1, FS_Subset
    <3>3. Cardinality(Ready') \in Nat
      BY Zenon, <3>2, FS_CardinalityType
    <3>4. Cardinality(Ready') >= Len(queue')
      BY <3>1, <3>3
    <3> QED
      BY Zenon, <3>4 DEF NoIdleWorker, Ready
  <2> QED
    BY Zenon, <1>4, <2>3, <2>4, <2>5 DEF IInv
<1>7. CASE SpuriousTake(w)
  <2>1. w \in waiting /\ waiting' = waiting \ {w} /\ worker' = worker
    BY Zenon, <1>7 DEF SpuriousTake
  <2>2. TypeOK'
    BY Zenon, <1>1, <1>3, <2>1 DEF TypeOK
  <2>3. WorkerInv'
    BY Zenon, <1>1, <1>3, <2>1 DEF WorkerInv
  <2>4. NoIdleWorker'
    <3>1. Ready \subseteq Ready' /\ waiting' \subseteq waiting
      BY Zenon, <2>1 DEF Ready
    <3> QED
      BY Zenon, <1>1, <1>2, <1>3, <3>1, StillReady
  <2> QED
    BY Zenon, <1>4, <2>2, <2>3, <2>4 DEF IInv
<1> QED
  BY Zenon, <1>5, <1>6, <1>7

\* Every step preserves the invariant.
LEMMA NextIInv == IInv /\ [Next]_vars => IInv'
<1> SUFFICES ASSUME IInv, [Next]_vars PROVE IInv'
  OBVIOUS
<1>1. CASE \/ \E n \in 0 .. Cardinality(Workers) : Start(n)
           \/ OwnerStep \/ OwnerSpuriousWakeup \/ Stop
  BY Zenon, <1>1, OwnerPreserves
<1>2. CASE OwnerRuns \/ \E w \in Workers : TaskRuns(w)
  <2>1. Run /\ UNCHANGED latchVars /\ owner' = owner /\ latchTask' = latchTask
    BY Zenon, <1>2 DEF OwnerRuns, TaskRuns
  <2>2. latchTask' \in Task \cup {0}
    BY Zenon, <2>1 DEF IInv, TypeOK
  <2>3. /\ TypeOK' /\ OrderInv' /\ TakenInv' /\ EachTaskOnce' /\ WorkerInv' /\ NoIdleWorker'
        /\ finished \subseteq finished'
        /\ \A i \in DOMAIN queued : i \in DOMAIN queued' /\ queued'[i] = queued[i]
    BY Zenon, <2>1, <2>2, RunPreserves
  <2>4. LatchInv'
    BY Zenon, <2>1, <2>3 DEF IInv, LatchInv, latchVars
  <2> QED
    BY Zenon, <2>3, <2>4 DEF IInv
<1>3. CASE OwnerRunsLatch
  <2>1. /\ Run /\ UNCHANGED latchVars /\ owner = "up" /\ owner' = "latch"
        /\ threads # {} /\ latchTask = 0 /\ latchTask' = tasks + 1
    BY Zenon, <1>3 DEF OwnerRunsLatch
  <2>2. tasks + 1 \in Task /\ tasks + 1 # 0
    BY <2>1, PoolAssumption DEF IInv, TypeOK, Run, Task
  <2>3. /\ TypeOK' /\ OrderInv' /\ TakenInv' /\ EachTaskOnce' /\ WorkerInv' /\ NoIdleWorker'
        /\ \E i \in DOMAIN queued' : queued'[i] = tasks + 1
    BY Zenon, <2>1, <2>2, RunPreserves
  <2>4. count' # 0
    BY Zenon, <2>1 DEF IInv, LatchInv, latchVars
  <2>5. LatchInv'
    BY Zenon, <2>1, <2>3, <2>4 DEF LatchInv
  <2> QED
    BY Zenon, <2>3, <2>5 DEF IInv
<1>4. ASSUME NEW w \in Workers, WorkerStep(w) \/ SpuriousTake(w)
      PROVE  IInv'
  BY Zenon, <1>4, WorkerPreserves, TakeTaskPreserves, TaskReturnsPreserves DEF WorkerStep
<1>5. CASE UNCHANGED vars
  <2>1. UNCHANGED <<running, threads, queue, waiting, worker, task, owner, last, tasks,
                    queued, finished, latchTask, count, blocked>>
    BY Zenon, <1>5 DEF vars, poolVars, history, latchVars
  <2>2. TypeOK => TypeOK'
    BY Zenon, <2>1 DEF TypeOK
  <2>3. (WorkerInv => WorkerInv') /\ (NoIdleWorker => NoIdleWorker')
    BY Zenon, <2>1 DEF WorkerInv, NoIdleWorker
  <2>4. LatchInv => LatchInv'
    BY Zenon, <2>1 DEF LatchInv
  <2> QED
    BY Zenon, <2>1, <2>2, <2>3, <2>4, SameTasks DEF IInv
<1> QED
  BY Zenon, <1>1, <1>2, <1>3, <1>4, <1>5 DEF Next

\* The end of a sequence, element by element.
LEMMA EndOf ==
  ASSUME NEW S, NEW q \in Seq(S), NEW e \in Seq(S), Len(e) <= Len(q),
         \A i \in DOMAIN e : e[i] = q[(Len(q) - Len(e)) + i]
  PROVE  SubSeq(q, Len(q) - Len(e) + 1, Len(q)) = e
<1> DEFINE r == SubSeq(q, Len(q) - Len(e) + 1, Len(q))
<1>1. r \in Seq(S) /\ Len(r) = Len(e)
  OBVIOUS
<1>2. \A i \in 1 .. Len(e) : r[i] = e[i]
  OBVIOUS
<1> HIDE DEF r
<1>3. r = e
  BY <1>1, <1>2
<1> QED
  BY <1>3 DEF r

\* The beginning of a sequence, element by element.
LEMMA StartOf ==
  ASSUME NEW S, NEW q \in Seq(S), NEW n \in 0 .. Len(q)
  PROVE  /\ DOMAIN SubSeq(q, 1, n) = 1 .. n
         /\ \A i \in 1 .. n : SubSeq(q, 1, n)[i] = q[i]
  OBVIOUS

\* The inductive invariant implies the one that the run checks.
LEMMA IInvTasksInv == IInv => TasksInv
<1> SUFFICES ASSUME IInv PROVE TasksInv
  OBVIOUS
<1>1. /\ TypeOK /\ OrderInv /\ TakenInv /\ EachTaskOnce /\ WorkerInv /\ NoIdleWorker /\ LatchInv
      /\ queue \in Seq(Task) /\ queued \in Seq(Task)
  BY Zenon DEF IInv, TypeOK
<1>2. /\ Len(queue) \in Nat /\ Len(queued) \in Nat /\ Len(queue) <= Len(queued)
      /\ DOMAIN queued = 1 .. Len(queued) /\ DOMAIN queue = 1 .. Len(queue)
  BY Zenon, <1>1, IndexOf DEF OrderInv
<1>3. Popped \in 0 .. Len(queued)
  BY <1>2 DEF Popped
<1>4. PoolInv
  <2>1. SubSeq(queued, Len(queued) - Len(queue) + 1, Len(queued)) = queue
    BY Zenon, <1>1, <1>2, EndOf DEF OrderInv, Popped
  <2>2. DOMAIN Taken = 1 .. Popped /\ \A i \in 1 .. Popped : Taken[i] = queued[i]
    BY Zenon, <1>1, <1>3, StartOf DEF Taken, Popped
  <2>3. \A i \in 1 .. Popped : i \in DOMAIN queued /\ i <= Popped
    BY <1>2, <1>3
  <2>4. \A i \in DOMAIN queued : queued[i] # 0
    <3>1. \A i \in DOMAIN queued : queued[i] \in Task
      BY Zenon, <1>1, IndexOf
    <3> QED
      BY <3>1 DEF Task
  <2>5. {Taken[i] : i \in DOMAIN Taken} \subseteq RunningTasks \cup finished
    <3> SUFFICES ASSUME NEW i \in 1 .. Popped
                 PROVE  queued[i] \in RunningTasks \cup finished
      BY Zenon, <2>2
    <3> QED
      BY Zenon, <1>1, <2>3, <2>4 DEF TakenInv, RunningTasks
  <2>6. \A i \in DOMAIN queue : queue[i] \notin RunningTasks \cup finished
    <3> TAKE i \in DOMAIN queue
    <3>1. Popped + i \in DOMAIN queued /\ Popped + i > Popped
      BY <1>2, <1>3 DEF Popped
    <3>2. queue[i] = queued[Popped + i]
      BY Zenon, <1>1 DEF OrderInv
    <3>3. /\ queued[Popped + i] \notin finished
          /\ \A w \in Workers : task[w] # queued[Popped + i]
      BY Zenon, <1>1, <3>1 DEF TakenInv
    <3> QED
      BY Zenon, <3>2, <3>3 DEF RunningTasks
  <2> QED
    BY Zenon, <1>1, <2>1, <2>5, <2>6 DEF PoolInv, EachTaskOnce, WorkerInv
<1>5. LatchIsABarrier
  <2> SUFFICES ASSUME owner = "stopped", latchTask # 0, NEW t \in 1 .. latchTask
               PROVE  t \in finished
    BY Zenon DEF LatchIsABarrier
  <2>1. latchTask \in finished
    BY Zenon, <1>1 DEF LatchInv
  <2>2. PICK k \in DOMAIN queued : queued[k] = latchTask
    BY Zenon, <1>1 DEF LatchInv
  <2>3. ~(k > Popped)
    BY Zenon, <1>1, <2>1, <2>2 DEF TakenInv
  <2>4. \A w \in Workers : task[w] = 0
    BY Zenon, <1>1 DEF WorkerInv
  <2>5. t \in 1 .. tasks /\ t # 0 /\ t <= latchTask /\ t \in Nat
    <3>1. latchTask \in Nat /\ tasks \in Nat /\ latchTask <= tasks
      BY <1>1, <2>1, PoolAssumption DEF TypeOK, Task, EachTaskOnce
    <3> QED
      BY <3>1
  <2>6. ASSUME NEW i \in DOMAIN queued, queued[i] = t
        PROVE  t \in finished
    <3>1. ~(k < i)
      <4>1. k < i => queued[k] < queued[i]
        BY Zenon, <1>1 DEF OrderInv
      <4>2. latchTask \in Nat
        BY <1>1, PoolAssumption DEF TypeOK, Task
      <4> QED
        BY <2>2, <2>5, <2>6, <4>1, <4>2
    <3>2. i <= Popped
      BY <1>2, <1>3, <2>3, <3>1
    <3> QED
      BY Zenon, <1>1, <2>4, <2>5, <2>6, <3>2 DEF TakenInv
  <2> QED
    BY Zenon, <1>1, <2>5, <2>6 DEF OrderInv
<1> QED
  BY Zenon, <1>1, <1>4, <1>5 DEF TasksInv

\* For any number of workers and tasks, tasks are taken from queue_ in the order
\* of run() and run once, no worker sleeps in take() while tasks queue up, and
\* the countdown latch of a task makes stop() a barrier.
THEOREM ThreadPoolCorrect == Spec => []TasksInv
<1> QED
  BY InitIInv, NextIInv, IInvTasksInv, PTL DEF Spec
=============================================================================
