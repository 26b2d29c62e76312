-------------------------- MODULE TimerQueueProofs --------------------------
(***************************************************************************)
(* TimerInv is an inductive invariant of TimerQueue, for any number of     *)
(* threads, addresses, timers and times.                                   *)
(***************************************************************************)
EXTENDS TimerQueue, TLAPS

\* The queue is empty and nothing is queued.
LEMMA InitTimerInv == Init => TimerInv
<1> SUFFICES ASSUME Init PROVE TimerInv
  OBVIOUS
<1>1. functors \in Seq(Functor)
      /\ heap \in [Addrs -> [seq : Nat, expiration : Nat, interval : Nat]]
      /\ adding \in [Threads -> (Addrs \X Nat) \cup {NoId}]
  BY DEF Init, Free
<1>2. TypeOK
  BY Zenon, <1>1 DEF Init, TypeOK, Never
<1> QED
  BY <1>2 DEF Init, TimerInv, QueuesAgree, TimersOK, ActiveOK, ExpiredOK, AddsOK,
         SeqOK, CancelNoted, CancelStops, ArmedInTime, ArmedInBatch, Free

\* What a queued functor refers to is an address.
LEMMA FunctorIds ==
  ASSUME TypeOK, NEW i \in DOMAIN functors
  PROVE  functors[i].id \in Addrs \X Nat /\ functors[i].id[1] \in Addrs
<1>1. functors[i] \in Functor
  BY DEF TypeOK
<1>2. functors[i].id \in Addrs \X Nat
  BY <1>1 DEF Functor
<1> QED
  BY <1>2

\* A step that leaves the Timers, the two sets and the batch alone.
LEMMA SameQueue ==
  ASSUME UNCHANGED <<heap, numCreated, timers, activeTimers, expired, cancelled>>
  PROVE  /\ TimersOK => TimersOK'
         /\ ActiveOK => ActiveOK'
         /\ ExpiredOK => ExpiredOK'
         /\ SeqOK => SeqOK'
         /\ CancelStops => CancelStops'
<1>1. TimersOK => TimersOK'
  BY Zenon DEF TimersOK, Allocated, IdAt
<1>2. ActiveOK => ActiveOK'
  BY Zenon DEF ActiveOK, Allocated, IdAt
<1>3. ExpiredOK => ExpiredOK'
  BY Zenon DEF ExpiredOK, Allocated, IdAt
<1>4. SeqOK => SeqOK'
  BY Zenon DEF SeqOK
<1>5. CancelStops => CancelStops'
  BY Zenon DEF CancelStops
<1> QED
  BY Zenon, <1>1, <1>2, <1>3, <1>4, <1>5

\* A step that leaves the queue of functors alone too.
LEMMA SameFunctors ==
  ASSUME UNCHANGED <<heap, activeTimers, expired, functors, cancelled, cancelingTimers>>
  PROVE  /\ AddsOK => AddsOK'
         /\ CancelNoted => CancelNoted'
<1>1. AddsOK => AddsOK'
  BY Zenon DEF AddsOK, Allocated, IdAt
<1>2. CancelNoted => CancelNoted'
  BY Zenon DEF CancelNoted, IdAt
<1> QED
  BY Zenon, <1>1, <1>2

\* A step that neither sets the timerfd nor changes what it is set for.
LEMMA SameTimerfd ==
  ASSUME UNCHANGED <<pc, timers, timerfd, clock>>
  PROVE  /\ ArmedInTime => ArmedInTime'
         /\ ArmedInBatch => ArmedInBatch'
<1>1. ArmedInTime => ArmedInTime'
  BY Zenon DEF ArmedInTime
<1>2. ArmedInBatch => ArmedInBatch'
  BY Zenon DEF ArmedInBatch
<1> QED
  BY Zenon, <1>1, <1>2

\* Nothing of what addTimer() queued is touched by a step that only takes
\* functors from the front, appends cancelInLoop()s, frees other Timers or
\* fills activeTimers_ with other timers.
LEMMA FewerAdds ==
  ASSUME AddsOK, NEW p,
         \A i \in DOMAIN functors' : functors'[i].op = "add" =>
           /\ p[i] \in DOMAIN functors
           /\ functors'[i] = functors[p[i]]
           /\ heap'[functors'[i].id[1]] = heap[functors'[i].id[1]]
           /\ functors'[i].id \in activeTimers' => functors'[i].id \in activeTimers,
         \A i, j \in DOMAIN functors' : p[i] = p[j] => i = j,
         expired' \subseteq expired
  PROVE  AddsOK'
<1> SUFFICES ASSUME NEW i \in DOMAIN functors', functors'[i].op = "add"
             PROVE  /\ heap'[functors'[i].id[1]].seq # 0
                    /\ <<functors'[i].id[1], heap'[functors'[i].id[1]].seq>>
                         = functors'[i].id
                    /\ functors'[i].id \notin activeTimers'
                    /\ \A e \in expired' : e[2] # functors'[i].id[1]
                    /\ \A j \in DOMAIN functors' :
                         functors'[j].op = "add" /\ functors'[j].id = functors'[i].id
                           => i = j
  BY Zenon DEF AddsOK, Allocated, IdAt
<1>1. /\ p[i] \in DOMAIN functors /\ functors'[i] = functors[p[i]]
      /\ heap'[functors'[i].id[1]] = heap[functors'[i].id[1]]
      /\ functors'[i].id \in activeTimers' => functors'[i].id \in activeTimers
  BY Zenon
<1>2. /\ heap[functors'[i].id[1]].seq # 0
      /\ <<functors'[i].id[1], heap[functors'[i].id[1]].seq>> = functors'[i].id
      /\ functors'[i].id \notin activeTimers
      /\ \A e \in expired : e[2] # functors'[i].id[1]
      /\ \A j \in DOMAIN functors :
           functors[j].op = "add" /\ functors[j].id = functors'[i].id => p[i] = j
  <2>1. p[i] \in DOMAIN functors /\ functors[p[i]].op = "add"
    BY Zenon, <1>1
  <2>2. /\ heap[functors[p[i]].id[1]].seq # 0
        /\ <<functors[p[i]].id[1], heap[functors[p[i]].id[1]].seq>> = functors[p[i]].id
        /\ functors[p[i]].id \notin activeTimers
        /\ \A e \in expired : e[2] # functors[p[i]].id[1]
        /\ \A j \in DOMAIN functors :
             functors[j].op = "add" /\ functors[j].id = functors[p[i]].id => p[i] = j
    BY Zenon, <2>1 DEF AddsOK, Allocated, IdAt
  <2> QED
    BY Zenon, <1>1, <2>2
<1>3. ASSUME NEW j \in DOMAIN functors', functors'[j].op = "add",
             functors'[j].id = functors'[i].id
      PROVE  i = j
  <2>1. p[j] \in DOMAIN functors /\ functors'[j] = functors[p[j]]
    BY Zenon, <1>3
  <2>2. functors[p[j]].op = "add" /\ functors[p[j]].id = functors'[i].id
    BY Zenon, <1>3, <2>1
  <2>3. p[i] = p[j]
    BY Zenon, <1>2, <2>1, <2>2
  <2> QED
    BY Zenon, <2>3
<1> QED
  BY Zenon, <1>1, <1>2, <1>3

\* addTimerInLoop() keeps the timerfd set for the earliest timer.
LEMMA AddInLoopArmed ==
  ASSUME TypeOK, ArmedInTime, ArmedInBatch, NEW a \in Addrs,
         NEW timer \in [seq : Nat, expiration : Nat, interval : Nat],
         AddTimerInLoop(a, timer), UNCHANGED <<pc, clock>>
  PROVE  (ArmedInTime /\ ArmedInBatch)' /\ timerfd' \in Nat \cup {Never}
<1> USE DEF ArmedInBatch, ArmedInTime, TypeOK, Never
<1>1. timer.expiration \in Nat
  OBVIOUS
<1>2. CASE EarliestChanged(timer.expiration)
  <2>1. timerfd' = TimerfdFor(timer.expiration)
    BY <1>2 DEF AddTimerInLoop
  <2>2. timerfd' \in Nat /\ (timerfd' <= timer.expiration \/ timerfd' = clock + 1)
        /\ (timer.expiration = 0 => timerfd' = clock + 1)
    BY <1>1, <2>1 DEF TimerfdFor
  <2>3. \A e \in timers : e[1] \in Nat /\ timer.expiration < e[1]
    BY <1>2 DEF EarliestChanged
  <2>4. ASSUME NEW e \in timers'
        PROVE  timer.expiration <= e[1] /\ e[1] \in Nat
    <3>1. e \in timers \/ e = <<timer.expiration, a>>
      BY DEF AddTimerInLoop
    <3> QED
      BY <1>1, <2>3, <3>1
  <2>5. timerfd' # Never /\ clock' = clock /\ clock \in Nat
    BY <2>2
  <2> HIDE DEF TypeOK
  <2>6. \A e \in timers' : timerfd' <= e[1] \/ timerfd' <= clock' + 1
    BY <1>1, <2>2, <2>4, <2>5
  <2>7. \A e \in timers' : e[1] = 0 => timerfd' <= clock' + 1
    BY <1>1, <2>2, <2>4, <2>5
  <2> QED
    BY Zenon, <2>2, <2>5, <2>6, <2>7
<1>3. CASE ~EarliestChanged(timer.expiration)
  <2>1. PICK f \in timers : f[1] \in Nat /\ f[1] <= timer.expiration
    BY <1>1, <1>3 DEF EarliestChanged
  <2>2. timerfd' = timerfd
    BY <1>3 DEF AddTimerInLoop
  <2>3. timers' = timers \cup {<<timer.expiration, a>>}
    BY DEF AddTimerInLoop
  <2>4. timerfd \in Nat \cup {Never} /\ clock \in Nat
    OBVIOUS
  <2>5. ArmedInTime'
    BY <1>1, <2>1, <2>2, <2>3, <2>4
  <2>6. ArmedInBatch'
    <3> SUFFICES ASSUME pc # "idle", NEW e \in timers', e[1] = 0
                 PROVE  timerfd # Never /\ timerfd <= clock + 1
      BY <2>2
    <3>1. e \in timers \/ f[1] = 0
      BY <1>1, <2>1, <2>3
    <3> QED
      BY <3>1, <2>1
  <2> QED
    BY <2>2, <2>4, <2>5, <2>6
<1> QED
  BY <1>2, <1>3

\* addTimer() in the loop thread preserves the invariant.
LEMMA AddTimerPreserves ==
  ASSUME TimerInv, NEW a \in Addrs, NEW when \in Whens,
         NEW interval \in Intervals, AddTimer(a, when, interval)
  PROVE  TimerInv'
<1> USE TimerAssumption DEF TimerInv, QueuesAgree
<1> DEFINE new == [seq |-> numCreated + 1, expiration |-> when,
                   interval |-> interval]
<1>1. /\ ~Allocated(a)
      /\ numCreated' = numCreated + 1
      /\ heap' = [heap EXCEPT ![a] = new]
      /\ heap'[a] = new
      /\ new \in [seq : Nat, expiration : Nat, interval : Nat]
      /\ timers' = timers \cup {<<when, a>>}
      /\ activeTimers' = activeTimers \cup {<<a, numCreated + 1>>}
      /\ AddTimerInLoop(a, new)
      /\ known' = known \cup {<<a, numCreated + 1>>}
      /\ UNCHANGED <<clock, cancelingTimers, functors, adding, cancelled>>
      /\ UNCHANGED <<pc, now, expired, toRun, callingExpiredTimers>>
  BY DEF AddTimer, NewTimer, AddTimerInLoop, TypeOK, batchVars
<1>2. (ArmedInTime /\ ArmedInBatch)' /\ timerfd' \in Nat \cup {Never}
  BY <1>1, AddInLoopArmed
<1>3. \A b \in Addrs : b # a => heap'[b] = heap[b]
  BY <1>1 DEF TypeOK
<1>a. when \in Nat /\ interval \in Nat /\ a \in Addrs /\ numCreated + 1 \in Nat
  BY DEF TypeOK
<1>b. heap' \in [Addrs -> [seq : Nat, expiration : Nat, interval : Nat]]
  BY <1>1 DEF TypeOK
<1>c. /\ timers' \in SUBSET (Nat \X Addrs)
      /\ activeTimers' \in SUBSET (Addrs \X Nat)
      /\ known' \in SUBSET (Addrs \X Nat)
  BY <1>1, <1>a DEF TypeOK
<1>4. TypeOK'
  BY Zenon, <1>1, <1>2, <1>a, <1>b, <1>c DEF TypeOK
<1>5. TimersOK'
  <2> SUFFICES ASSUME NEW e \in timers'
               PROVE  /\ Allocated(e[2])' /\ e[1] = heap'[e[2]].expiration
                      /\ IdAt(e[2])' \in activeTimers'
    BY DEF TimersOK
  <2>1. CASE e = <<when, a>>
    <3>1. e[1] = when /\ e[2] = a /\ heap'[a].seq = numCreated + 1
          /\ heap'[a].expiration = when
      BY <1>1, <2>1
    <3>2. numCreated + 1 # 0
      BY DEF TypeOK
    <3> QED
      BY <1>1, <3>1, <3>2 DEF Allocated, IdAt
  <2>2. CASE e \in timers
    <3>1. e[2] \in Addrs /\ e[2] # a
      BY <1>1, <2>2 DEF TimersOK, TypeOK
    <3> QED
      BY <1>1, <1>3, <2>2, <3>1 DEF TimersOK, Allocated, IdAt
  <2> QED
    BY <1>1, <2>1, <2>2
<1>6. ActiveOK' /\ CancelStops'
  <2> SUFFICES ASSUME NEW id \in activeTimers'
               PROVE  /\ id = IdAt(id[1])' /\ Allocated(id[1])'
                      /\ <<heap'[id[1]].expiration, id[1]>> \in timers'
                      /\ id \notin cancelled'
    BY Zenon DEF ActiveOK, CancelStops
  <2>1. CASE id = <<a, numCreated + 1>>
    BY <1>1, <1>a, <2>1 DEF Allocated, IdAt, SeqOK, TypeOK
  <2>2. CASE id \in activeTimers
    BY Zenon, <1>1, <1>3, <2>2 DEF ActiveOK, CancelStops, Allocated, IdAt, TypeOK
  <2> QED
    BY <1>1, <2>1, <2>2
<1>7. ExpiredOK'
  BY Zenon, <1>1, <1>3 DEF ExpiredOK, TypeOK, Allocated, IdAt
<1>8. AddsOK'
  <2>1. \A i \in DOMAIN functors : functors[i].op = "add" =>
          functors[i].id[1] \in Addrs /\ functors[i].id[1] # a
    BY <1>1, FunctorIds DEF AddsOK
  <2>2. \A i \in DOMAIN functors : functors[i].op = "add" =>
          functors[i].id # <<a, numCreated + 1>>
    BY <2>1
  <2> QED
    <3> DEFINE p == [i \in DOMAIN functors |-> i]
    <3>1. \A i \in DOMAIN functors' : p[i] = i
      BY Zenon, <1>1
    <3> HIDE DEF p
    <3>2. \A i \in DOMAIN functors' : functors'[i].op = "add" =>
            /\ p[i] \in DOMAIN functors
            /\ functors'[i] = functors[p[i]]
            /\ heap'[functors'[i].id[1]] = heap[functors'[i].id[1]]
            /\ functors'[i].id \in activeTimers' => functors'[i].id \in activeTimers
      BY <1>1, <1>3, <2>1, <2>2, <3>1
    <3>3. /\ \A i, j \in DOMAIN functors' : p[i] = p[j] => i = j
          /\ expired' \subseteq expired
      BY Zenon, <1>1, <3>1
    <3> QED
      BY Zenon, <3>2, <3>3, FewerAdds
<1>9. SeqOK' /\ CancelNoted'
  <2>1. SeqOK'
    <3>1. numCreated \in Nat /\ heap'[a].seq = numCreated + 1
      BY <1>1 DEF TypeOK
    <3>2. \A b \in Addrs : heap[b].seq \in Nat /\ heap[b].seq <= numCreated
      BY DEF SeqOK, TypeOK
    <3>3. \A d \in cancelled : d[2] \in Nat /\ d[2] <= numCreated
      BY DEF SeqOK, TypeOK
    <3>4. \A b \in Addrs : heap'[b].seq <= numCreated + 1
      BY <1>3, <3>1, <3>2
    <3>5. \A d \in cancelled : d[2] <= numCreated + 1
      BY <3>1, <3>3
    <3> QED
      BY Zenon, <1>1, <3>4, <3>5 DEF SeqOK
  <2>2. CancelNoted'
    <3>1. \A e \in expired : e[2] \in Addrs /\ e[2] # a
      BY Zenon, <1>1 DEF ExpiredOK, TypeOK
    <3>2. \A e \in expired : IdAt(e[2])' = IdAt(e[2])
      BY Zenon, <1>3, <3>1 DEF IdAt
    <3>3. \A e \in expired' : IdAt(e[2])' \in cancelled' => IdAt(e[2])' \in cancelingTimers'
      BY Zenon, <1>1, <3>2 DEF CancelNoted
    <3>4. \A i \in DOMAIN functors' : functors'[i].op = "add" =>
            functors'[i].id \notin cancelled'
      BY Zenon, <1>1 DEF CancelNoted
    <3> QED
      BY Zenon, <3>3, <3>4 DEF CancelNoted
  <2> QED
    BY Zenon, <2>1, <2>2
<1> QED
  BY <1>1, <1>2, <1>4, <1>5, <1>6, <1>7, <1>8, <1>9

\* The rest of the queue of functors.
LEMMA TailOf ==
  ASSUME NEW S, NEW q \in Seq(S), q # <<>>
  PROVE  /\ Tail(q) \in Seq(S)
         /\ Head(q) = q[1] /\ 1 \in DOMAIN q
         /\ \A i \in DOMAIN Tail(q) : i \in Nat /\ i > 0 /\ i + 1 \in DOMAIN q
                                      /\ Tail(q)[i] = q[i + 1]
  OBVIOUS

\* One more functor.
LEMMA AppendOf ==
  ASSUME NEW S, NEW q \in Seq(S), NEW x \in S
  PROVE  /\ Append(q, x) \in Seq(S)
         /\ DOMAIN Append(q, x) = DOMAIN q \cup {Len(q) + 1}
         /\ \A i \in DOMAIN q : Append(q, x)[i] = q[i] /\ i # Len(q) + 1
         /\ Append(q, x)[Len(q) + 1] = x
  OBVIOUS

\* The queue after queueInLoop().
LEMMA QueueAppended ==
  ASSUME functors \in Seq(Functor), NEW f \in Functor, functors' = Append(functors, f)
  PROVE  /\ functors' \in Seq(Functor)
         /\ DOMAIN functors' = DOMAIN functors \cup {Len(functors) + 1}
         /\ \A i \in DOMAIN functors : functors'[i] = functors[i] /\ i # Len(functors) + 1
         /\ functors'[Len(functors) + 1] = f
  BY AppendOf

\* cancelInLoop(), called or queued, preserves the invariant.
LEMMA CancelInLoopPreserves ==
  ASSUME TimerInv, NEW id \in Addrs \X Nat, CancelInLoop(id),
         UNCHANGED <<clock, numCreated, batchVars, timerfd, adding, known>>,
         \/ functors' = functors
         \/ functors # <<>> /\ functors' = Tail(functors)
  PROVE  TimerInv'
<1> USE DEF TimerInv, QueuesAgree
<1>0. UNCHANGED <<pc, now, expired, toRun, callingExpiredTimers>>
  BY DEF batchVars
<1>1. /\ functors' \in Seq(Functor)
      /\ \A i \in DOMAIN functors' : functors'[i] \in Functor
      /\ \/ functors' = functors
         \/ \A i \in DOMAIN functors' : /\ i \in Nat /\ i + 1 \in DOMAIN functors
                                        /\ functors'[i] = functors[i + 1]
  <2>1. functors \in Seq(Functor)
    BY DEF TypeOK
  <2>2. CASE functors' = functors
    BY <2>1, <2>2
  <2>3. CASE functors # <<>> /\ functors' = Tail(functors)
    <3>1. /\ functors' \in Seq(Functor)
          /\ \A i \in DOMAIN functors' : /\ i \in Nat /\ i + 1 \in DOMAIN functors
                                         /\ functors'[i] = functors[i + 1]
      BY <2>1, <2>3, TailOf
    <3> QED
      BY <3>1
  <2> QED
    BY <2>2, <2>3
<1>a. \E p : /\ \A i \in DOMAIN functors' : /\ p[i] \in DOMAIN functors
                                             /\ functors'[i] = functors[p[i]]
             /\ \A i, j \in DOMAIN functors' : p[i] = p[j] => i = j
  <2>1. CASE functors' = functors
    <3> DEFINE p == [i \in DOMAIN functors |-> i]
    <3>1. \A i \in DOMAIN functors : p[i] = i
      BY Zenon
    <3> HIDE DEF p
    <3> WITNESS p
    <3>2. /\ \A i \in DOMAIN functors : /\ p[i] \in DOMAIN functors
                                          /\ functors[i] = functors[p[i]]
          /\ \A i, j \in DOMAIN functors : p[i] = p[j] => i = j
      BY Zenon, <3>1
    <3> QED
      BY <2>1, <3>2
  <2>2. CASE \A i \in DOMAIN functors' : /\ i \in Nat /\ i + 1 \in DOMAIN functors
                                          /\ functors'[i] = functors[i + 1]
    <3> DEFINE p == [i \in DOMAIN functors' |-> i + 1]
    <3>1. \A i \in DOMAIN functors' : p[i] = i + 1 /\ i \in Nat
      BY Zenon, <2>2
    <3>2. \A i, j \in DOMAIN functors' : i + 1 = j + 1 => i = j
      BY <3>1
    <3> HIDE DEF p
    <3> WITNESS p
    <3> QED
      BY <2>2, <3>1, <3>2
  <2> QED
    BY Zenon, <1>1, <2>1, <2>2
<1>b. PICK p : /\ \A i \in DOMAIN functors' : /\ p[i] \in DOMAIN functors
                                              /\ functors'[i] = functors[p[i]]
               /\ \A i, j \in DOMAIN functors' : p[i] = p[j] => i = j
  BY Zenon, <1>a
<1>2. CASE ActiveTimer(id)
  <2>1. /\ timers' = timers \ {<<heap[id[1]].expiration, id[1]>>}
        /\ activeTimers' = activeTimers \ {id}
        /\ heap' = [heap EXCEPT ![id[1]] = Free]
        /\ cancelled' = cancelled \cup {id}
        /\ cancelingTimers' = cancelingTimers
        /\ id \in activeTimers /\ id[1] \in Addrs
    BY <1>2 DEF CancelInLoop, ActiveTimer
  <2>2. heap' \in [Addrs -> [seq : Nat, expiration : Nat, interval : Nat]]
    BY <2>1 DEF TypeOK, Free
  <2>3. TypeOK'
    BY Zenon, <1>0, <1>1, <2>1, <2>2 DEF TypeOK
  <2>4. \A b \in Addrs : b # id[1] => heap'[b] = heap[b]
    BY <2>1 DEF TypeOK
  <2>5. id = IdAt(id[1]) /\ Allocated(id[1])
    BY Zenon, <2>1 DEF ActiveOK
  <2>6. TimersOK'
    <3> SUFFICES ASSUME NEW e \in timers'
                 PROVE  /\ Allocated(e[2])' /\ e[1] = heap'[e[2]].expiration
                        /\ IdAt(e[2])' \in activeTimers'
      BY DEF TimersOK
    <3>1. e \in timers /\ e[2] \in Addrs /\ e[2] # id[1]
      BY <2>1 DEF TimersOK, TypeOK
    <3>2. heap'[e[2]] = heap[e[2]]
      BY <2>4, <3>1
    <3>3. IdAt(e[2]) # id
      BY <3>1 DEF IdAt
    <3> QED
      BY <2>1, <3>1, <3>2, <3>3 DEF TimersOK, Allocated, IdAt
  <2>7. ActiveOK' /\ CancelStops'
    <3> SUFFICES ASSUME NEW d \in activeTimers'
                 PROVE  /\ d = IdAt(d[1])' /\ Allocated(d[1])'
                        /\ <<heap'[d[1]].expiration, d[1]>> \in timers'
                        /\ d \notin cancelled'
      BY Zenon DEF ActiveOK, CancelStops
    <3>1. d \in activeTimers /\ d # id /\ d[1] \in Addrs /\ d = IdAt(d[1])
      BY Zenon, <2>1 DEF ActiveOK, TypeOK
    <3>2. d[1] # id[1]
      BY <2>5, <3>1
    <3>3. heap'[d[1]] = heap[d[1]]
      BY <2>4, <3>1, <3>2
    <3> QED
      BY <2>1, <3>1, <3>2, <3>3 DEF ActiveOK, CancelStops, Allocated, IdAt
  <2>8. ExpiredOK' /\ CancelNoted'
    <3>1. \A e \in expired : e[2] \in Addrs /\ e[2] # id[1]
      BY <2>1, <2>5 DEF ExpiredOK, TypeOK
    <3>2. \A e \in expired : heap'[e[2]] = heap[e[2]] /\ IdAt(e[2]) # id
      BY <2>4, <3>1 DEF IdAt
    <3>3. ExpiredOK'
      BY <1>0, <2>1, <3>1, <3>2 DEF ExpiredOK, Allocated, IdAt
    <3>4. \A e \in expired : IdAt(e[2])' \in cancelled' => IdAt(e[2])' \in cancelingTimers'
      BY <2>1, <3>1, <3>2 DEF CancelNoted, IdAt
    <3>5. \A i \in DOMAIN functors : functors[i].op = "add" => functors[i].id \notin cancelled'
      BY <2>1 DEF CancelNoted, AddsOK
    <3>6. \A i \in DOMAIN functors' : functors'[i].op = "add" =>
            functors'[i].id \notin cancelled'
      BY <1>b, <3>5
    <3>7. \A e \in expired' : IdAt(e[2])' \in cancelled' => IdAt(e[2])' \in cancelingTimers'
      BY Zenon, <1>0, <3>4
    <3> QED
      BY Zenon, <3>3, <3>6, <3>7 DEF CancelNoted
  <2>9. AddsOK'
    <3>1. \A i \in DOMAIN functors : functors[i].op = "add" =>
            functors[i].id[1] \in Addrs /\ functors[i].id[1] # id[1]
      BY <2>1, <2>5, FunctorIds DEF AddsOK
    <3>2. \A i \in DOMAIN functors : functors[i].op = "add" =>
            heap'[functors[i].id[1]] = heap[functors[i].id[1]]
      BY <2>4, <3>1
    <3>3. \A i \in DOMAIN functors' : functors'[i].op = "add" =>
            /\ p[i] \in DOMAIN functors
            /\ functors'[i] = functors[p[i]]
            /\ heap'[functors'[i].id[1]] = heap[functors'[i].id[1]]
            /\ functors'[i].id \in activeTimers' => functors'[i].id \in activeTimers
      <4> SUFFICES ASSUME NEW i \in DOMAIN functors', functors'[i].op = "add"
                   PROVE  /\ p[i] \in DOMAIN functors
                          /\ functors'[i] = functors[p[i]]
                          /\ heap'[functors'[i].id[1]] = heap[functors'[i].id[1]]
                          /\ functors'[i].id \in activeTimers' =>
                               functors'[i].id \in activeTimers
        BY Zenon
      <4>1. p[i] \in DOMAIN functors /\ functors'[i] = functors[p[i]]
        BY Zenon, <1>b
      <4>2. heap'[functors'[i].id[1]] = heap[functors'[i].id[1]]
        BY <3>2, <4>1
      <4>3. functors'[i].id \in activeTimers' => functors'[i].id \in activeTimers
        BY Zenon, <2>1
      <4> QED
        BY Zenon, <4>1, <4>2, <4>3
    <3>4. expired' \subseteq expired
      BY Zenon, <1>0
    <3> QED
      BY Zenon, <1>b, <3>3, <3>4, FewerAdds
  <2>10. SeqOK' /\ ArmedInTime' /\ ArmedInBatch'
    BY <1>0, <2>1, <2>4, <2>5 DEF SeqOK, ArmedInTime, ArmedInBatch, TypeOK, Free, IdAt
  <2> QED
    BY <1>0, <2>3, <2>6, <2>7, <2>8, <2>9, <2>10
<1>3. CASE ~ActiveTimer(id)
  <2>1. /\ cancelingTimers' = IF callingExpiredTimers
                                THEN cancelingTimers \cup {id}
                                ELSE cancelingTimers
        /\ cancelled' = IF \E e \in expired : IdAt(e[2]) = id
                          THEN cancelled \cup {id} ELSE cancelled
        /\ UNCHANGED <<timers, activeTimers, heap>>
        /\ id \notin activeTimers /\ id[1] \in Addrs
    BY <1>3 DEF CancelInLoop, ActiveTimer, queueVars
  <2>2. TypeOK'
    BY Zenon, <1>0, <1>1, <2>1 DEF TypeOK
  <2>3. TimersOK' /\ ActiveOK' /\ ExpiredOK' /\ CancelStops'
    BY <1>0, <2>1 DEF TimersOK, ActiveOK, ExpiredOK, CancelStops, Allocated, IdAt
  <2>4. AddsOK'
    <3>1. \A i \in DOMAIN functors' : functors'[i].op = "add" =>
            /\ p[i] \in DOMAIN functors
            /\ functors'[i] = functors[p[i]]
            /\ heap'[functors'[i].id[1]] = heap[functors'[i].id[1]]
            /\ functors'[i].id \in activeTimers' => functors'[i].id \in activeTimers
      BY Zenon, <1>b, <2>1
    <3>2. expired' \subseteq expired
      BY Zenon, <1>0
    <3> QED
      BY Zenon, <1>b, <3>1, <3>2, FewerAdds
  <2>5. CancelNoted'
    <3>1. \A e \in expired : IdAt(e[2])' \in cancelled' => IdAt(e[2])' \in cancelingTimers'
      BY <1>0, <2>1 DEF CancelNoted, IdAt
    <3>2. \A i \in DOMAIN functors : functors[i].op = "add" => functors[i].id \notin cancelled'
      BY <2>1 DEF CancelNoted, AddsOK, IdAt
    <3>3. \A i \in DOMAIN functors' : functors'[i].op = "add" =>
            functors'[i].id \notin cancelled'
      BY <1>b, <3>2
    <3>4. \A e \in expired' : IdAt(e[2])' \in cancelled' => IdAt(e[2])' \in cancelingTimers'
      BY Zenon, <1>0, <3>1
    <3> QED
      BY Zenon, <3>3, <3>4 DEF CancelNoted
  <2>6. SeqOK'
    <3>1. (\E e \in expired : IdAt(e[2]) = id) => id[2] <= numCreated
      BY DEF SeqOK, IdAt, TypeOK
    <3> QED
      BY <2>1, <3>1 DEF SeqOK
  <2>7. ArmedInTime' /\ ArmedInBatch'
    BY <1>0, <2>1 DEF ArmedInTime, ArmedInBatch
  <2> QED
    BY <1>0, <2>2, <2>3, <2>4, <2>5, <2>6, <2>7
<1> QED
  BY <1>2, <1>3

\* doPendingFunctors() preserves the invariant.
LEMMA RunFunctorPreserves ==
  ASSUME TimerInv, RunFunctor
  PROVE  TimerInv'
<1> USE DEF TimerInv, QueuesAgree
<1> DEFINE id == Head(functors).id
<1>1. functors \in Seq(Functor) /\ functors # <<>> /\ functors' = Tail(functors)
  BY DEF RunFunctor, TypeOK
<1>2. /\ functors' \in Seq(Functor)
      /\ Head(functors) = functors[1] /\ 1 \in DOMAIN functors
      /\ \A i \in DOMAIN functors' :
           /\ i \in Nat /\ i > 0 /\ i + 1 \in DOMAIN functors
           /\ functors'[i] = functors[i + 1]
  BY <1>1, TailOf
<1>3. id \in Addrs \X Nat /\ id[1] \in Addrs
  BY <1>2, FunctorIds
<1>4. UNCHANGED <<clock, numCreated, batchVars, adding, known>>
  BY DEF RunFunctor
<1>5. CASE Head(functors).op = "cancel"
  <2>1. CancelInLoop(id) /\ UNCHANGED timerfd
    BY Zenon, <1>5 DEF RunFunctor
  <2> HIDE DEF id
  <2> QED
    BY <1>1, <1>3, <1>4, <2>1, CancelInLoopPreserves
<1>6. CASE Head(functors).op = "add"
  <2>1. /\ AddTimerInLoop(id[1], heap[id[1]])
        /\ UNCHANGED <<heap, cancelingTimers, cancelled>>
        /\ UNCHANGED <<pc, now, expired, toRun, callingExpiredTimers>>
    BY <1>4, <1>6 DEF RunFunctor, batchVars
  <2>2. /\ Allocated(id[1]) /\ IdAt(id[1]) = id /\ id \notin activeTimers
        /\ id \notin cancelled
        /\ \A e \in expired : e[2] # id[1]
        /\ \A i \in DOMAIN functors' : functors'[i].op = "add" => functors'[i].id # id
    BY <1>2, <1>6 DEF AddsOK, CancelNoted
  <2> HIDE DEF id
  <2>3. /\ heap[id[1]] \in [seq : Nat, expiration : Nat, interval : Nat]
        /\ heap[id[1]].expiration \in Nat
    BY <1>3 DEF TypeOK
  <2>4. (ArmedInTime /\ ArmedInBatch)' /\ timerfd' \in Nat \cup {Never}
    BY <1>3, <1>4, <2>1, <2>3, AddInLoopArmed
  <2>5. /\ timers' = timers \cup {<<heap[id[1]].expiration, id[1]>>}
        /\ activeTimers' = activeTimers \cup {id}
    BY <2>1, <2>2 DEF AddTimerInLoop, IdAt
  <2>6. /\ timers' \in SUBSET (Nat \X Addrs)
        /\ activeTimers' \in SUBSET (Addrs \X Nat)
    BY <1>3, <2>3, <2>5 DEF TypeOK
  <2>7. TypeOK'
    BY ZenonT(30), <1>2, <1>4, <2>1, <2>4, <2>6 DEF TypeOK, batchVars
  <2>8. TimersOK' /\ ActiveOK' /\ CancelStops'
    <3>1. TimersOK'
      BY <2>1, <2>2, <2>5 DEF TimersOK, Allocated, IdAt
    <3>2. ActiveOK'
      BY <2>1, <2>2, <2>5 DEF ActiveOK, Allocated, IdAt
    <3>3. CancelStops'
      BY <2>1, <2>2, <2>5 DEF CancelStops
    <3> QED
      BY Zenon, <3>1, <3>2, <3>3
  <2>9. ExpiredOK' /\ CancelNoted' /\ SeqOK'
    BY <1>2, <1>4, <2>1, <2>2, <2>5 DEF ExpiredOK, CancelNoted, SeqOK, Allocated, IdAt
  <2>10. AddsOK'
    BY <1>2, <2>1, <2>2, <2>5 DEF AddsOK, Allocated, IdAt
  <2> QED
    BY Zenon, <2>1, <2>4, <2>7, <2>8, <2>9, <2>10
<1> QED
  BY <1>5, <1>6 DEF RunFunctor

\* handleRead(), up to the first callback, preserves the invariant.
LEMMA HandleReadPreserves ==
  ASSUME TimerInv, HandleRead
  PROVE  TimerInv'
<1> USE DEF TimerInv, QueuesAgree, HandleRead
<1>1. expired = {} /\ clock \in Nat
  BY DEF TypeOK
<1>2. TypeOK'
  <2>1. expired' \in SUBSET (Nat \X Addrs) /\ toRun' \in SUBSET expired'
        /\ timers' \in SUBSET (Nat \X Addrs)
        /\ activeTimers' \in SUBSET (Addrs \X Nat)
    BY DEF TypeOK
  <2> QED
    BY <2>1 DEF TypeOK
<1>3. \A e \in timers : e[1] = heap[e[2]].expiration /\ e = <<e[1], e[2]>>
                        /\ e[2] \in Addrs /\ e[1] \in Nat
  BY DEF TimersOK, TypeOK
<1>4. \A e, f \in timers : IdAt(e[2]) = IdAt(f[2]) => e = f
  BY <1>3 DEF IdAt
<1>5. TimersOK'
  BY <1>3, <1>4 DEF TimersOK, Allocated, IdAt
<1>6. ActiveOK' /\ CancelStops'
  BY <1>3, <1>4 DEF ActiveOK, CancelStops, TimersOK, Allocated, IdAt
<1>7. ExpiredOK'
  BY DEF ExpiredOK, TimersOK, Allocated, IdAt
<1>8. AddsOK'
  <2>1. \A i \in DOMAIN functors : functors[i].op = "add" =>
          \A e \in timers : e[2] # functors[i].id[1]
    BY DEF AddsOK, TimersOK
  <2> QED
    BY <2>1 DEF AddsOK, Allocated, IdAt
<1>9. CancelNoted'
  BY DEF CancelNoted, CancelStops, TimersOK, IdAt
<1>10. SeqOK'
  BY DEF SeqOK
<1>11. ArmedInTime' /\ ArmedInBatch'
  BY <1>1, <1>3 DEF ArmedInTime, ArmedInBatch
<1> QED
  BY <1>2, <1>5, <1>6, <1>7, <1>8, <1>9, <1>10, <1>11

\* A deadline that is near stays near.
LEMMA LaterClock ==
  ASSUME NEW x \in Int, NEW y \in Int, NEW z \in Int, x <= y, z <= x + 1
  PROVE  z <= y + 1
  OBVIOUS

\* The start and the end of a callback, and the passing of time.
LEMMA BatchStepPreserves ==
  ASSUME TimerInv, (\E e \in toRun : RunTimer(e)) \/ CallbackReturn \/ Tick
  PROVE  TimerInv'
<1> USE DEF TimerInv, QueuesAgree
<1>1. UNCHANGED <<heap, numCreated, timers, activeTimers, cancelingTimers, now,
                  expired, callingExpiredTimers, timerfd, functors, adding,
                  known, cancelled>>
  BY DEF RunTimer, CallbackReturn, Tick, queueVars, batchVars
<1>2. toRun' \subseteq toRun
  BY DEF RunTimer, CallbackReturn, Tick, batchVars
<1>3. /\ pc' \in {"idle", "batch", "callback"}
      /\ pc' = "idle" <=> pc = "idle"
  BY DEF RunTimer, CallbackReturn, Tick, batchVars, TypeOK
<1>a. clock' \in Nat /\ clock <= clock'
  <2>1. clock \in Nat
    BY DEF TypeOK
  <2>2. clock' = clock \/ clock' = clock + 1
    BY DEF RunTimer, CallbackReturn, Tick
  <2> QED
    BY <2>1, <2>2
<1>b. TypeOK'
  BY Zenon, <1>1, <1>2, <1>3, <1>a DEF TypeOK
<1>c. ArmedInTime' /\ ArmedInBatch'
  <2>1. clock \in Nat /\ timerfd \in Nat \cup {Never}
    BY DEF TypeOK
  <2>2. timerfd <= clock + 1 => timerfd <= clock' + 1
    <3>1. clock \in Int /\ clock' \in Int /\ timerfd \in Int
      BY <1>a, <2>1 DEF Never
    <3> QED
      BY Zenon, <1>a, <3>1, LaterClock
  <2>3. ArmedInTime'
    BY <1>1, <1>3, <2>2 DEF ArmedInTime
  <2>4. ArmedInBatch'
    BY Zenon, <1>1, <1>3, <2>2 DEF ArmedInBatch
  <2> QED
    BY <2>3, <2>4
<1>4. TimersOK' /\ ActiveOK' /\ ExpiredOK' /\ AddsOK' /\ SeqOK' /\ CancelStops'
      /\ CancelNoted'
  BY Zenon, <1>1, SameQueue, SameFunctors
<1> QED
  BY <1>1, <1>3, <1>b, <1>c, <1>4

\* reset() preserves the invariant.
LEMMA ResetPreserves ==
  ASSUME TimerInv, Reset
  PROVE  TimerInv'
<1> USE DEF TimerInv, QueuesAgree
<1> DEFINE again == {e[2] : e \in {x \in expired : Again(x)}}
<1> DEFINE gone == {e[2] : e \in {x \in expired : ~Again(x)}}
<1>1. /\ pc = "batch" /\ toRun = {} /\ heap' = AfterReset
      /\ timers' = timers \cup {<<AfterReset[a].expiration, a>> : a \in again}
      /\ activeTimers' = activeTimers \cup {IdAt(a) : a \in again}
      /\ callingExpiredTimers' = FALSE /\ expired' = {} /\ pc' = "idle"
      /\ UNCHANGED <<clock, numCreated, cancelingTimers, now, toRun, functors,
                     adding, known, cancelled>>
  BY DEF Reset
<1>2. /\ \A e \in expired : e[2] \in Addrs /\ e = <<heap[e[2]].expiration, e[2]>>
      /\ again \subseteq Addrs /\ gone \subseteq Addrs
  BY DEF TypeOK, ExpiredOK
<1>3. \A a \in again : /\ a \notin gone /\ Allocated(a) /\ IdAt(a) \notin activeTimers
                       /\ heap[a].interval > 0 /\ IdAt(a) \notin cancelled
  BY <1>2 DEF ExpiredOK, Again, CancelNoted
<1>4. \A a \in again : heap'[a] = [heap[a] EXCEPT !.expiration = now + heap[a].interval]
  BY <1>1, <1>2 DEF AfterReset
<1>5. \A a \in gone : heap'[a] = Free
  <2> SUFFICES ASSUME NEW a \in gone PROVE heap'[a] = Free
    OBVIOUS
  <2>1. ~ \E e \in expired : e[2] = a /\ Again(e)
    BY <1>3
  <2> QED
    BY <1>1, <1>2, <2>1 DEF AfterReset
<1>6. \A a \in Addrs : a \notin again \cup gone => heap'[a] = heap[a]
  BY <1>1 DEF AfterReset
<1>7. \A a \in Addrs : heap[a] \in [seq : Nat, expiration : Nat, interval : Nat]
  BY DEF TypeOK
<1>8. \A a \in again : /\ heap'[a].seq = heap[a].seq
                       /\ heap'[a].interval = heap[a].interval
                       /\ heap'[a].expiration = now + heap[a].interval
                       /\ heap'[a].expiration \in Nat /\ heap'[a].expiration > 0
                       /\ heap'[a] \in [seq : Nat, expiration : Nat, interval : Nat]
  <2> SUFFICES ASSUME NEW a \in again
               PROVE  /\ heap'[a].seq = heap[a].seq
                      /\ heap'[a].interval = heap[a].interval
                      /\ heap'[a].expiration = now + heap[a].interval
                      /\ heap'[a].expiration \in Nat /\ heap'[a].expiration > 0
                      /\ heap'[a] \in [seq : Nat, expiration : Nat, interval : Nat]
    OBVIOUS
  <2> HIDE DEF again
  <2>1. /\ heap[a] \in [seq : Nat, expiration : Nat, interval : Nat]
        /\ heap[a].interval \in Nat /\ heap[a].interval > 0 /\ now \in Nat
    BY <1>2, <1>3, <1>7 DEF TypeOK
  <2>2. now + heap[a].interval \in Nat /\ now + heap[a].interval > 0
    BY <2>1
  <2> QED
    BY Zenon, <1>4, <2>1, <2>2
<1>9. heap' \in [Addrs -> [seq : Nat, expiration : Nat, interval : Nat]]
  <2>1. \A a \in Addrs : heap'[a] \in [seq : Nat, expiration : Nat, interval : Nat]
    BY <1>5, <1>6, <1>7, <1>8 DEF Free
  <2> QED
    BY <1>1, <2>1 DEF AfterReset
<1> HIDE DEF again, gone
<1>10. /\ timers' \in SUBSET (Nat \X Addrs)
       /\ activeTimers' \in SUBSET (Addrs \X Nat)
  BY <1>1, <1>2, <1>7, <1>8 DEF TypeOK, IdAt
<1>11. clock \in Nat /\ timerfd \in Nat \cup {Never}
  BY DEF TypeOK
<1>12. \A e \in timers' : /\ e[1] \in Nat
                          /\ e[1] = 0 => timerfd # Never /\ timerfd <= clock + 1
  BY SMTT(60), <1>1, <1>8, <1>10 DEF ArmedInBatch, TypeOK
<1>13. timerfd' \in Nat \cup {Never} /\ ArmedInTime'
  <2>1. CASE timers' = {} /\ timerfd' = timerfd
    BY <1>11, <2>1 DEF ArmedInTime
  <2>2. ASSUME NEW e \in timers', \A f \in timers' : Before(e, f),
               timerfd' = IF e[1] > 0 THEN TimerfdFor(e[1]) ELSE timerfd
        PROVE  timerfd' \in Nat \cup {Never} /\ ArmedInTime'
    <3>1. \A f \in timers' : e[1] <= f[1] /\ f[1] \in Nat
      BY SMTT(60), <1>12, <2>2 DEF Before
    <3>2. CASE e[1] > 0
      <4>1. timerfd' \in Nat /\ (timerfd' = e[1] \/ timerfd' = clock + 1)
        BY SMTT(60), <1>11, <1>12, <2>2, <3>2 DEF TimerfdFor
      <4>2. timerfd' \in Nat \cup {Never} /\ timerfd' # Never
        BY <4>1 DEF Never
      <4>3. ASSUME NEW f \in timers'
            PROVE  timerfd' <= f[1] \/ timerfd' <= clock' + 1
        <5>1. e[1] \in Nat /\ f[1] \in Nat /\ e[1] <= f[1] /\ clock' = clock
          BY Zenon, <1>1, <1>12, <3>1
        <5> QED
          BY <1>11, <4>1, <5>1
      <4> QED
        BY Zenon, <4>2, <4>3 DEF ArmedInTime
    <3>3. CASE e[1] = 0
      <4>1. timerfd' = timerfd
        BY <2>2, <3>3
      <4>2. timerfd # Never /\ timerfd <= clock + 1 /\ clock' = clock
        BY Zenon, <1>1, <1>12, <3>3
      <4> QED
        BY Zenon, <1>11, <4>1, <4>2 DEF ArmedInTime
    <3> QED
      BY <1>12, <3>2, <3>3
  <2> QED
    BY <2>1, <2>2 DEF Reset, Rearm
<1>14. TypeOK'
  BY Zenon, <1>1, <1>9, <1>10, <1>13 DEF TypeOK
<1>15. \A a \in Addrs : a \notin again \cup gone => IdAt(a)' = IdAt(a)
  BY <1>6 DEF IdAt
<1>16. \A a \in again : IdAt(a)' = IdAt(a) /\ Allocated(a)'
  BY Zenon, <1>3, <1>8 DEF IdAt, Allocated
<1>17. \A a \in again \cup gone : IdAt(a) \notin activeTimers
  BY DEF ExpiredOK, again, gone
<1>18. \A id \in activeTimers : id[1] \in Addrs /\ id[1] \notin again \cup gone
  BY Zenon, <1>17 DEF ActiveOK, TypeOK
<1>19. \A e \in timers : e[2] \in Addrs /\ e[2] \notin again \cup gone
  BY <1>17 DEF TimersOK, TypeOK
<1>20. TimersOK'
  <2> SUFFICES ASSUME NEW e \in timers'
               PROVE  /\ Allocated(e[2])' /\ e[1] = heap'[e[2]].expiration
                      /\ IdAt(e[2])' \in activeTimers'
    BY DEF TimersOK
  <2>1. CASE e \in timers
    BY <1>1, <1>6, <1>15, <1>19, <2>1 DEF TimersOK, Allocated
  <2>2. ASSUME NEW a \in again, e = <<heap'[a].expiration, a>>
        PROVE  /\ Allocated(e[2])' /\ e[1] = heap'[e[2]].expiration
               /\ IdAt(e[2])' \in activeTimers'
    BY <1>1, <1>16, <2>2
  <2> QED
    BY Zenon, <1>1, <2>1, <2>2
<1>21. ActiveOK' /\ CancelStops'
  <2> SUFFICES ASSUME NEW id \in activeTimers'
               PROVE  /\ id = IdAt(id[1])' /\ Allocated(id[1])'
                      /\ <<heap'[id[1]].expiration, id[1]>> \in timers'
                      /\ id \notin cancelled'
    BY Zenon DEF ActiveOK, CancelStops
  <2>1. CASE id \in activeTimers
    BY <1>1, <1>6, <1>15, <1>18, <2>1 DEF ActiveOK, CancelStops, Allocated
  <2>2. ASSUME NEW a \in again, id = IdAt(a)
        PROVE  /\ id = IdAt(id[1])' /\ Allocated(id[1])'
               /\ <<heap'[id[1]].expiration, id[1]>> \in timers'
               /\ id \notin cancelled'
    <3>1. id[1] = a
      BY Zenon, <2>2 DEF IdAt
    <3> QED
      BY <1>1, <1>3, <1>16, <2>2, <3>1
  <2> QED
    BY <1>1, <2>1, <2>2
<1>22. AddsOK'
  <2>1. \A i \in DOMAIN functors : functors[i].op = "add" =>
          functors[i].id[1] \in Addrs /\ functors[i].id[1] \notin again \cup gone
    BY FunctorIds DEF AddsOK, again, gone
  <2>2. \A i \in DOMAIN functors : functors[i].op = "add" =>
          functors[i].id \notin activeTimers'
    <3> SUFFICES ASSUME NEW i \in DOMAIN functors, functors[i].op = "add",
                        functors[i].id \in activeTimers'
                 PROVE  FALSE
      BY Zenon
    <3>1. functors[i].id \notin activeTimers /\ IdAt(functors[i].id[1]) = functors[i].id
      BY Zenon DEF AddsOK
    <3>2. PICK a \in again : functors[i].id = IdAt(a)
      BY Zenon, <1>1, <3>1
    <3>3. functors[i].id[1] = a
      <4>1. IdAt(a)[1] = a
        BY DEF IdAt
      <4> QED
        BY Zenon, <3>2, <4>1
    <3> QED
      BY Zenon, <2>1, <3>3
  <2> DEFINE p == [i \in DOMAIN functors |-> i]
  <2>3. \A i \in DOMAIN functors' : p[i] = i
    BY Zenon, <1>1
  <2> HIDE DEF p
  <2>4. \A i \in DOMAIN functors' : functors'[i].op = "add" =>
          /\ p[i] \in DOMAIN functors
          /\ functors'[i] = functors[p[i]]
          /\ heap'[functors'[i].id[1]] = heap[functors'[i].id[1]]
          /\ functors'[i].id \in activeTimers' => functors'[i].id \in activeTimers
    BY Zenon, <1>1, <1>6, <2>1, <2>2, <2>3
  <2>5. /\ \A i, j \in DOMAIN functors' : p[i] = p[j] => i = j
        /\ expired' \subseteq expired
    BY Zenon, <1>1, <2>3
  <2> QED
    BY Zenon, <2>4, <2>5, FewerAdds
<1>23. SeqOK'
  <2>1. \A a \in Addrs : heap'[a].seq = heap[a].seq \/ heap'[a].seq = 0
    BY <1>5, <1>6, <1>8 DEF Free
  <2> QED
    <3>1. numCreated \in Nat /\ 0 <= numCreated
      BY DEF TypeOK
    <3>2. \A a \in Addrs : heap'[a].seq <= numCreated
      BY <2>1, <3>1 DEF SeqOK
    <3> QED
      BY <1>1, <3>2 DEF SeqOK
<1>24. ExpiredOK' /\ CancelNoted' /\ ArmedInBatch'
  BY <1>1 DEF ExpiredOK, CancelNoted, ArmedInBatch
<1> QED
  BY <1>1, <1>13, <1>14, <1>20, <1>21, <1>22, <1>23, <1>24

\* The steps of another thread preserve the invariant.
LEMMA OtherThreadPreserves ==
  ASSUME TimerInv, NEW t \in Threads,
         \/ \E a \in Addrs, when \in Whens, interval \in Intervals :
              AddTimerFrom(t, a, when, interval)
         \/ \E id \in known : CancelFrom(t, id)
         \/ AddTimerReturn(t)
  PROVE  TimerInv'
<1> USE TimerAssumption DEF TimerInv, QueuesAgree
<1>0. functors \in Seq(Functor) /\ numCreated \in Nat /\ numCreated + 1 \in Nat
      /\ known \in SUBSET (Addrs \X Nat)
  BY DEF TypeOK
<1>1. ASSUME NEW a \in Addrs, NEW when \in Whens, NEW interval \in Intervals,
             AddTimerFrom(t, a, when, interval)
      PROVE  TimerInv'
  <2> DEFINE new == [seq |-> numCreated + 1, expiration |-> when,
                     interval |-> interval]
             id == <<a, numCreated + 1>>
             f == [op |-> "add", id |-> id]
  <2>1. /\ ~Allocated(a)
        /\ numCreated' = numCreated + 1
        /\ heap' = [heap EXCEPT ![a] = new]
        /\ adding' = [adding EXCEPT ![t] = id]
        /\ functors' = Append(functors, f)
        /\ UNCHANGED <<clock, timers, activeTimers, cancelingTimers, timerfd,
                       known, cancelled>>
        /\ UNCHANGED <<pc, now, expired, toRun, callingExpiredTimers>>
    BY <1>1 DEF AddTimerFrom, NewTimer, queueVars, batchVars
  <2>2. id \in Addrs \X Nat /\ f \in Functor /\ f.op = "add" /\ f.id = id /\ id[1] = a
    BY Zenon, <1>0 DEF Functor
  <2>3. /\ functors' \in Seq(Functor)
        /\ DOMAIN functors' = DOMAIN functors \cup {Len(functors) + 1}
        /\ \A i \in DOMAIN functors : functors'[i] = functors[i] /\ i # Len(functors) + 1
        /\ functors'[Len(functors) + 1] = f
    <3> HIDE DEF id, f, new
    <3> QED
      BY Zenon, <1>0, <2>1, <2>2, QueueAppended
  <2>4. heap'[a] = new /\ \A b \in Addrs : b # a => heap'[b] = heap[b]
    BY Zenon, <2>1 DEF TypeOK
  <2>5. /\ heap' \in [Addrs -> [seq : Nat, expiration : Nat, interval : Nat]]
        /\ adding' \in [Threads -> (Addrs \X Nat) \cup {NoId}]
    <3>1. new \in [seq : Nat, expiration : Nat, interval : Nat]
      BY <1>0
    <3>2. /\ heap \in [Addrs -> [seq : Nat, expiration : Nat, interval : Nat]]
          /\ adding \in [Threads -> (Addrs \X Nat) \cup {NoId}]
      BY Zenon DEF TypeOK
    <3> HIDE DEF new, id
    <3> QED
      BY Zenon, <2>1, <2>2, <3>1, <3>2
  <2>a. heap'[a].seq = numCreated + 1
    <3>1. new.seq = numCreated + 1
      OBVIOUS
    <3> HIDE DEF new
    <3> QED
      BY Zenon, <2>4, <3>1
  <2> HIDE DEF id, f, new
  <2>6. TypeOK'
    BY Zenon, <1>0, <2>1, <2>3, <2>5 DEF TypeOK
  <2>7. /\ \A e \in timers : e[2] \in Addrs /\ e[2] # a
        /\ \A e \in expired : e[2] \in Addrs /\ e[2] # a
        /\ \A d \in activeTimers : d[1] \in Addrs /\ d[1] # a
        /\ \A i \in DOMAIN functors : functors[i].op = "add" =>
             functors[i].id[1] \in Addrs /\ functors[i].id[1] # a
    <3>1. \A e \in timers : e[2] \in Addrs /\ e[2] # a
      BY Zenon, <2>1 DEF TimersOK, TypeOK
    <3>2. \A e \in expired : e[2] \in Addrs /\ e[2] # a
      BY Zenon, <2>1 DEF ExpiredOK, TypeOK
    <3>3. \A d \in activeTimers : d[1] \in Addrs /\ d[1] # a
      BY Zenon, <2>1 DEF ActiveOK, TypeOK
    <3>4. \A i \in DOMAIN functors : functors[i].op = "add" =>
            functors[i].id[1] \in Addrs /\ functors[i].id[1] # a
      BY Zenon, <2>1, FunctorIds DEF AddsOK
    <3> QED
      BY Zenon, <3>1, <3>2, <3>3, <3>4
  <2>8. TimersOK' /\ ActiveOK' /\ ExpiredOK' /\ CancelStops'
    <3>1. TimersOK'
      <4> SUFFICES ASSUME NEW e \in timers
                   PROVE  /\ heap'[e[2]].seq # 0 /\ e[1] = heap'[e[2]].expiration
                          /\ <<e[2], heap'[e[2]].seq>> \in activeTimers
        BY Zenon, <2>1 DEF TimersOK, Allocated, IdAt
      <4>1. heap'[e[2]] = heap[e[2]]
        BY Zenon, <2>4, <2>7
      <4> QED
        BY Zenon, <4>1 DEF TimersOK, Allocated, IdAt
    <3>2. ActiveOK'
      <4> SUFFICES ASSUME NEW d \in activeTimers
                   PROVE  /\ d = <<d[1], heap'[d[1]].seq>> /\ heap'[d[1]].seq # 0
                          /\ <<heap'[d[1]].expiration, d[1]>> \in timers
        BY Zenon, <2>1 DEF ActiveOK, Allocated, IdAt
      <4>1. heap'[d[1]] = heap[d[1]]
        BY Zenon, <2>4, <2>7
      <4> QED
        BY Zenon, <4>1 DEF ActiveOK, Allocated, IdAt
    <3>3. ExpiredOK'
      <4> SUFFICES ASSUME NEW e \in expired
                   PROVE  /\ heap'[e[2]].seq # 0 /\ e[1] = heap'[e[2]].expiration
                          /\ <<e[2], heap'[e[2]].seq>> \notin activeTimers
        BY Zenon, <2>1 DEF ExpiredOK, Allocated, IdAt
      <4>1. heap'[e[2]] = heap[e[2]]
        BY Zenon, <2>4, <2>7
      <4> QED
        BY Zenon, <4>1 DEF ExpiredOK, Allocated, IdAt
    <3>4. CancelStops'
      BY Zenon, <2>1 DEF CancelStops
    <3> QED
      BY Zenon, <3>1, <3>2, <3>3, <3>4
  <2>9. id \notin cancelled /\ id \notin activeTimers /\ IdAt(a)' = id /\ Allocated(a)'
    <3>1. \A d \in cancelled : d[2] # numCreated + 1
      <4> TAKE d \in cancelled
      <4>1. d[2] \in Nat /\ d[2] <= numCreated
        BY DEF SeqOK, TypeOK
      <4> QED
        BY <1>0, <4>1
    <3>2. id[1] = a /\ id[2] = numCreated + 1
      BY DEF id
    <3>3. IdAt(a)' = id
      BY Zenon, <2>a DEF IdAt, id
    <3>4. Allocated(a)'
      <4>1. numCreated + 1 # 0
        BY <1>0
      <4> QED
        BY Zenon, <2>a, <4>1 DEF Allocated
    <3>5. id \notin cancelled
      BY Zenon, <3>1, <3>2
    <3>6. id \notin activeTimers
      BY Zenon, <2>7, <3>2
    <3> QED
      BY Zenon, <3>3, <3>4, <3>5, <3>6
  <2>10. AddsOK'
    <3> SUFFICES ASSUME NEW i \in DOMAIN functors', functors'[i].op = "add"
                 PROVE  /\ heap'[functors'[i].id[1]].seq # 0
                        /\ <<functors'[i].id[1], heap'[functors'[i].id[1]].seq>>
                             = functors'[i].id
                        /\ functors'[i].id \notin activeTimers'
                        /\ \A e \in expired' : e[2] # functors'[i].id[1]
                        /\ \A j \in DOMAIN functors' :
                             functors'[j].op = "add" /\ functors'[j].id = functors'[i].id
                               => i = j
      BY Zenon DEF AddsOK, Allocated, IdAt
    <3>1. CASE i \in DOMAIN functors
      <4>1. functors'[i] = functors[i] /\ functors[i].id[1] \in Addrs /\ functors[i].id[1] # a
        BY Zenon, <2>3, <2>7, <3>1
      <4>2. heap'[functors[i].id[1]] = heap[functors[i].id[1]]
        BY Zenon, <2>4, <4>1
      <4>3. /\ heap[functors[i].id[1]].seq # 0
            /\ <<functors[i].id[1], heap[functors[i].id[1]].seq>> = functors[i].id
            /\ functors[i].id \notin activeTimers
            /\ \A e \in expired : e[2] # functors[i].id[1]
        BY Zenon, <3>1, <4>1 DEF AddsOK, Allocated, IdAt
      <4>4. ASSUME NEW j \in DOMAIN functors', functors'[j].op = "add",
                   functors'[j].id = functors'[i].id
            PROVE  i = j
        <5>1. CASE j \in DOMAIN functors
          BY Zenon, <2>3, <3>1, <4>1, <4>4, <5>1 DEF AddsOK
        <5>2. CASE j = Len(functors) + 1
          BY Zenon, <2>2, <2>3, <4>1, <4>4, <5>2
        <5> QED
          BY Zenon, <2>3, <5>1, <5>2
      <4> QED
        BY Zenon, <2>1, <4>1, <4>2, <4>3, <4>4
    <3>2. CASE i = Len(functors) + 1
      <4>1. functors'[i].id = id
        BY Zenon, <2>2, <2>3, <3>2
      <4>2. /\ heap'[a].seq # 0 /\ <<a, heap'[a].seq>> = id /\ id[1] = a
            /\ id \notin activeTimers' /\ \A e \in expired' : e[2] # a
        BY Zenon, <2>1, <2>2, <2>7, <2>9 DEF Allocated, IdAt
      <4>3. ASSUME NEW j \in DOMAIN functors', functors'[j].op = "add",
                   functors'[j].id = functors'[i].id
            PROVE  i = j
        <5>1. CASE j \in DOMAIN functors
          BY Zenon, <2>2, <2>3, <2>7, <4>1, <4>3, <5>1
        <5> QED
          BY Zenon, <2>3, <3>2, <5>1
      <4> QED
        BY Zenon, <4>1, <4>2, <4>3
    <3> QED
      BY Zenon, <2>3, <3>1, <3>2
  <2>11. CancelNoted'
    <3>1. \A i \in DOMAIN functors' : functors'[i].op = "add" =>
            functors'[i].id \notin cancelled'
      <4> TAKE i \in DOMAIN functors'
      <4>1. CASE i \in DOMAIN functors
        BY Zenon, <2>1, <2>3, <4>1 DEF CancelNoted
      <4>2. CASE i = Len(functors) + 1
        BY Zenon, <2>1, <2>2, <2>3, <2>9, <4>2
      <4> QED
        BY Zenon, <2>3, <4>1, <4>2
    <3>2. \A e \in expired : IdAt(e[2])' = IdAt(e[2])
      BY Zenon, <2>4, <2>7 DEF IdAt
    <3> QED
      <4>1. \A e \in expired' : IdAt(e[2])' \in cancelled' => IdAt(e[2])' \in cancelingTimers'
        BY Zenon, <2>1, <3>2 DEF CancelNoted
      <4> QED
        BY Zenon, <3>1, <4>1 DEF CancelNoted
  <2>12. SeqOK'
    <3>1. \A b \in Addrs : heap'[b].seq <= numCreated + 1
      <4> TAKE b \in Addrs
      <4>1. heap[b].seq \in Nat /\ heap[b].seq <= numCreated
        BY DEF SeqOK, TypeOK
      <4> QED
        <5>1. CASE b = a
          BY <1>0, <2>a, <5>1
        <5>2. CASE b # a
          <6>1. heap'[b] = heap[b]
            BY Zenon, <2>4, <5>2
          <6> QED
            BY <1>0, <4>1, <6>1
        <5> QED
          BY <5>1, <5>2
    <3>2. \A d \in cancelled : d[2] \in Nat /\ d[2] <= numCreated
      BY DEF SeqOK, TypeOK
    <3>3. \A d \in cancelled : d[2] <= numCreated + 1
      BY <1>0, <3>2
    <3> QED
      BY Zenon, <2>1, <3>1, <3>3 DEF SeqOK
  <2>13. ArmedInTime' /\ ArmedInBatch'
    BY Zenon, <2>1, SameTimerfd
  <2> QED
    BY <2>1, <2>6, <2>8, <2>10, <2>11, <2>12, <2>13
<1>2. ASSUME NEW id \in known, CancelFrom(t, id)
      PROVE  TimerInv'
  <2> DEFINE f == [op |-> "cancel", id |-> id]
  <2>1. /\ functors' = Append(functors, f)
        /\ UNCHANGED <<clock, heap, numCreated, timers, activeTimers,
                       cancelingTimers, timerfd, adding, known, cancelled>>
        /\ UNCHANGED <<pc, now, expired, toRun, callingExpiredTimers>>
    BY <1>2 DEF CancelFrom, queueVars, batchVars
  <2>2. f \in Functor /\ f.op # "add"
    BY Zenon, <1>0 DEF Functor
  <2> HIDE DEF f
  <2>3. /\ functors' \in Seq(Functor)
        /\ DOMAIN functors' = DOMAIN functors \cup {Len(functors) + 1}
        /\ \A i \in DOMAIN functors : functors'[i] = functors[i]
        /\ functors'[Len(functors) + 1] = f
    BY Zenon, <1>0, <2>1, <2>2, QueueAppended
  <2>4. TypeOK'
    BY Zenon, <2>1, <2>3 DEF TypeOK
  <2>5. TimersOK' /\ ActiveOK' /\ ExpiredOK' /\ SeqOK' /\ CancelStops'
        /\ ArmedInTime' /\ ArmedInBatch'
    BY Zenon, <2>1, SameQueue, SameTimerfd
  <2>6. \A i \in DOMAIN functors' : functors'[i].op = "add" =>
          i \in DOMAIN functors /\ functors'[i] = functors[i]
    BY Zenon, <2>2, <2>3
  <2>7. AddsOK'
    <3> DEFINE p == [i \in DOMAIN functors' |-> i]
    <3>1. \A i \in DOMAIN functors' : p[i] = i
      BY Zenon
    <3> HIDE DEF p
    <3>2. \A i \in DOMAIN functors' : functors'[i].op = "add" =>
            /\ p[i] \in DOMAIN functors
            /\ functors'[i] = functors[p[i]]
            /\ heap'[functors'[i].id[1]] = heap[functors'[i].id[1]]
            /\ functors'[i].id \in activeTimers' => functors'[i].id \in activeTimers
      BY Zenon, <2>1, <2>6, <3>1
    <3>3. /\ \A i, j \in DOMAIN functors' : p[i] = p[j] => i = j
          /\ expired' \subseteq expired
      BY Zenon, <2>1, <3>1
    <3> QED
      BY Zenon, <3>2, <3>3, FewerAdds
  <2>8. CancelNoted'
    <3>1. \A i \in DOMAIN functors' : functors'[i].op = "add" =>
            functors'[i].id \notin cancelled'
      BY Zenon, <2>1, <2>6 DEF CancelNoted
    <3>2. \A e \in expired' : IdAt(e[2])' \in cancelled' => IdAt(e[2])' \in cancelingTimers'
      BY Zenon, <2>1 DEF CancelNoted, IdAt
    <3> QED
      BY Zenon, <3>1, <3>2 DEF CancelNoted
  <2> QED
    BY Zenon, <2>1, <2>4, <2>5, <2>7, <2>8
<1>3. CASE AddTimerReturn(t)
  <2>1. /\ UNCHANGED <<clock, heap, numCreated, timers, activeTimers,
                       cancelingTimers, timerfd, functors, cancelled>>
        /\ UNCHANGED <<pc, now, expired, toRun, callingExpiredTimers>>
        /\ adding' = [adding EXCEPT ![t] = NoId]
        /\ adding[t] # NoId
    BY Zenon, <1>3 DEF AddTimerReturn, queueVars, batchVars
  <2>2. PICK seq \in 1 .. MaxSeq : known' = known \cup {<<adding[t][1], seq>>}
    BY Zenon, <1>3 DEF AddTimerReturn
  <2>3. adding[t] \in Addrs \X Nat
    BY <2>1 DEF TypeOK
  <2>4. known' \in SUBSET (Addrs \X Nat)
    BY <1>0, <2>2, <2>3
  <2>5. adding' \in [Threads -> (Addrs \X Nat) \cup {NoId}]
    BY <2>1 DEF TypeOK
  <2>6. TypeOK'
    BY Zenon, <2>1, <2>4, <2>5 DEF TypeOK
  <2>7. TimersOK' /\ ActiveOK' /\ ExpiredOK' /\ SeqOK' /\ CancelStops'
        /\ ArmedInTime' /\ ArmedInBatch' /\ AddsOK' /\ CancelNoted'
    BY Zenon, <2>1, SameQueue, SameFunctors, SameTimerfd
  <2> QED
    BY <2>1, <2>6, <2>7
<1> QED
  BY <1>1, <1>2, <1>3

\* Every step preserves the invariant.
LEMMA NextTimerInv == TimerInv /\ [Next]_vars => TimerInv'
<1> SUFFICES ASSUME TimerInv, [Next]_vars PROVE TimerInv'
  OBVIOUS
<1>1. CASE RunFunctor
  BY <1>1, RunFunctorPreserves
<1>2. CASE HandleRead
  BY <1>2, HandleReadPreserves
<1>3. CASE (\E e \in toRun : RunTimer(e)) \/ CallbackReturn \/ Tick
  BY <1>3, BatchStepPreserves
<1>4. CASE Reset
  BY <1>4, ResetPreserves
<1>5. CASE \E a \in Addrs, when \in Whens, interval \in Intervals :
             AddTimer(a, when, interval)
  BY <1>5, AddTimerPreserves
<1>6. CASE \E id \in known : Cancel(id)
  <2>1. PICK id \in known : Cancel(id)
    BY <1>6
  <2>2. id \in Addrs \X Nat
    BY DEF TimerInv, QueuesAgree, TypeOK
  <2>3. /\ CancelInLoop(id) /\ functors' = functors
        /\ UNCHANGED <<clock, numCreated, batchVars, timerfd, adding, known>>
    BY <2>1 DEF Cancel
  <2> QED
    BY <2>2, <2>3, CancelInLoopPreserves
<1>7. CASE \E t \in Threads :
             \/ \E a \in Addrs, when \in Whens, interval \in Intervals :
                  AddTimerFrom(t, a, when, interval)
             \/ \E id \in known : CancelFrom(t, id)
             \/ AddTimerReturn(t)
  BY <1>7, OtherThreadPreserves
<1>8. CASE UNCHANGED vars
  <2>1. UNCHANGED <<clock, heap, numCreated, timers, activeTimers, cancelingTimers, now,
                    expired, toRun, callingExpiredTimers, pc, timerfd, functors, adding,
                    known, cancelled>>
    BY Zenon, <1>8 DEF vars, queueVars, batchVars
  <2>2. TypeOK => TypeOK'
    BY Zenon, <2>1 DEF TypeOK
  <2> QED
    BY Zenon, <2>1, <2>2, SameQueue, SameFunctors, SameTimerfd DEF TimerInv, QueuesAgree
<1> QED
  BY <1>1, <1>2, <1>3, <1>4, <1>5, <1>6, <1>7, <1>8 DEF Next, LoopStep

\* For any number of threads and timers, timers_ and activeTimers_ hold the
\* same timers, and nothing in the queue, the batch or the functors points to
\* a deleted Timer.
THEOREM TimerQueueCorrect == Spec => []QueuesAgree
<1>1. TimerInv => QueuesAgree
  BY DEF TimerInv
<1> QED
  BY <1>1, InitTimerInv, NextTimerInv, PTL DEF Spec

\* A timer that cancelInLoop() has cancelled does not come back to the queue:
\* reset() does not put it back, whoever cancelled it while the batch ran.
THEOREM CancelledStaysOut == Spec => []CancelStops
<1>1. TimerInv => CancelStops
  BY DEF TimerInv
<1> QED
  BY <1>1, InitTimerInv, NextTimerInv, PTL DEF Spec

\* No timer is forgotten: whenever handleRead() is not running, the timerfd
\* is set in time for the earliest timer.
THEOREM NoForgottenTimer == Spec => []ArmedInTime
<1>1. TimerInv => ArmedInTime
  BY DEF TimerInv
<1> QED
  BY <1>1, InitTimerInv, NextTimerInv, PTL DEF Spec
=============================================================================
