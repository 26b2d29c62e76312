--------------------------- MODULE BlockingQueues ---------------------------
(***************************************************************************)
(* base/BlockingQueue.h and base/BoundedBlockingQueue.h: a deque, or a     *)
(* circular buffer of maxSize, under a mutex with one or two conditions.   *)
(* A critical section is one step; a wait gives the mutex up, and who is   *)
(* woken, by a notification or without one, looks at the queue again.      *)
(***************************************************************************)
EXTENDS Connections

CONSTANTS
  Producers, Consumers,
  maxSize,
  MaxPuts       \* bound: items, all producers together

\* Items are numbered as they are put; a thread is out, waiting or woken.
Init(kind) ==
  /\ ConnectionsInit
  /\ app = [kind |-> kind, items |-> <<>>, puts |-> 0, taken |-> <<>>,
            at |-> [t \in Producers \cup Consumers |-> "out"]]

empty == app.items = <<>>
full == app.kind = "bounded" /\ Len(app.items) = maxSize

Waiting(ts) == {t \in ts : app.at[t] = "waiting"}

\* notify(): one of those who wait, if there is one.
Notified(at, ts) ==
  IF Waiting(ts) = {} THEN {at} ELSE {[at EXCEPT ![t] = "woken"] : t \in Waiting(ts)}

Wait(t) == app' = [app EXCEPT !.at[t] = "waiting"]

\* put() that notifies only when the queue was empty.
putQuietly(t) ==
  /\ app.at[t] # "waiting" /\ app.puts < MaxPuts
  /\ \/ full /\ Wait(t)
     \/ /\ ~full
        /\ \E at \in IF empty THEN Notified([app.at EXCEPT ![t] = "out"], Consumers)
                     ELSE {[app.at EXCEPT ![t] = "out"]} :
             app' = [app EXCEPT !.puts = @ + 1, !.items = Append(@, app.puts + 1), !.at = at]

\* put(), from its start or from the wait on.
put(t) ==
  /\ app.at[t] # "waiting" /\ app.puts < MaxPuts
  /\ \/ full /\ Wait(t)
     \/ /\ ~full
        /\ \E at \in Notified([app.at EXCEPT ![t] = "out"], Consumers) :
             app' = [app EXCEPT !.puts = @ + 1, !.items = Append(@, app.puts + 1), !.at = at]

take(t) ==
  /\ app.at[t] # "waiting"
  /\ \/ empty /\ Wait(t)
     \/ /\ ~empty
        /\ \E at \in LET out == [app.at EXCEPT ![t] = "out"]
                     IN  IF app.kind = "bounded" THEN Notified(out, Producers) ELSE {out} :
             app' = [app EXCEPT !.items = Tail(@), !.taken = Append(@, Head(app.items)), !.at = at]

SpuriousWakeup(t) == app.at[t] = "waiting" /\ app' = [app EXCEPT !.at[t] = "woken"]

Next ==
  /\ \/ \E t \in Producers : put(t)
     \/ \E t \in Consumers : take(t)
     \/ \E t \in Producers \cup Consumers : SpuriousWakeup(t)
  /\ UNCHANGED <<conn, sent, queue>>

-----------------------------------------------------------------------------
Woken(ts) == Cardinality({t \in ts : app.at[t] = "woken"})

\* Items leave in the order they came, each of them once, and never more than
\* maxSize are inside; nobody sleeps in vain: while a consumer waits, every item
\* has a consumer who is awake to take it, and while a producer waits, every free
\* place has a producer who is awake to fill it.
NobodySleepsInVain ==
  /\ app.taken \o app.items = [n \in 1..app.puts |-> n]
  /\ app.kind = "bounded" => Len(app.items) <= maxSize
  /\ Waiting(Consumers) # {} => Len(app.items) <= Woken(Consumers)
  /\ Waiting(Producers) # {} => maxSize - Len(app.items) <= Woken(Producers)
=============================================================================
