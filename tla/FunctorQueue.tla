---------------------------- MODULE FunctorQueue ----------------------------
(***************************************************************************)
(* What EventLoop promises to the threads that hand it work: a functor     *)
(* given to queueInLoop() (or to runInLoop() by another thread) waits in   *)
(* one FIFO queue until the loop thread executes it, exactly once; a       *)
(* functor given to runInLoop() by the loop thread itself is executed      *)
(* within the call.  There are no batches, no eventfd and no poller here:  *)
(* EventLoop.tla shows that the code implements this.                      *)
(***************************************************************************)
EXTENDS Sequences

CONSTANT Functors   \* the functors, each one submitted at most once

VARIABLES
  queue,            \* functors accepted and not executed yet, oldest first
  done              \* functors executed

vars == <<queue, done>>

Queued == {queue[i] : i \in DOMAIN queue}

TypeOK ==
  /\ queue \in Seq(Functors)
  /\ done \in SUBSET Functors

Init ==
  /\ queue = <<>>
  /\ done = {}

\* queueInLoop(f) is called, in any thread.
Enqueue(f) ==
  /\ f \notin Queued \cup done
  /\ queue' = Append(queue, f)
  /\ UNCHANGED done

\* The loop thread executes the oldest functor.
Execute ==
  /\ queue # <<>>
  /\ done' = done \cup {Head(queue)}
  /\ queue' = Tail(queue)

\* runInLoop(f) is called in the loop thread.
RunInline(f) ==
  /\ f \notin Queued \cup done
  /\ done' = done \cup {f}
  /\ UNCHANGED queue

Next ==
  \/ \E f \in Functors : Enqueue(f) \/ RunInline(f)
  \/ Execute

Spec == Init /\ [][Next]_vars
=============================================================================
