--------------------------- MODULE CountDownLatch ---------------------------
(***************************************************************************)
(* muduo/base/CountDownLatch.{h,cc}, with the mutex and the condition that *)
(* it is made of: each operator is a critical section, and a thread that   *)
(* leaves condition_.wait() tests count_ again.                            *)
(***************************************************************************)
EXTENDS Integers

VARIABLES
  count,     \* count_
  blocked    \* the threads in condition_.wait()

latchVars == <<count, blocked>>

LatchInit(n) == count = n /\ blocked = {}

\* wait() finds that the count is not zero yet ...
WaitBlocks(t) ==
  /\ t \notin blocked
  /\ count > 0
  /\ blocked' = blocked \cup {t}
  /\ UNCHANGED count

\* wait() that does not test the count.
WaitReturnsAnyway(t) ==
  /\ t \notin blocked
  /\ UNCHANGED latchVars

\* ... or returns.
WaitReturns(t) ==
  /\ t \notin blocked
  /\ count <= 0
  /\ UNCHANGED latchVars

\* countDown().
CountDown ==
  /\ count' = count - 1
  /\ blocked' = IF count' = 0 THEN {} ELSE blocked

\* A wakeup nobody asked for.
SpuriousWakeup(t) ==
  /\ t \in blocked
  /\ blocked' = blocked \ {t}
  /\ UNCHANGED count
=============================================================================
