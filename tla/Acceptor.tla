------------------------------ MODULE Acceptor ------------------------------
(***************************************************************************)
(* net/Acceptor.cc: handleRead() when no descriptor may be left.  The      *)
(* acceptor then gives up idleFd_, accepts, closes and opens it again, a   *)
(* system call at a time, while other threads open and close descriptors   *)
(* and clients come and go.  TcpServer.tla has what the new connections do.*)
(***************************************************************************)
EXTENDS Connections

CONSTANTS
  MaxFd,        \* the descriptors of the process that are not in use for good
  MaxClients    \* bound: clients that connect

\* fds has the owner of a descriptor, pending the clients that wait; others is
\* how many descriptors the other threads have, and taken whether one of them got
\* a descriptor while the acceptor had given up its own.
Init ==
  /\ ConnectionsInit
  /\ app = [fds |-> [fd \in 0..MaxFd - 1 |-> IF fd = 0 THEN "idle" ELSE "free"],
            idleFd |-> 0, pc |-> "poll", pending |-> 0, clients |-> 0,
            others |-> 0, taken |-> FALSE]

\* The lowest descriptor that is free, as the system gives it; -1 with EMFILE.
NewFd ==
  LET free == {fd \in DOMAIN app.fds : app.fds[fd] = "free"}
  IN  IF free = {} THEN -1 ELSE Min(free)

\* close() of whatever has this number, and a descriptor in use.
Close(fd) == [n \in DOMAIN app.fds |-> IF n = fd THEN "free" ELSE app.fds[n]]
Use(fd, owner) == [n \in DOMAIN app.fds |-> IF n = fd THEN owner ELSE app.fds[n]]

\* The listening socket is readable: handleRead() is called.
Poll == app.pc = "poll" /\ app.pending > 0 /\ app' = [app EXCEPT !.pc = "accept"]

\* accept(): the descriptor first, then the client, who may be gone (EAGAIN).
Accept ==
  /\ app.pc = "accept"
  /\ app' = IF NewFd = -1 THEN [app EXCEPT !.pc = "close"]
            ELSE IF app.pending = 0 THEN [app EXCEPT !.pc = "poll"]
            ELSE [app EXCEPT !.fds = Use(NewFd, "conn"), !.pending = @ - 1, !.pc = "poll"]

CloseIdle ==
  /\ app.pc = "close"
  /\ app' = [app EXCEPT !.fds = Close(app.idleFd), !.pc = "accept again"]

\* accept() whose result is not kept.
AcceptAndForget ==
  /\ app.pc = "accept again"
  /\ app' = IF NewFd = -1 \/ app.pending = 0 THEN [app EXCEPT !.pc = "close again"]
            ELSE [app EXCEPT !.fds = Use(NewFd, "idle"), !.pending = @ - 1, !.pc = "close again"]

AcceptInIdle ==
  /\ app.pc = "accept again"
  /\ app' = IF NewFd = -1 \/ app.pending = 0
            THEN [app EXCEPT !.idleFd = -1, !.pc = "close again"]
            ELSE [app EXCEPT !.idleFd = NewFd, !.fds = Use(NewFd, "idle"),
                             !.pending = @ - 1, !.pc = "close again"]

CloseAgain ==
  /\ app.pc = "close again"
  /\ app' = [app EXCEPT !.fds = Close(app.idleFd), !.pc = "open"]

OpenIdle ==
  /\ app.pc = "open"
  /\ app' = [app EXCEPT !.idleFd = NewFd, !.fds = Use(NewFd, "idle"), !.pc = "poll"]

\* The process around it: clients, connections that are closed, other threads.
Connect ==
  /\ app.clients < MaxClients
  /\ app' = [app EXCEPT !.clients = @ + 1, !.pending = @ + 1]
GiveUp == app.pending > 0 /\ app' = [app EXCEPT !.pending = @ - 1]
ConnectionCloses ==
  \E fd \in DOMAIN app.fds : app.fds[fd] = "conn" /\ app' = [app EXCEPT !.fds = Close(fd)]
OtherOpens ==
  /\ NewFd # -1
  /\ app' = [app EXCEPT !.fds = Use(NewFd, "other"), !.others = @ + 1,
                        !.taken = @ \/ app.pc \notin {"poll", "accept"}]
OtherCloses ==
  \E fd \in DOMAIN app.fds :
    app.fds[fd] = "other" /\ app' = [app EXCEPT !.fds = Close(fd), !.others = @ - 1]

Next ==
  /\ \/ Poll \/ Accept \/ CloseIdle \/ AcceptInIdle \/ CloseAgain \/ OpenIdle
     \/ Connect \/ GiveUp \/ ConnectionCloses \/ OtherOpens \/ OtherCloses
  /\ UNCHANGED <<conn, sent, queue>>

-----------------------------------------------------------------------------
\* handleRead() closes no descriptor but its own and leaks none, whatever the
\* other threads do in between; and it has a descriptor in reserve again when it
\* is done, unless another thread took the one it had given up.
IdleFdIsOwn ==
  LET Of(owner) == {fd \in DOMAIN app.fds : app.fds[fd] = owner}
  IN  /\ Cardinality(Of("other")) = app.others
      /\ app.pc \in {"poll", "accept", "close", "close again"} =>
           Of("idle") = {app.idleFd} \ {-1}
      /\ app.pc \in {"accept again", "open"} => Of("idle") = {}
      /\ app.pc = "poll" /\ app.idleFd = -1 => app.taken
=============================================================================
