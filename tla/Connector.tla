----------------------------- MODULE Connector ------------------------------
(***************************************************************************)
(* muduo/net/Connector.{h,cc}: connects a socket to a server, and tries    *)
(* again later when that fails.                                            *)
(*                                                                         *)
(* What the connector does in the thread of its loop is given by the       *)
(* operators below; a loop that calls them is in TcpClient.  s, c and      *)
(* delay stand for state_, connect_ and retryDelayMs_ at the time of a     *)
(* call, which may have just been assigned.                                *)
(***************************************************************************)
EXTENDS Naturals, Sequences

CONSTANTS kInitRetryDelayMs, kMaxRetryDelayMs

ASSUME DelayAssumption ==
  /\ kInitRetryDelayMs \in Nat /\ kMaxRetryDelayMs \in Nat
  /\ 0 < kInitRetryDelayMs /\ kInitRetryDelayMs <= kMaxRetryDelayMs

VARIABLES
  connect,          \* connect_
  state,            \* state_
  channel,          \* channel_: null, watched (by the poller), or removed from
                    \* the poller and waiting for resetChannel()
  retryDelayMs,     \* retryDelayMs_
  timers,           \* how many timers will call startInLoop()
  open,             \* how many sockets of the connector are open
  gaveUp,           \* has connect() met an error after which it gives up?
  aborted,          \* has an assertion failed?
  pendingFunctors   \* pendingFunctors_ of the loop

attempt == <<state, channel, retryDelayMs, timers, open, gaveUp, aborted>>

Functor(name, i) == [name |-> name, conn |-> i]
Queue(name, i) == pendingFunctors' = Append(pendingFunctors, Functor(name, i))

ConnectorInit ==
  /\ connect = FALSE
  /\ state = "kDisconnected"
  /\ channel = "null"
  /\ retryDelayMs = kInitRetryDelayMs
  /\ timers = 0
  /\ open = 0
  /\ gaveUp = FALSE
  /\ aborted = FALSE
  /\ pendingFunctors = <<>>

Abort ==
  /\ aborted' = TRUE
  /\ UNCHANGED <<state, channel, retryDelayMs, timers, open, gaveUp>>

Doubled(delay) == IF delay * 2 < kMaxRetryDelayMs THEN delay * 2 ELSE kMaxRetryDelayMs

\* retry() that forgets the timer.
RetryForgotten(c, delay) ==
  /\ state' = "kDisconnected"
  /\ timers' = timers
  /\ retryDelayMs' = delay

\* retry(); closing the socket is left to the caller.
Retry(c, delay) ==
  /\ state' = "kDisconnected"
  /\ timers' = IF c THEN timers + 1 ELSE timers
  /\ retryDelayMs' = IF c THEN Doubled(delay) ELSE delay

\* connect(), by what connect(2) says: the socket is connecting ...
Connecting(delay) ==
  \/ channel # "null" /\ Abort
  \/ /\ channel = "null"
     /\ state' = "kConnecting"
     /\ channel' = "watched"
     /\ open' = open + 1
     /\ retryDelayMs' = delay
     /\ UNCHANGED <<timers, gaveUp, aborted>>

\* ... or connecting failed, and may succeed later ...
ConnectFails(delay) ==
  /\ Retry(TRUE, delay)
  /\ UNCHANGED <<channel, open, gaveUp, aborted>>

\* ... or it cannot succeed.
GiveUp(s, delay) ==
  /\ gaveUp' = TRUE
  /\ state' = s
  /\ retryDelayMs' = delay
  /\ UNCHANGED <<channel, timers, open, aborted>>

\* startInLoop().
StartInLoop(s, c, delay) ==
  \/ s # "kDisconnected" /\ Abort
  \/ /\ s = "kDisconnected"
     /\ c
     /\ Connecting(delay) \/ ConnectFails(delay) \/ GiveUp(s, delay)
  \/ /\ s = "kDisconnected"
     /\ ~c
     /\ state' = s
     /\ retryDelayMs' = delay
     /\ UNCHANGED <<channel, timers, open, gaveUp, aborted>>

\* removeAndResetChannel() that never resets.
ResetNever == channel' = "removed" /\ UNCHANGED pendingFunctors

\* removeAndResetChannel(): the channel leaves the poller, and is reset when
\* the handlers of this iteration have returned.
RemoveAndResetChannel == channel' = "removed" /\ Queue("resetChannel", 0)

\* stopInLoop() that leaves the socket open.
StopLeaks(c) ==
  \/ /\ state = "kConnecting"
     /\ RemoveAndResetChannel
     /\ Retry(c, retryDelayMs)
     /\ UNCHANGED <<open, gaveUp, aborted>>
  \/ state # "kConnecting" /\ UNCHANGED <<attempt, pendingFunctors>>

\* stopInLoop().
StopInLoop(c) ==
  \/ /\ state = "kConnecting"
     /\ RemoveAndResetChannel
     /\ Retry(c, retryDelayMs)
     /\ open' = open - 1
     /\ UNCHANGED <<gaveUp, aborted>>
  \/ state # "kConnecting" /\ UNCHANGED <<attempt, pendingFunctors>>

\* handleError(), and handleWrite() when SO_ERROR is set or the socket is
\* connected to itself.  (An event that reports an error calls both:
\* handleWrite() then finds kDisconnected and does nothing.)
ConnectionFailed ==
  /\ state = "kConnecting"
  /\ RemoveAndResetChannel
  /\ Retry(connect, retryDelayMs)
  /\ open' = open - 1
  /\ UNCHANGED <<gaveUp, aborted>>

\* handleWrite() of a socket that is connected: it is closed when stop() came
\* first, and handed to newConnectionCallback_ otherwise.
Connected ==
  /\ state = "kConnecting"
  /\ RemoveAndResetChannel
  /\ state' = "kConnected"
  /\ open' = IF connect THEN open ELSE open - 1
  /\ UNCHANGED <<retryDelayMs, timers, gaveUp, aborted>>

\* resetChannel().
ResetChannel ==
  /\ channel' = "null"
  /\ UNCHANGED <<state, retryDelayMs, timers, open, gaveUp, aborted>>

\* restart().
Restart ==
  /\ connect' = TRUE
  /\ StartInLoop("kDisconnected", TRUE, kInitRetryDelayMs)
=============================================================================
