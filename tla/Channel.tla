------------------------------- MODULE Channel -------------------------------
(***************************************************************************)
(* muduo/net/Channel.{h,cc}: a descriptor and the events its owner is      *)
(* interested in.  A Channel does not own its descriptor: several Channel  *)
(* objects may have the same one in turn, as the Connector's and the       *)
(* TcpConnection's do.  The owners are those of the library: an object is  *)
(* destroyed only after remove() ("Remove the channel, when it             *)
(* destructs", Poller.h).                                                  *)
(*                                                                         *)
(* This module holds the state of the objects that is common to both       *)
(* pollers, and what the owners may ask for.                               *)
(***************************************************************************)
CONSTANTS
  Channels,     \* the Channel objects
  fdOf          \* their descriptors: fd_

VARIABLES
  live,         \* the objects that exist
  events        \* events_ of each object

Events == {"read", "write"}
Fds == {fdOf[c] : c \in Channels}

isNoneEvent(c) == events[c] = {}

\* What enableReading(), disableReading(), enableWriting(), disableWriting()
\* and disableAll() may make of events_.
Changed(c) ==
  {events[c] \cup {e} : e \in Events} \cup {events[c] \ {e} : e \in Events}
    \cup {{}}

ChannelTypeOK ==
  /\ live \in SUBSET Channels
  /\ events \in [Channels -> SUBSET Events]

\* No object exists yet.
ChannelInit ==
  /\ live = {}
  /\ events = [c \in Channels |-> {}]

\* The constructor.
Construct(c) ==
  /\ c \notin live
  /\ live' = live \cup {c}
  /\ events' = [events EXCEPT ![c] = {}]

\* One of the methods that change events_ and call update().
Change(c, ev) ==
  /\ c \in live
  /\ ev \in Changed(c)
  /\ events' = [events EXCEPT ![c] = ev]
  /\ UNCHANGED live

\* remove(), with its assertion, and then the destructor.
RemoveAndDestroy(c) ==
  /\ c \in live
  /\ isNoneEvent(c)
  /\ live' = live \ {c}
  /\ UNCHANGED events
=============================================================================
