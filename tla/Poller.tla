------------------------------- MODULE Poller -------------------------------
(***************************************************************************)
(* muduo/net/Poller.h: what EventLoop and Channel expect of any poller.    *)
(* updateChannel() makes the kernel watch a channel for exactly the events *)
(* the channel is interested in, removeChannel() forgets a channel that    *)
(* is interested in nothing, and poll() reports registered channels only.  *)
(***************************************************************************)
CONSTANTS
  Channels,
  Events        \* the kinds of events a channel may be interested in

VARIABLES
  registered,   \* the channels the poller knows
  events,       \* the events each channel is interested in: events_
  watched,      \* what the kernel watches each channel for
  active        \* activeChannels, as poll() last filled it

vars == <<registered, events, watched, active>>

Init ==
  /\ registered = {}
  /\ events = [c \in Channels |-> {}]
  /\ watched = [c \in Channels |-> {}]
  /\ active = {}

\* The channel c is now interested in ev, and calls updateChannel().
UpdateChannel(c, ev) ==
  /\ events' = [events EXCEPT ![c] = ev]
  /\ registered' = registered \cup {c}
  /\ watched' = [watched EXCEPT ![c] = ev]
  /\ UNCHANGED active

RemoveChannel(c) ==
  /\ c \in registered
  /\ events[c] = {}
  /\ watched' = [watched EXCEPT ![c] = {}]
  /\ registered' = registered \ {c}
  /\ UNCHANGED <<events, active>>

Poll ==
  /\ active' \in SUBSET registered
  /\ UNCHANGED <<registered, events, watched>>

Next ==
  \/ \E c \in Channels :
       \/ \E ev \in SUBSET Events : UpdateChannel(c, ev)
       \/ RemoveChannel(c)
  \/ Poll

Spec == Init /\ [][Next]_vars
=============================================================================
