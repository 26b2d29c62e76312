----------------------------- MODULE EPollPoller -----------------------------
(***************************************************************************)
(* muduo/net/poller/EPollPoller.{h,cc}.  The poller keeps a map from       *)
(* descriptors to channels, each channel carries an index that says        *)
(* whether the kernel's interest list has it, and the kernel holds raw     *)
(* pointers to channels.  Three views of one thing, which poll(),          *)
(* updateChannel() and removeChannel() must keep in step: a wrong index    *)
(* makes epoll_ctl() fail, which is fatal for ADD and MOD, and a pointer   *)
(* left behind in the kernel is one to a destroyed channel.                *)
(***************************************************************************)
EXTENDS Channel, Naturals, FiniteSets

CONSTANTS
  NoChannel,           \* NULL
  InitEventListSize    \* kInitEventListSize

ASSUME EPollAssumption ==
  /\ fdOf \in [Channels -> Fds]
  /\ IsFiniteSet(Fds)
  /\ NoChannel \notin Channels
  /\ InitEventListSize \in Nat \ {0}

VARIABLES
  index,         \* index_ of each channel
  channels,      \* channels_, NoChannel where the map has no entry
  epollPtr,      \* the interest list: data.ptr, NoChannel for no entry
  epollEvents,   \* the interest list: events
  eventListSize, \* events_.size()
  ctlError,      \* the worst an epoll_ctl() call has come to
  active,        \* EventLoop's activeChannels_
  toHandle,      \* the part of it that loop() has not come to yet
  current        \* EventLoop's currentActiveChannel_

Indexes == {"kNew", "kAdded", "kDeleted"}

kernel == <<epollPtr, epollEvents, ctlError>>
loop == <<active, toHandle, current>>
vars == <<live, events, index, channels, kernel, eventListSize, loop>>

TypeOK ==
  /\ ChannelTypeOK
  /\ index \in [Channels -> Indexes]
  /\ channels \in [Fds -> Channels \cup {NoChannel}]
  /\ epollPtr \in [Fds -> Channels \cup {NoChannel}]
  /\ epollEvents \in [Fds -> SUBSET Events]
  /\ eventListSize \in Nat \ {0}
  /\ ctlError \in {"none", "logged", "fatal"}
  /\ active \in SUBSET Channels
  /\ toHandle \in SUBSET active
  /\ current \in Channels \cup {NoChannel}

Init ==
  /\ ChannelInit
  /\ index = [c \in Channels |-> "kNew"]
  /\ channels = [fd \in Fds |-> NoChannel]
  /\ epollPtr = [fd \in Fds |-> NoChannel]
  /\ epollEvents = [fd \in Fds |-> {}]
  /\ eventListSize = InitEventListSize
  /\ ctlError = "none"
  /\ active = {}
  /\ toHandle = {}
  /\ current = NoChannel

\* update(operation, channel): epoll_ctl().  It fails with EEXIST when ADD
\* finds the descriptor, with ENOENT when MOD or DEL does not.
Update(operation, c, ev) ==
  LET fd == fdOf[c]
      ok == (operation = "ADD") <=> (epollPtr[fd] = NoChannel)
  IN  \/ /\ ok
         /\ epollPtr' =
              [epollPtr EXCEPT ![fd] = IF operation = "DEL" THEN NoChannel
                                                            ELSE c]
         /\ epollEvents' =
              [epollEvents EXCEPT ![fd] = IF operation = "DEL" THEN {} ELSE ev]
         /\ UNCHANGED ctlError
      \/ /\ ~ok
         /\ ctlError' = IF operation = "DEL" /\ ctlError # "fatal"
                          THEN "logged" ELSE "fatal"
         /\ UNCHANGED <<epollPtr, epollEvents>>

\* A channel is created.  Its index_ is -1, which is kNew.
Create(c) ==
  /\ Construct(c)
  /\ index' = [index EXCEPT ![c] = "kNew"]
  /\ UNCHANGED <<channels, kernel, eventListSize, loop>>

\* updateChannel() for an index of kNew.  The owners never register two
\* channels for one descriptor: that is the assertion of line 129.
UpdateNew(c, ev) ==
  /\ index[c] = "kNew"
  /\ channels[fdOf[c]] = NoChannel
  /\ channels' = [channels EXCEPT ![fdOf[c]] = c]
  /\ index' = [index EXCEPT ![c] = "kAdded"]
  /\ Update("ADD", c, ev)

\* updateChannel() for kDeleted, with MOD.
UpdateDeletedMod(c, ev) ==
  /\ index[c] = "kDeleted"
  /\ index' = [index EXCEPT ![c] = "kAdded"]
  /\ Update("MOD", c, ev)
  /\ UNCHANGED channels

\* updateChannel() for kDeleted.
UpdateDeleted(c, ev) ==
  /\ index[c] = "kDeleted"
  /\ index' = [index EXCEPT ![c] = "kAdded"]
  /\ Update("ADD", c, ev)
  /\ UNCHANGED channels

\* updateChannel() for kAdded, with DEL that leaves the index at kAdded.
UpdateAddedIndexKept(c, ev) ==
  /\ index[c] = "kAdded"
  /\ Update(IF ev = {} THEN "DEL" ELSE "MOD", c, ev)
  /\ UNCHANGED <<index, channels>>

\* updateChannel() for kAdded.
UpdateAdded(c, ev) ==
  /\ index[c] = "kAdded"
  /\ \/ /\ ev = {}
        /\ Update("DEL", c, ev)
        /\ index' = [index EXCEPT ![c] = "kDeleted"]
     \/ /\ ev # {}
        /\ Update("MOD", c, ev)
        /\ UNCHANGED index
  /\ UNCHANGED channels

\* Channel::enableReading() and the like, down to updateChannel().
UpdateChannel(c, ev) ==
  /\ Change(c, ev)
  /\ UpdateNew(c, ev) \/ UpdateDeleted(c, ev) \/ UpdateAdded(c, ev)
  /\ UNCHANGED <<eventListSize, loop>>

\* EventLoop::removeChannel() asserts, while loop() is calling the handlers,
\* that the channel is the one being handled or was not reported at all.
eventHandling == toHandle # {} \/ current # NoChannel
MayRemove(c) == eventHandling => (c = current \/ c \notin active)

\* removeChannel() that leaves the kernel alone, whatever the index.
RemoveChannelNoDel(c) ==
  /\ RemoveAndDestroy(c)
  /\ MayRemove(c)
  /\ channels[fdOf[c]] = c
  /\ channels' = [channels EXCEPT ![fdOf[c]] = NoChannel]
  /\ index' = [index EXCEPT ![c] = "kNew"]
  /\ UNCHANGED <<kernel, eventListSize, loop>>

\* Channel::remove(), down to removeChannel(); the channel is then destroyed.
RemoveChannel(c) ==
  /\ RemoveAndDestroy(c)
  /\ MayRemove(c)
  /\ channels[fdOf[c]] = c
  /\ channels' = [channels EXCEPT ![fdOf[c]] = NoChannel]
  /\ \/ /\ index[c] = "kAdded"
        /\ Update("DEL", c, {})
     \/ /\ index[c] # "kAdded"
        /\ UNCHANGED kernel
  /\ index' = [index EXCEPT ![c] = "kNew"]
  /\ UNCHANGED <<eventListSize, loop>>

\* What epoll_wait() may report: at most events_.size() entries of the
\* interest list, any of them (one without events still reports EPOLLHUP
\* and EPOLLERR).
Reports ==
  {r \in SUBSET ({epollPtr[fd] : fd \in Fds} \ {NoChannel}) :
     Cardinality(r) <= eventListSize}

\* poll() and fillActiveChannels(): a full events_ is doubled.
Poll(reported) ==
  /\ ~eventHandling
  /\ active' = reported
  /\ toHandle' = reported
  /\ eventListSize' = IF Cardinality(reported) = eventListSize
                        THEN 2 * eventListSize ELSE eventListSize
  /\ UNCHANGED <<live, events, index, channels, kernel, current>>

\* loop() comes to the next active channel.
HandleEvent(c) ==
  /\ c \in toHandle
  /\ toHandle' = toHandle \ {c}
  /\ current' = c
  /\ UNCHANGED <<live, events, index, channels, kernel, eventListSize, active>>

HandlingDone ==
  /\ current # NoChannel
  /\ toHandle = {}
  /\ current' = NoChannel
  /\ UNCHANGED <<live, events, index, channels, kernel, eventListSize, active,
                 toHandle>>

Next ==
  \/ \E c \in Channels :
       \/ Create(c)
       \/ \E ev \in SUBSET Events : UpdateChannel(c, ev)
       \/ RemoveChannel(c)
       \/ HandleEvent(c)
  \/ \E reported \in Reports : Poll(reported)
  \/ HandlingDone

Spec == Init /\ [][Next]_vars

-----------------------------------------------------------------------------
\* The three views agree: the map has exactly the channels whose index is
\* not kNew, each under its own descriptor; the kernel has exactly those of
\* kAdded, with the channel's own interest; a channel of kDeleted is
\* interested in nothing.  So the assertions of updateChannel(),
\* removeChannel() and fillActiveChannels() hold.
IndexInv ==
  /\ TypeOK
  /\ \A c \in Channels :
       /\ index[c] # "kNew" <=> channels[fdOf[c]] = c
       /\ index[c] # "kNew" => c \in live
       /\ index[c] = "kAdded" <=> epollPtr[fdOf[c]] = c
       /\ index[c] = "kAdded" => epollEvents[fdOf[c]] = events[c]
       /\ index[c] # "kAdded" => events[c] = {}
  /\ \A fd \in Fds :
       /\ channels[fd] # NoChannel => fdOf[channels[fd]] = fd
       /\ epollPtr[fd] # NoChannel => fdOf[epollPtr[fd]] = fd
  /\ \A c \in toHandle : channels[fdOf[c]] = c
  /\ current \notin toHandle
  /\ ctlError = "none"

\* No pointer to a destroyed channel is ever followed: neither the kernel
\* nor the part of activeChannels_ that loop() will come to has one.
PointsToLive ==
  /\ \A fd \in Fds : epollPtr[fd] \in live \cup {NoChannel}
  /\ toHandle \subseteq live

\* EPollPoller is a Poller.
watched ==
  [c \in Channels |->
     IF epollPtr[fdOf[c]] = c THEN epollEvents[fdOf[c]] ELSE {}]
registered == {c \in Channels : index[c] # "kNew"}

P == INSTANCE Poller
ImplementsPoller == P!Spec
=============================================================================
