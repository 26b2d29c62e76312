----------------------------- MODULE PollPoller -----------------------------
(***************************************************************************)
(* muduo/net/poller/PollPoller.{h,cc}, the poller chosen by                *)
(* MUDUO_USE_POLL.  pollfds_ is the array given to poll(2); index_ of a    *)
(* channel is its place in it, so that removeChannel(), which fills the    *)
(* hole with the last entry, must also correct the index of the channel    *)
(* that moved.  The entry of a channel that is interested in nothing has   *)
(* -fd-1 for its descriptor, which poll(2) ignores.                        *)
(***************************************************************************)
EXTENDS Channel, Integers, Sequences

CONSTANT NoChannel   \* NULL

VARIABLES
  index,       \* index_ of each channel
  channels,    \* channels_, NoChannel where the map has no entry
  pollfds,     \* pollfds_
  active       \* activeChannels as poll() last filled it

vars == <<live, events, index, channels, pollfds, active>>

PollFd == [fd : Int, events : SUBSET Events]
Ignored(fd) == -fd - 1

TypeOK ==
  /\ ChannelTypeOK
  /\ index \in [Channels -> Int]
  /\ channels \in [Fds -> Channels \cup {NoChannel}]
  /\ pollfds \in Seq(PollFd)
  /\ active \in SUBSET Channels

Init ==
  /\ ChannelInit
  /\ index = [c \in Channels |-> -1]
  /\ channels = [fd \in Fds |-> NoChannel]
  /\ pollfds = <<>>
  /\ active = {}

\* A channel is created, with an index_ of -1.
Create(c) ==
  /\ Construct(c)
  /\ index' = [index EXCEPT ![c] = -1]
  /\ UNCHANGED <<channels, pollfds, active>>

\* updateChannel() for a channel that has no entry.
UpdateNew(c, ev) ==
  /\ index[c] < 0
  /\ channels[fdOf[c]] = NoChannel
  /\ pollfds' = Append(pollfds, [fd |-> fdOf[c], events |-> ev])
  /\ index' = [index EXCEPT ![c] = Len(pollfds)]
  /\ channels' = [channels EXCEPT ![fdOf[c]] = c]

\* updateChannel() for one that has.
UpdateExisting(c, ev) ==
  /\ index[c] >= 0
  /\ pollfds' =
       [pollfds EXCEPT
          ![index[c] + 1] =
             [fd |-> IF ev = {} THEN Ignored(fdOf[c]) ELSE @.fd,
              events |-> ev]]
  /\ UNCHANGED <<index, channels>>

\* Channel::enableReading() and the like, down to updateChannel().
UpdateChannel(c, ev) ==
  /\ Change(c, ev)
  /\ UpdateNew(c, ev) \/ UpdateExisting(c, ev)
  /\ UNCHANGED active

Last == pollfds[Len(pollfds)]
DropLast(s) == SubSeq(s, 1, Len(s) - 1)

\* The descriptor of an entry, ignored or not.
EntryFd(entry) == IF entry.fd < 0 THEN Ignored(entry.fd) ELSE entry.fd

\* removeChannel() that forgets the index of the channel that moved.
RemoveChannelStaleIndex(c) ==
  /\ RemoveAndDestroy(c)
  /\ channels[fdOf[c]] = c
  /\ channels' = [channels EXCEPT ![fdOf[c]] = NoChannel]
  /\ pollfds' = DropLast([pollfds EXCEPT ![index[c] + 1] = Last])
  /\ UNCHANGED <<index, active>>

\* Channel::remove(), down to removeChannel(); the channel is then destroyed.
\* The map entry of c is erased before the moved channel is looked up.
RemoveChannel(c) ==
  /\ RemoveAndDestroy(c)
  /\ channels[fdOf[c]] = c
  /\ channels' = [channels EXCEPT ![fdOf[c]] = NoChannel]
  /\ \/ /\ index[c] = Len(pollfds) - 1
        /\ pollfds' = DropLast(pollfds)
        /\ UNCHANGED index
     \/ /\ index[c] # Len(pollfds) - 1
        /\ pollfds' = DropLast([pollfds EXCEPT ![index[c] + 1] = Last])
        /\ index' = [index EXCEPT ![channels'[EntryFd(Last)]] = index[c]]
  /\ UNCHANGED active

\* The channels of the entries that poll(2) looks at.
Polled ==
  {channels[pollfds[i].fd] :
     i \in {j \in DOMAIN pollfds : pollfds[j].fd >= 0}}

\* poll() and fillActiveChannels().
Poll ==
  /\ active' \in SUBSET Polled
  /\ UNCHANGED <<live, events, index, channels, pollfds>>

Next ==
  \/ \E c \in Channels :
       \/ Create(c)
       \/ \E ev \in SUBSET Events : UpdateChannel(c, ev)
       \/ RemoveChannel(c)
  \/ Poll

Spec == Init /\ [][Next]_vars

-----------------------------------------------------------------------------
registered == {channels[fd] : fd \in Fds} \ {NoChannel}

\* The array, the map and the indexes agree: the channels of the map have an
\* entry each, at their index, with their descriptor (plain or ignored) and
\* their interest, and the array has no other entries.  So the assertions
\* on channels_, index() and pollfds_[idx] hold.
IndexInv ==
  /\ TypeOK
  /\ \A fd \in Fds : channels[fd] # NoChannel => fdOf[channels[fd]] = fd
  /\ registered \subseteq live
  /\ \A c \in live \ registered : index[c] = -1
  /\ \A c \in registered :
       /\ index[c] + 1 \in DOMAIN pollfds
       /\ EntryFd(pollfds[index[c] + 1]) = fdOf[c]
       /\ pollfds[index[c] + 1].events = events[c]
  /\ \A i \in DOMAIN pollfds :
       \E c \in registered : index[c] + 1 = i

\* poll() reports only channels that exist and are registered, so that the
\* map lookup of fillActiveChannels() succeeds.
PolledAreLive == Polled \subseteq live

\* A channel with no interest is not reported: the entry of a channel that
\* removeChannel() may be called for has the ignored descriptor.  This is
\* the assertion of removeChannel().
RemovedIsIgnored ==
  \A c \in registered :
    events[c] = {} => pollfds[index[c] + 1] =
                        [fd |-> Ignored(fdOf[c]), events |-> events[c]]

\* PollPoller is a Poller: updateChannel() makes poll(2) watch the channel
\* for the events it is interested in.
watched ==
  [c \in Channels |->
     IF /\ c \in registered
        /\ pollfds[index[c] + 1].fd = fdOf[c]
       THEN pollfds[index[c] + 1].events ELSE {}]

P == INSTANCE Poller
ImplementsPoller == P!Spec
=============================================================================
