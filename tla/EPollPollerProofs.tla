-------------------------- MODULE EPollPollerProofs --------------------------
(***************************************************************************)
(* Proofs about the pollers, for any channels and descriptors: EPollPoller *)
(* first, then PollPoller, as a loop whose poller DefaultPoller chose has  *)
(* it.                                                                     *)
(***************************************************************************)
EXTENDS DefaultPoller, Integers, Sequences, SequenceTheorems, TLAPS

\* The empty poller of EPollPoller::EPollPoller() satisfies the invariant.
LEMMA InitEPollInv == Init => IndexInv
  BY ZenonT(30), EPollAssumption
     DEF Init, IndexInv, TypeOK, ChannelTypeOK,
         ChannelInit, Indexes, Fds

\* updateChannel() keeps the map, the indexes and the kernel in step, so
\* epoll_ctl() is never called with an operation that fails.
LEMMA UpdateKeepsInv ==
  ASSUME IndexInv, NEW c \in Channels, NEW ev \in SUBSET Events,
         UpdateChannel(c, ev)
  PROVE  IndexInv'
<1> USE EPollAssumption DEF IndexInv, TypeOK,
        ChannelTypeOK, Indexes, UpdateChannel, Change, Update, loop
<1>0. fdOf[c] \in Fds
  BY DEF Fds
<1>1. CASE UpdateNew(c, ev)
  BY <1>0, <1>1 DEF UpdateNew
<1>2. CASE UpdateDeleted(c, ev)
  BY <1>0, <1>2 DEF UpdateDeleted
<1>3. CASE UpdateAdded(c, ev)
  <2>1. epollPtr[fdOf[c]] = c /\ channels[fdOf[c]] = c /\ c # NoChannel
    BY <1>3 DEF UpdateAdded
  <2>2. CASE ev = {}
    <3>1. /\ epollPtr' = [epollPtr EXCEPT ![fdOf[c]] = NoChannel]
          /\ epollEvents' = [epollEvents EXCEPT ![fdOf[c]] = {}]
          /\ index' = [index EXCEPT ![c] = "kDeleted"]
          /\ ctlError' = ctlError
      BY <1>3, <2>1, <2>2 DEF UpdateAdded
    <3> QED
      BY <1>0, <1>3, <2>1, <2>2, <3>1 DEF UpdateAdded
  <2>3. CASE ev # {}
    <3>1. /\ epollPtr' = [epollPtr EXCEPT ![fdOf[c]] = c]
          /\ epollEvents' = [epollEvents EXCEPT ![fdOf[c]] = ev]
          /\ UNCHANGED <<index, ctlError>>
      BY <1>3, <2>1, <2>3 DEF UpdateAdded
    <3> QED
      BY <1>0, <1>3, <2>1, <2>3, <3>1 DEF UpdateAdded
  <2> QED
    BY <2>2, <2>3
<1> QED
  BY <1>1, <1>2, <1>3

\* removeChannel() leaves no trace of the channel that is then destroyed.
LEMMA RemoveKeepsInv ==
  ASSUME IndexInv, NEW c \in Channels, RemoveChannel(c)
  PROVE  IndexInv'
<1> USE EPollAssumption DEF IndexInv, TypeOK,
        ChannelTypeOK, Indexes, RemoveChannel, RemoveAndDestroy, isNoneEvent,
        kernel, loop
<1>0. fdOf[c] \in Fds
  BY DEF Fds
<1>1. /\ epollPtr' = [epollPtr EXCEPT ![fdOf[c]] = NoChannel]
      /\ epollEvents' \in [Fds -> SUBSET Events]
      /\ \A fd \in Fds \ {fdOf[c]} : epollEvents'[fd] = epollEvents[fd]
      /\ ctlError' = ctlError
  <2>1. CASE index[c] = "kAdded"
    BY <1>0, <2>1 DEF Update
  <2>2. CASE index[c] # "kAdded"
    <3>1. epollPtr[fdOf[c]] = NoChannel
      BY <1>0, <2>2
    <3> QED
      BY <1>0, <2>2, <3>1
  <2> QED
    BY <2>1, <2>2
<1>2. c \notin toHandle
  BY DEF MayRemove, eventHandling
<1>3. \A d \in Channels \ {c} : fdOf[d] = fdOf[c] => index[d] = "kNew"
  OBVIOUS
<1>4. TypeOK'
  BY <1>0, <1>1
<1>5. (\A d \in Channels :
         /\ index[d] # "kNew" <=> channels[fdOf[d]] = d
         /\ index[d] # "kNew" => d \in live
         /\ index[d] = "kAdded" <=> epollPtr[fdOf[d]] = d
         /\ index[d] = "kAdded" => epollEvents[fdOf[d]] = events[d]
         /\ index[d] # "kAdded" => events[d] = {})'
  <2> SUFFICES ASSUME NEW d \in Channels
               PROVE  (/\ index[d] # "kNew" <=> channels[fdOf[d]] = d
                       /\ index[d] # "kNew" => d \in live
                       /\ index[d] = "kAdded" <=> epollPtr[fdOf[d]] = d
                       /\ index[d] = "kAdded" => epollEvents[fdOf[d]] = events[d]
                       /\ index[d] # "kAdded" => events[d] = {})'
    OBVIOUS
  <2>0. fdOf[d] \in Fds
    BY ZenonT(30) DEF Fds
  <2>1. CASE d = c
    BY <1>0, <1>1, <2>1
  <2>2. CASE d # c /\ fdOf[d] = fdOf[c]
    BY <1>0, <1>1, <1>3, <2>2
  <2>3. CASE fdOf[d] # fdOf[c]
    BY <1>0, <1>1, <2>0, <2>3
  <2> QED
    BY <2>1, <2>2, <2>3
<1>6. (\A fd \in Fds :
         /\ channels[fd] # NoChannel => fdOf[channels[fd]] = fd
         /\ epollPtr[fd] # NoChannel => fdOf[epollPtr[fd]] = fd)'
  BY <1>0, <1>1
<1>7. (\A d \in toHandle : channels[fdOf[d]] = d)' /\ (current \notin toHandle)'
  <2>1. ASSUME NEW d \in toHandle PROVE fdOf[d] # fdOf[c] /\ fdOf[d] \in Fds
    <3>1. d \in Channels /\ d # c /\ channels[fdOf[d]] = d
      BY <1>2
    <3> QED
      BY ZenonT(30), <3>1
  <2> QED
    BY <1>0, <1>2, <2>1
<1> QED
  BY <1>1, <1>4, <1>5, <1>6, <1>7

\* The bookkeeping of EPollPoller is right in every reachable state, and
\* epoll_ctl() never fails.
THEOREM EPollInvariant == Spec => []IndexInv
<1>1. IndexInv /\ [Next]_vars => IndexInv'
  <2> SUFFICES ASSUME IndexInv, [Next]_vars PROVE IndexInv'
    OBVIOUS
  <2> USE EPollAssumption DEF IndexInv, TypeOK,
          ChannelTypeOK, Indexes, kernel, loop
  <2>1. ASSUME NEW c \in Channels, Create(c) PROVE IndexInv'
    BY <2>1 DEF Create, Construct
  <2>2. ASSUME NEW c \in Channels, NEW ev \in SUBSET Events,
               UpdateChannel(c, ev)
        PROVE  IndexInv'
    BY <2>2, UpdateKeepsInv
  <2>3. ASSUME NEW c \in Channels, RemoveChannel(c) PROVE IndexInv'
    BY <2>3, RemoveKeepsInv
  <2>4. ASSUME NEW c \in Channels, HandleEvent(c) PROVE IndexInv'
    BY <2>4 DEF HandleEvent
  <2>5. ASSUME NEW reported \in Reports, Poll(reported) PROVE IndexInv'
    <3>1. \A c \in reported : c \in Channels /\ channels[fdOf[c]] = c
      BY DEF Reports
    <3>2. eventListSize' \in Nat \ {0}
      BY <2>5 DEF Poll
    <3> QED
      BY <2>5, <3>1, <3>2 DEF Poll, eventHandling
  <2>6. CASE HandlingDone
    BY <2>6 DEF HandlingDone
  <2>7. CASE UNCHANGED vars
    BY <2>7 DEF vars
  <2> QED
    BY <2>1, <2>2, <2>3, <2>4, <2>5, <2>6, <2>7 DEF Next
<1> QED
  BY InitEPollInv, <1>1, PTL DEF Spec, IndexInv

\* Neither epoll nor the rest of activeChannels_ leads to a destroyed Channel.
THEOREM NoDanglingChannel == Spec => []PointsToLive
<1>1. IndexInv => PointsToLive
  BY ZenonT(30), EPollAssumption
     DEF IndexInv, IndexInv, TypeOK, PointsToLive, Fds
<1> QED
  BY EPollInvariant, <1>1, PTL DEF IndexInv

\* EPollPoller implements Poller: after updateChannel() the kernel watches
\* exactly what the channel is interested in.
THEOREM EPollRefinesPoller == Spec => ImplementsPoller
<1> USE EPollAssumption DEF P!vars, registered
<1>1. Init => P!Init
  BY DEF Init, ChannelInit, P!Init, watched, Fds
<1>2. IndexInv /\ IndexInv' /\ [Next]_vars => [P!Next]_(P!vars)
  <2> SUFFICES ASSUME IndexInv, IndexInv', [Next]_vars
               PROVE  [P!Next]_(P!vars)
    OBVIOUS
  <2> USE DEF IndexInv, IndexInv, TypeOK, ChannelTypeOK, Indexes, kernel, loop,
              P!Next
  <2>0. watched = events /\ watched' = events'
    BY DEF watched
  <2>1. ASSUME NEW c \in Channels, Create(c) PROVE [P!Next]_(P!vars)
    BY <2>1 DEF watched, Create, Construct
  <2>2. ASSUME NEW c \in Channels, NEW ev \in SUBSET Events,
               UpdateChannel(c, ev)
        PROVE  P!UpdateChannel(c, ev)
    <3>1. /\ registered' = registered \cup {c}
          /\ events' = [events EXCEPT ![c] = ev]
          /\ active' = active
      BY <2>2 DEF UpdateChannel, Change, UpdateNew, UpdateDeleted, UpdateAdded
    <3> QED
      BY <2>0, <3>1 DEF P!UpdateChannel
  <2>3. ASSUME NEW c \in Channels, RemoveChannel(c)
        PROVE  P!RemoveChannel(c)
    <3>1. /\ registered' = registered \ {c}
          /\ c \in registered
          /\ events[c] = {}
          /\ UNCHANGED <<events, active>>
      BY <2>3 DEF RemoveChannel, RemoveAndDestroy, isNoneEvent
    <3>2. events = [events EXCEPT ![c] = {}]
      BY <3>1
    <3> QED
      BY <2>0, <3>1, <3>2 DEF P!RemoveChannel
  <2>4. ASSUME NEW c \in Channels, HandleEvent(c) PROVE [P!Next]_(P!vars)
    BY <2>4 DEF HandleEvent, watched
  <2>5. ASSUME NEW reported \in Reports, Poll(reported) PROVE P!Poll
    BY <2>5 DEF watched, Poll, Reports, P!Poll, Fds
  <2>6. CASE HandlingDone \/ UNCHANGED vars
    BY <2>6 DEF HandlingDone, vars, watched
  <2> QED
    BY <2>1, <2>2, <2>3, <2>4, <2>5, <2>6 DEF Next
<1> QED
  BY EPollInvariant, <1>1, <1>2, PTL
     DEF Spec, IndexInv, ImplementsPoller, P!Spec
-----------------------------------------------------------------------------
(***************************************************************************)
(* PollPoller.  The invariant is stated channel by channel: the channels   *)
(* of the map are those that channels_ has under their own descriptor.     *)
(***************************************************************************)
Mapped(c) == pollChannels[fdOf[c]] = c

Place(c) == pollIndex[c] + 1

PollTypeOK ==
  /\ pollLive \in SUBSET Channels
  /\ pollEvents \in [Channels -> SUBSET Events]
  /\ pollIndex \in [Channels -> Int]
  /\ pollChannels \in [Fds -> Channels \cup {NoChannel}]
  /\ pollfds \in Seq(PP!PollFd)
  /\ pollActive \in SUBSET Channels

\* The entry of a channel of the map is its own.
EntryInv ==
  \A c \in Channels : Mapped(c) =>
    /\ c \in pollLive
    /\ Place(c) \in 1 .. Len(pollfds)
    /\ PP!EntryFd(pollfds[Place(c)]) = fdOf[c]
    /\ pollfds[Place(c)].events = pollEvents[c]

\* The map, the array and the indexes of PollPoller.
PollInv ==
  /\ PollTypeOK
  /\ \A fd \in Fds : pollChannels[fd] # NoChannel => fdOf[pollChannels[fd]] = fd
  /\ \A c \in pollLive : ~Mapped(c) => pollIndex[c] = -1
  /\ EntryInv
  /\ \A i \in 1 .. Len(pollfds) : \E c \in Channels : Mapped(c) /\ Place(c) = i

\* No two channels of the map have one descriptor, or one entry.
LEMMA MappedApart ==
  ASSUME PollInv, NEW c \in Channels, NEW d \in Channels,
         Mapped(c), Mapped(d), c # d
  PROVE  fdOf[c] # fdOf[d] /\ Place(c) # Place(d)
<1>1. fdOf[c] # fdOf[d]
  BY Zenon DEF Mapped
<1>2. /\ PP!EntryFd(pollfds[Place(c)]) = fdOf[c]
      /\ PP!EntryFd(pollfds[Place(d)]) = fdOf[d]
  BY Zenon DEF PollInv, EntryInv
<1> QED
  BY Zenon, <1>1, <1>2

\* PollPoller() starts with an empty array.
LEMMA InitPollInv == PP!Init => PollInv
<1> SUFFICES ASSUME PP!Init PROVE PollInv
  OBVIOUS
<1>1. /\ pollLive = {} /\ pollEvents = [c \in Channels |-> {}]
      /\ pollIndex = [c \in Channels |-> -1]
      /\ pollChannels = [fd \in Fds |-> NoChannel]
      /\ pollfds = <<>> /\ pollActive = {}
  BY Zenon DEF PP!Init, PP!ChannelInit, PP!Fds, Fds
<1>2. \A c \in Channels : ~Mapped(c)
  BY <1>1, EPollAssumption DEF Mapped
<1>3. PollTypeOK
  BY <1>1 DEF PollTypeOK
<1>4. \A i \in 1 .. Len(pollfds) : FALSE
  BY <1>1
<1>5. \A fd \in Fds : pollChannels[fd] = NoChannel
  BY <1>1, Zenon
<1>6. \A c \in pollLive : FALSE
  BY <1>1, Zenon
<1> QED
  BY <1>2, <1>3, <1>4, <1>5, <1>6, Zenon DEF PollInv, EntryInv

\* The constructor of a Channel leaves the poller alone.
LEMMA PollCreate ==
  ASSUME PollInv, NEW c \in Channels, PP!Create(c)
  PROVE  PollInv'
<1>1. /\ c \notin pollLive /\ pollLive' = pollLive \cup {c}
      /\ pollEvents' = [pollEvents EXCEPT ![c] = {}]
      /\ pollIndex' = [pollIndex EXCEPT ![c] = -1]
      /\ pollChannels' = pollChannels /\ pollfds' = pollfds
      /\ pollActive' = pollActive
  BY DEF PP!Create, PP!Construct
<1>2. ~Mapped(c)
  BY <1>1, Zenon DEF PollInv, EntryInv
<1>3. \A d \in Channels : Mapped(d)' <=> Mapped(d)
  BY <1>1, Zenon DEF Mapped
<1>4. \A d \in Channels : Mapped(d) =>
        Place(d)' = Place(d) /\ pollEvents'[d] = pollEvents[d]
  BY <1>1, <1>2 DEF Place, PollInv, PollTypeOK
<1>5. PollTypeOK'
  BY <1>1 DEF PollInv, PollTypeOK
<1>6. EntryInv'
  BY <1>1, <1>3, <1>4 DEF PollInv, EntryInv
<1>7. \A d \in pollLive' : ~Mapped(d)' => pollIndex'[d] = -1
  BY <1>1, <1>3 DEF PollInv, PollTypeOK
<1>8. \A i \in 1 .. Len(pollfds') :
         \E d \in Channels : Mapped(d)' /\ Place(d)' = i
  BY <1>1, <1>3, <1>4, Zenon DEF PollInv
<1> QED
  BY <1>1, <1>5, <1>6, <1>7, <1>8, Zenon DEF PollInv

\* updateChannel() for a channel without an entry appends one.
LEMMA PollUpdateNew ==
  ASSUME PollInv, NEW c \in Channels, NEW ev \in SUBSET Events,
         PP!Change(c, ev), PP!UpdateNew(c, ev), pollActive' = pollActive
  PROVE  PollInv'
<1>1. /\ c \in pollLive /\ pollLive' = pollLive
      /\ pollEvents' = [pollEvents EXCEPT ![c] = ev]
      /\ pollChannels[fdOf[c]] = NoChannel
      /\ pollfds' = Append(pollfds, [fd |-> fdOf[c], events |-> ev])
      /\ pollIndex' = [pollIndex EXCEPT ![c] = Len(pollfds)]
      /\ pollChannels' = [pollChannels EXCEPT ![fdOf[c]] = c]
  BY DEF PP!Change, PP!UpdateNew
<1>2. fdOf[c] \in Fds /\ fdOf[c] \in Nat
  BY PollAssumption DEF Fds
<1>3. PollTypeOK
  BY Zenon DEF PollInv
<1>4. Len(pollfds) \in Nat /\ Len(pollfds') = Len(pollfds) + 1
  BY <1>1, <1>3 DEF PollTypeOK
<1>5. [fd |-> fdOf[c], events |-> ev] \in PP!PollFd
  BY <1>2 DEF PP!PollFd, PP!Events, Events
<1>6. PollTypeOK'
  BY <1>1, <1>2, <1>3, <1>5, <1>4 DEF PollTypeOK
<1>7. ~Mapped(c) /\ Mapped(c)' /\ Place(c)' = Len(pollfds) + 1
  BY <1>1, <1>2, <1>3, EPollAssumption DEF Mapped, Place, PollTypeOK
<1>8. ASSUME NEW d \in Channels, d # c
      PROVE  /\ Mapped(d)' <=> Mapped(d)
             /\ Place(d)' = Place(d) /\ pollEvents'[d] = pollEvents[d]
             /\ pollIndex'[d] = pollIndex[d]
  <2>1. fdOf[d] \in Fds
    BY DEF Fds
  <2>2. Mapped(d)' <=> Mapped(d)
    <3>1. CASE fdOf[d] = fdOf[c]
      BY <1>1, <1>2, <1>3, <1>8, <2>1, <3>1, EPollAssumption DEF Mapped, PollTypeOK
    <3>2. CASE fdOf[d] # fdOf[c]
      BY <1>1, <1>2, <1>3, <2>1, <3>2 DEF Mapped, PollTypeOK
    <3> QED
      BY <3>1, <3>2
  <2> QED
    BY <1>1, <1>3, <1>8, <2>2 DEF PollTypeOK, Place
<1>9. \A i \in 1 .. Len(pollfds) : pollfds'[i] = pollfds[i]
  BY <1>1, <1>3 DEF PollTypeOK
<1>10. pollfds'[Len(pollfds) + 1] = [fd |-> fdOf[c], events |-> ev]
  BY <1>1, <1>3 DEF PollTypeOK
<1>11. EntryInv'
  <2> SUFFICES ASSUME NEW d \in Channels, Mapped(d)'
               PROVE  /\ d \in pollLive'
                      /\ Place(d)' \in 1 .. Len(pollfds')
                      /\ PP!EntryFd(pollfds[Place(d)])' = fdOf[d]
                      /\ pollfds'[Place(d)'].events = pollEvents'[d]
    BY Zenon DEF EntryInv
  <2>1. CASE d = c
    <3>1. PP!EntryFd(pollfds[Place(d)])' = fdOf[d]
      BY <1>2, <1>7, <1>10, <2>1 DEF PP!EntryFd
    <3>2. pollEvents'[c] = ev
      BY <1>1, <1>3 DEF PollTypeOK
    <3> QED
      BY <1>1, <1>4, <1>7, <1>10, <2>1, <3>1, <3>2
  <2>2. CASE d # c
    <3>1. /\ d \in pollLive
          /\ Place(d) \in 1 .. Len(pollfds)
          /\ PP!EntryFd(pollfds[Place(d)]) = fdOf[d]
          /\ pollfds[Place(d)].events = pollEvents[d]
      BY <1>8, <2>2, Zenon DEF PollInv, EntryInv
    <3>2. Place(d)' = Place(d) /\ pollEvents'[d] = pollEvents[d]
      BY <1>8, <2>2
    <3>3. pollfds'[Place(d)'] = pollfds[Place(d)]
      BY <1>9, <3>1, <3>2
    <3>4. PP!EntryFd(pollfds[Place(d)])' = fdOf[d]
      BY <3>1, <3>3 DEF PP!EntryFd
    <3>5. Place(d)' \in 1 .. Len(pollfds')
      BY <1>4, <3>1, <3>2
    <3> QED
      BY <1>1, <3>1, <3>2, <3>3, <3>4, <3>5, Zenon
  <2> QED
    BY <2>1, <2>2
<1>12. \A fd \in Fds : pollChannels'[fd] # NoChannel =>
         fdOf[pollChannels'[fd]] = fd
  BY <1>1, <1>2, <1>3 DEF PollInv, PollTypeOK
<1>13. \A d \in pollLive' : ~Mapped(d)' => pollIndex'[d] = -1
  BY <1>1, <1>3, <1>7, <1>8 DEF PollInv, PollTypeOK
<1>14. ASSUME NEW i \in 1 .. Len(pollfds')
       PROVE  \E d \in Channels : Mapped(d)' /\ Place(d)' = i
  <2>1. CASE i = Len(pollfds) + 1
    BY <1>7, <2>1
  <2>2. CASE i # Len(pollfds) + 1
    <3>1. i \in 1 .. Len(pollfds)
      BY <1>4, <2>2
    <3>2. PICK d \in Channels : Mapped(d) /\ Place(d) = i
      BY <3>1, Zenon DEF PollInv
    <3> QED
      BY <1>7, <1>8, <3>2, Zenon
  <2> QED
    BY <2>1, <2>2
<1> QED
  BY <1>6, <1>11, <1>12, <1>13, <1>14, Zenon DEF PollInv

\* An entry of pollfds_ is assigned.
LEMMA EntryReplaced ==
  ASSUME NEW S, NEW s \in Seq(S), NEW i \in 1 .. Len(s), NEW e \in S,
         NEW t, t = [s EXCEPT ![i] = e]
  PROVE  /\ t \in Seq(S) /\ Len(t) = Len(s) /\ t[i] = e
         /\ \A j \in 1 .. Len(s) : j # i => t[j] = s[j]
<1>1. [s EXCEPT ![i] = e] \in Seq(S) /\ Len([s EXCEPT ![i] = e]) = Len(s)
  BY ExceptSeq
<1>2. DOMAIN s = 1 .. Len(s)
  OBVIOUS
<1> QED
  BY Zenon, <1>1, <1>2

\* updateChannel() for a channel that has an entry changes that entry only,
\* and the descriptor that it is for stays the same, ignored or not.
LEMMA PollUpdateExisting ==
  ASSUME PollInv, NEW c \in Channels, NEW ev \in SUBSET Events,
         PP!Change(c, ev), PP!UpdateExisting(c, ev), pollActive' = pollActive
  PROVE  PollInv'
<1> DEFINE new == [fd |-> IF ev = {} THEN PP!Ignored(fdOf[c])
                                     ELSE pollfds[Place(c)].fd,
                   events |-> ev]
<1>1. /\ c \in pollLive /\ pollLive' = pollLive
      /\ pollEvents' = [pollEvents EXCEPT ![c] = ev]
      /\ pollIndex[c] >= 0
      /\ pollfds' = [pollfds EXCEPT ![Place(c)] = new]
      /\ pollIndex' = pollIndex /\ pollChannels' = pollChannels
  BY DEF PP!Change, PP!UpdateExisting, Place
<1>2. PollTypeOK
  BY Zenon DEF PollInv
<1>3. /\ Mapped(c)
      /\ Place(c) \in 1 .. Len(pollfds)
      /\ PP!EntryFd(pollfds[Place(c)]) = fdOf[c]
  <2>1. Mapped(c)
    BY <1>1 DEF PollInv
  <2> QED
    BY <2>1, Zenon DEF PollInv, EntryInv
<1>4. fdOf[c] \in Nat /\ pollfds[Place(c)].fd \in Int
  <2>1. pollfds[Place(c)] \in PP!PollFd
    BY <1>2, <1>3 DEF PollTypeOK
  <2> QED
    BY <2>1, PollAssumption DEF PP!PollFd
<1>5. new \in PP!PollFd /\ PP!EntryFd(new) = fdOf[c] /\ new.events = ev
  <2>1. new.events = ev /\ new.fd = IF ev = {} THEN PP!Ignored(fdOf[c])
                                               ELSE pollfds[Place(c)].fd
    OBVIOUS
  <2>2. new.fd \in Int
    BY <1>4, <2>1 DEF PP!Ignored
  <2>3. new \in PP!PollFd
    BY <2>2 DEF PP!PollFd, PP!Events, Events
  <2>4. CASE ev = {}
    <3>1. new.fd = -fdOf[c] - 1
      BY <2>1, <2>4 DEF PP!Ignored
    <3>2. -fdOf[c] - 1 < 0 /\ -(-fdOf[c] - 1) - 1 = fdOf[c]
      BY <1>4
    <3>3. PP!EntryFd(new) = fdOf[c]
      BY Zenon, <3>1, <3>2 DEF PP!EntryFd, PP!Ignored
    <3> QED
      BY Zenon, <2>1, <2>3, <3>3
  <2>5. CASE ev # {}
    <3>1. new.fd = pollfds[Place(c)].fd
      BY <2>1, <2>5
    <3> QED
      BY <1>3, <2>1, <2>3, <3>1 DEF PP!EntryFd
  <2> QED
    BY <2>4, <2>5
<1> HIDE DEF new
<1>6. /\ Len(pollfds') = Len(pollfds) /\ pollfds' \in Seq(PP!PollFd)
      /\ pollfds'[Place(c)] = new
      /\ \A i \in 1 .. Len(pollfds) : i # Place(c) => pollfds'[i] = pollfds[i]
  <2>1. pollfds \in Seq(PP!PollFd)
    BY Zenon, <1>2 DEF PollTypeOK
  <2>2. /\ Place(c) \in 1 .. Len(pollfds) /\ new \in PP!PollFd
        /\ pollfds' = [pollfds EXCEPT ![Place(c)] = new]
    BY Zenon, <1>1, <1>3, <1>5
  <2> QED
    BY <2>1, <2>2, EntryReplaced
<1>7. PollTypeOK'
  BY <1>1, <1>2, <1>6 DEF PollTypeOK
<1>8. \A d \in Channels : (Mapped(d)' <=> Mapped(d)) /\ Place(d)' = Place(d)
  BY <1>1, Zenon DEF Mapped, Place
<1>9. EntryInv'
  <2> SUFFICES ASSUME NEW d \in Channels, Mapped(d)'
               PROVE  /\ d \in pollLive'
                      /\ Place(d)' \in 1 .. Len(pollfds')
                      /\ PP!EntryFd(pollfds[Place(d)])' = fdOf[d]
                      /\ pollfds'[Place(d)'].events = pollEvents'[d]
    BY Zenon DEF EntryInv
  <2>0. Place(d)' = Place(d) /\ Mapped(d)
    BY <1>8, Zenon
  <2>1. /\ d \in pollLive
        /\ Place(d) \in 1 .. Len(pollfds)
        /\ PP!EntryFd(pollfds[Place(d)]) = fdOf[d]
        /\ pollfds[Place(d)].events = pollEvents[d]
    BY <2>0, Zenon DEF PollInv, EntryInv
  <2>2. CASE d = c
    <3>1. pollfds'[Place(d)'] = new
      BY <1>6, <2>0, <2>2, Zenon
    <3>2. PP!EntryFd(pollfds[Place(d)])' = fdOf[d]
      BY <1>5, <2>2, <3>1 DEF PP!EntryFd
    <3>3. pollEvents'[c] = ev
      BY <1>1, <1>2 DEF PollTypeOK
    <3> QED
      BY <1>1, <1>5, <1>6, <2>0, <2>1, <2>2, <3>1, <3>2, <3>3, Zenon
  <2>3. CASE d # c
    <3>1. Place(d) # Place(c)
      BY <1>3, <2>0, <2>3, MappedApart
    <3>2. pollfds'[Place(d)'] = pollfds[Place(d)]
      BY <1>6, <2>0, <2>1, <3>1, Zenon
    <3>3. PP!EntryFd(pollfds[Place(d)])' = fdOf[d]
      BY <2>1, <3>2 DEF PP!EntryFd
    <3>4. pollEvents'[d] = pollEvents[d]
      BY <1>1, <1>2, <2>3 DEF PollTypeOK
    <3> QED
      BY <1>1, <1>6, <2>0, <2>1, <3>2, <3>3, <3>4, Zenon
  <2> QED
    BY <2>2, <2>3
<1>10. \A i \in 1 .. Len(pollfds') :
         \E d \in Channels : Mapped(d)' /\ Place(d)' = i
  BY <1>6, <1>8, Zenon DEF PollInv
<1>11. \A d \in pollLive' : ~Mapped(d)' => pollIndex'[d] = -1
  BY <1>1, <1>2, <1>8 DEF PollInv, PollTypeOK
<1> QED
  BY <1>1, <1>7, <1>9, <1>10, <1>11, Zenon DEF PollInv

\* pollfds_.pop_back().
LEMMA FrontOf ==
  ASSUME NEW S, NEW s \in Seq(S), Len(s) >= 1
  PROVE  LET t == SubSeq(s, 1, Len(s) - 1)
         IN  /\ t \in Seq(S) /\ Len(t) = Len(s) - 1
             /\ \A i \in 1 .. Len(s) - 1 : t[i] = s[i]
<1> DEFINE t == SubSeq(s, 1, Len(s) - 1)
<1>1. Len(s) \in Nat /\ \A i \in 1 .. Len(s) - 1 : s[i] \in S
  OBVIOUS
<1>2. /\ t \in Seq(S)
      /\ Len(t) = IF 1 <= Len(s) - 1 THEN Len(s) - 1 - 1 + 1 ELSE 0
      /\ \A i \in 1 .. Len(s) - 1 - 1 + 1 : t[i] = s[1 + i - 1]
  BY <1>1, SubSeqProperties
<1> HIDE DEF t
<1>3. Len(t) = Len(s) - 1
  <2>1. Len(t) = IF 1 <= Len(s) - 1 THEN Len(s) - 1 - 1 + 1 ELSE 0
    BY Zenon, <1>2
  <2>2. Len(s) \in Nat
    BY Zenon, <1>1
  <2> QED
    BY SMTT(30), <2>1, <2>2
<1>4. ASSUME NEW i \in 1 .. Len(s) - 1 PROVE t[i] = s[i]
  <2>1. i \in 1 .. Len(s) - 1 - 1 + 1 /\ 1 + i - 1 = i
    BY <1>1
  <2> QED
    BY <1>2, <2>1
<1> QED
  BY <1>2, <1>3, <1>4, Zenon DEF t

\* What removeChannel() makes of the array, whichever entry goes: the entry
\* of c is gone, that of a channel at the end is where the one of c was, and
\* all the others are where they were.
Removed(c) ==
  /\ Len(pollfds') = Len(pollfds) - 1
  /\ pollfds' \in Seq(PP!PollFd)
  /\ pollIndex' \in [Channels -> Int]
  /\ \A d \in Channels : ~Mapped(d) => pollIndex'[d] = pollIndex[d]
  /\ \A d \in Channels : Mapped(d) /\ d # c =>
       /\ Place(d)' = IF Place(d) = Len(pollfds) THEN Place(c) ELSE Place(d)
       /\ pollfds'[Place(d)'] = pollfds[Place(d)]

\* The two cases of removeChannel() both do that: the moved channel is found,
\* by its descriptor, in the map that c has left.
LEMMA PollRemoved ==
  ASSUME PollInv, NEW c \in Channels, PP!RemoveChannel(c)
  PROVE  Removed(c)
<1>1. /\ pollChannels[fdOf[c]] = c
      /\ pollChannels' = [pollChannels EXCEPT ![fdOf[c]] = NoChannel]
  BY DEF PP!RemoveChannel
<1>2. PollTypeOK
  BY Zenon DEF PollInv
<1>3. Mapped(c) /\ Place(c) \in 1 .. Len(pollfds)
  <2>1. Mapped(c)
    BY <1>1 DEF Mapped
  <2> QED
    BY <2>1, Zenon DEF PollInv, EntryInv
<1>4. Len(pollfds) \in Nat /\ pollfds \in Seq(PP!PollFd)
  BY <1>2 DEF PollTypeOK
<1>5. \A d \in Channels : Mapped(d) => Place(d) \in 1 .. Len(pollfds)
  BY Zenon DEF PollInv, EntryInv
<1>6. \A d \in Channels : Mapped(d) /\ d # c => Place(d) # Place(c)
  BY <1>3, MappedApart, Zenon
<1>7. CASE pollIndex[c] = Len(pollfds) - 1
  <2>1. pollfds' = SubSeq(pollfds, 1, Len(pollfds) - 1) /\ pollIndex' = pollIndex
    BY <1>7 DEF PP!RemoveChannel, PP!DropLast
  <2>2. Place(c) = Len(pollfds)
    BY <1>4, <1>7 DEF Place
  <2>3. /\ Len(pollfds') = Len(pollfds) - 1
        /\ pollfds' \in Seq(PP!PollFd)
        /\ \A i \in 1 .. Len(pollfds) - 1 : pollfds'[i] = pollfds[i]
    <3>1. Len(pollfds) >= 1
      BY <1>3, <1>4, <2>2
    <3> QED
      BY <1>4, <2>1, <3>1, FrontOf
  <2>4. ASSUME NEW d \in Channels, Mapped(d), d # c
        PROVE  /\ Place(d)' = Place(d) /\ Place(d) # Len(pollfds)
               /\ pollfds'[Place(d)'] = pollfds[Place(d)]
    <3>1. Place(d)' = Place(d)
      BY <2>1, Zenon DEF Place
    <3>2. Place(d) \in 1 .. Len(pollfds) /\ Place(d) # Len(pollfds)
      BY <1>5, <1>6, <2>2, <2>4, Zenon
    <3> QED
      BY <1>4, <2>3, <3>1, <3>2
  <2> QED
    BY <1>2, <2>1, <2>3, <2>4, Zenon DEF Removed, PollTypeOK
<1>8. CASE pollIndex[c] # Len(pollfds) - 1
  <2> DEFINE last == pollfds[Len(pollfds)]
             s == [pollfds EXCEPT ![Place(c)] = last]
  <2>1. /\ pollfds' = SubSeq(s, 1, Len(s) - 1)
        /\ pollIndex' = [pollIndex EXCEPT
                           ![pollChannels'[PP!EntryFd(last)]] = pollIndex[c]]
    BY <1>8 DEF PP!RemoveChannel, PP!DropLast, PP!Last, Place
  <2>2. Len(pollfds) \in 1 .. Len(pollfds) /\ Place(c) # Len(pollfds)
    BY <1>2, <1>3, <1>4, <1>8 DEF Place, PollTypeOK
  <2>3. PICK m \in Channels : Mapped(m) /\ Place(m) = Len(pollfds)
    BY <2>2, Zenon DEF PollInv
  <2>4. m # c /\ PP!EntryFd(last) = fdOf[m]
    <3>1. PP!EntryFd(pollfds[Place(m)]) = fdOf[m]
      BY <2>3, Zenon DEF PollInv, EntryInv
    <3> QED
      BY <2>2, <2>3, <3>1, Zenon
  <2>5. pollChannels'[PP!EntryFd(last)] = m
    <3>1. fdOf[m] # fdOf[c] /\ fdOf[m] \in Fds
      BY <1>3, <2>3, <2>4, MappedApart DEF Fds
    <3>2. pollChannels'[fdOf[m]] = pollChannels[fdOf[m]]
      BY <1>1, <1>2, <3>1 DEF PollTypeOK
    <3> QED
      BY <2>3, <2>4, <3>2, Zenon DEF Mapped
  <2>6. pollIndex' = [pollIndex EXCEPT ![m] = pollIndex[c]]
    BY <2>1, <2>5, Zenon
  <2>7. /\ Len(pollfds') = Len(pollfds) - 1
        /\ pollfds' \in Seq(PP!PollFd)
        /\ pollfds'[Place(c)] = last
        /\ \A i \in 1 .. Len(pollfds) - 1 :
             i # Place(c) => pollfds'[i] = pollfds[i]
    <3>1. s \in Seq(PP!PollFd) /\ Len(s) = Len(pollfds) /\ s[Place(c)] = last
          /\ \A i \in 1 .. Len(pollfds) : i # Place(c) => s[i] = pollfds[i]
      <4>1. last \in PP!PollFd
        BY <1>4, <2>2
      <4>2. /\ Place(c) \in 1 .. Len(pollfds) /\ pollfds \in Seq(PP!PollFd)
            /\ s = [pollfds EXCEPT ![Place(c)] = last]
        BY Zenon, <1>3, <1>4
      <4> HIDE DEF s, last
      <4> QED
        BY <4>1, <4>2, EntryReplaced
    <3> HIDE DEF s, last
    <3>2. Place(c) \in 1 .. Len(pollfds) - 1 /\ Len(s) >= 1
      BY <1>3, <1>4, <2>2, <3>1
    <3>3. /\ pollfds' \in Seq(PP!PollFd) /\ Len(pollfds') = Len(s) - 1
          /\ \A i \in 1 .. Len(s) - 1 : pollfds'[i] = s[i]
      BY <2>1, <3>1, <3>2, FrontOf
    <3> QED
      BY SMTT(30), <1>4, <3>1, <3>2, <3>3
  <2> HIDE DEF s
  <2>8. ASSUME NEW d \in Channels, Mapped(d), d # c
        PROVE  /\ Place(d)' = IF Place(d) = Len(pollfds) THEN Place(c) ELSE Place(d)
               /\ pollfds'[Place(d)'] = pollfds[Place(d)]
    <3>1. CASE d = m
      <4>1. Place(d)' = Place(c)
        BY <1>2, <2>6, <3>1 DEF Place, PollTypeOK
      <4> QED
        BY <2>3, <2>7, <3>1, <4>1, Zenon
    <3>2. CASE d # m
      <4>1. Place(d)' = Place(d)
        BY <1>2, <2>6, <3>2 DEF Place, PollTypeOK
      <4>2. Place(d) # Len(pollfds)
        BY <2>3, <2>8, <3>2, MappedApart
      <4>3. Place(d) \in 1 .. Len(pollfds) - 1 /\ Place(d) # Place(c)
        <5>1. Place(d) \in 1 .. Len(pollfds) /\ Place(d) # Place(c)
          BY <1>5, <1>6, <2>8, Zenon
        <5> QED
          BY <1>4, <4>2, <5>1
      <4> QED
        BY <2>7, <4>1, <4>2, <4>3, Zenon
    <3> QED
      BY <3>1, <3>2
  <2>9. \A d \in Channels : ~Mapped(d) => pollIndex'[d] = pollIndex[d]
    BY <1>2, <2>3, <2>6 DEF PollTypeOK
  <2>10. pollIndex' \in [Channels -> Int]
    BY <1>2, <2>6 DEF PollTypeOK
  <2> QED
    BY <2>7, <2>8, <2>9, <2>10, Zenon DEF Removed
<1> QED
  BY <1>7, <1>8

\* removeChannel() keeps the map, the array and the indexes in step.
LEMMA PollRemove ==
  ASSUME PollInv, NEW c \in Channels, PP!RemoveChannel(c)
  PROVE  PollInv'
<1>1. /\ c \in pollLive /\ pollLive' = pollLive \ {c}
      /\ pollEvents' = pollEvents
      /\ pollChannels[fdOf[c]] = c
      /\ pollChannels' = [pollChannels EXCEPT ![fdOf[c]] = NoChannel]
      /\ pollActive' = pollActive
  BY DEF PP!RemoveChannel, PP!RemoveAndDestroy
<1>2. PollTypeOK /\ fdOf[c] \in Fds
  BY DEF PollInv, Fds
<1>3. Removed(c)
  BY PollRemoved
<1>4. PollTypeOK'
  BY <1>1, <1>2, <1>3 DEF PollTypeOK, Removed
<1>5. Mapped(c) /\ Place(c) \in 1 .. Len(pollfds) /\ Len(pollfds) \in Nat
  <2>1. Mapped(c)
    BY <1>1 DEF Mapped
  <2>2. Place(c) \in 1 .. Len(pollfds)
    BY <2>1, Zenon DEF PollInv, EntryInv
  <2>3. Len(pollfds) \in Nat
    BY <1>2 DEF PollTypeOK
  <2> QED
    BY <2>1, <2>2, <2>3
<1>6. ~Mapped(c)'
  BY <1>1, <1>2, EPollAssumption DEF Mapped, PollTypeOK
<1>7. ASSUME NEW d \in Channels, d # c PROVE Mapped(d)' <=> Mapped(d)
  <2>1. fdOf[d] \in Fds
    BY DEF Fds
  <2>2. CASE fdOf[d] = fdOf[c]
    BY <1>1, <1>2, <1>7, <2>1, <2>2, EPollAssumption DEF Mapped, PollTypeOK
  <2>3. CASE fdOf[d] # fdOf[c]
    BY <1>1, <1>2, <2>1, <2>3 DEF Mapped, PollTypeOK
  <2> QED
    BY <2>2, <2>3
<1>8. ASSUME NEW d \in Channels, Mapped(d), d # c
      PROVE  /\ Place(d)' = IF Place(d) = Len(pollfds) THEN Place(c) ELSE Place(d)
             /\ Place(d)' \in 1 .. Len(pollfds')
             /\ pollfds'[Place(d)'] = pollfds[Place(d)]
  <2>1. /\ Len(pollfds') = Len(pollfds) - 1
        /\ Place(d)' = IF Place(d) = Len(pollfds) THEN Place(c) ELSE Place(d)
        /\ pollfds'[Place(d)'] = pollfds[Place(d)]
    BY <1>3, <1>8, Zenon DEF Removed
  <2>2. Place(d) \in 1 .. Len(pollfds) /\ Place(d) # Place(c)
    <3>1. Place(d) \in 1 .. Len(pollfds)
      BY <1>8, Zenon DEF PollInv, EntryInv
    <3> QED
      BY <1>5, <1>8, <3>1, MappedApart
  <2> QED
    BY <1>5, <2>1, <2>2
<1>9. EntryInv'
  <2> SUFFICES ASSUME NEW d \in Channels, Mapped(d)'
               PROVE  /\ d \in pollLive'
                      /\ Place(d)' \in 1 .. Len(pollfds')
                      /\ PP!EntryFd(pollfds[Place(d)])' = fdOf[d]
                      /\ pollfds'[Place(d)'].events = pollEvents'[d]
    BY Zenon DEF EntryInv
  <2>1. d # c /\ Mapped(d)
    BY <1>6, <1>7, Zenon
  <2>2. /\ d \in pollLive
        /\ PP!EntryFd(pollfds[Place(d)]) = fdOf[d]
        /\ pollfds[Place(d)].events = pollEvents[d]
    BY <2>1, Zenon DEF PollInv, EntryInv
  <2>3. pollfds'[Place(d)'] = pollfds[Place(d)] /\ Place(d)' \in 1 .. Len(pollfds')
    BY <1>8, <2>1, Zenon
  <2>4. PP!EntryFd(pollfds[Place(d)])' = fdOf[d]
    BY <2>2, <2>3 DEF PP!EntryFd
  <2> QED
    BY <1>1, <2>1, <2>2, <2>3, <2>4
<1>10. \A fd \in Fds : pollChannels'[fd] # NoChannel =>
         fdOf[pollChannels'[fd]] = fd
  BY <1>1, <1>2 DEF PollInv, PollTypeOK
<1>11. \A d \in pollLive' : ~Mapped(d)' => pollIndex'[d] = -1
  <2> SUFFICES ASSUME NEW d \in pollLive', ~Mapped(d)' PROVE pollIndex'[d] = -1
    OBVIOUS
  <2>1. d \in pollLive /\ d # c /\ d \in Channels
    BY <1>1, <1>2 DEF PollTypeOK
  <2>2. ~Mapped(d)
    BY <1>7, <2>1, Zenon
  <2> QED
    BY <1>3, <2>1, <2>2 DEF Removed, PollInv
<1>12. ASSUME NEW i \in 1 .. Len(pollfds')
       PROVE  \E d \in Channels : Mapped(d)' /\ Place(d)' = i
  <2>0. Len(pollfds') = Len(pollfds) - 1
    BY <1>3 DEF Removed
  <2>1. CASE i = Place(c)
    <3>1. Len(pollfds) \in 1 .. Len(pollfds) /\ Place(c) # Len(pollfds)
      BY <1>5, <2>0, <2>1
    <3>2. PICK d \in Channels : Mapped(d) /\ Place(d) = Len(pollfds)
      BY <3>1, Zenon DEF PollInv
    <3>3. d # c
      BY <3>1, <3>2, Zenon
    <3> QED
      BY <1>7, <1>8, <2>1, <3>2, <3>3, Zenon
  <2>2. CASE i # Place(c)
    <3>1. i \in 1 .. Len(pollfds) /\ i # Len(pollfds)
      BY <1>5, <2>0
    <3>2. PICK d \in Channels : Mapped(d) /\ Place(d) = i
      BY <3>1, Zenon DEF PollInv
    <3>3. d # c
      BY <2>2, <3>2, Zenon
    <3> QED
      BY <1>7, <1>8, <3>1, <3>2, <3>3, Zenon
  <2> QED
    BY <2>1, <2>2
<1> QED
  BY <1>4, <1>9, <1>10, <1>11, <1>12, Zenon DEF PollInv

\* The invariant is that of PollPoller, and poll() finds each channel alive.
LEMMA PollInvImplies == PollInv => PollIndexInv
<1> SUFFICES ASSUME PollInv PROVE PollIndexInv
  OBVIOUS
<1>1. PollTypeOK /\ PP!Fds = Fds /\ PP!Events = Events
  BY Zenon DEF PollInv, PP!Fds, Fds, PP!Events, Events
<1>2. \A c : c \in PP!registered <=> c \in Channels /\ Mapped(c)
  <2>1. ASSUME NEW c \in PP!registered PROVE c \in Channels /\ Mapped(c)
    <3>1. PICK fd \in Fds : c = pollChannels[fd] /\ c # NoChannel
      BY <1>1, Zenon DEF PP!registered
    <3>2. fdOf[c] = fd
      BY <3>1, Zenon DEF PollInv
    <3> QED
      BY <1>1, <3>1, <3>2 DEF Mapped, PollTypeOK
  <2>2. ASSUME NEW c \in Channels, Mapped(c) PROVE c \in PP!registered
    BY <1>1, <2>2, EPollAssumption, Zenon DEF PP!registered, Mapped, Fds
  <2> QED
    BY <2>1, <2>2, Zenon
<1>3. PP!TypeOK
  BY <1>1, Zenon DEF PollTypeOK, PP!TypeOK, PP!ChannelTypeOK
<1>4. \A fd \in PP!Fds : pollChannels[fd] # NoChannel => fdOf[pollChannels[fd]] = fd
  BY <1>1, Zenon DEF PollInv
<1>5. PP!registered \subseteq pollLive
  BY <1>2, Zenon DEF PollInv, EntryInv
<1>6. \A c \in pollLive \ PP!registered : pollIndex[c] = -1
  BY <1>1, <1>2 DEF PollInv, PollTypeOK
<1>7. DOMAIN pollfds = 1 .. Len(pollfds)
  BY <1>1 DEF PollTypeOK
<1>8. \A c \in PP!registered :
         /\ pollIndex[c] + 1 \in DOMAIN pollfds
         /\ PP!EntryFd(pollfds[pollIndex[c] + 1]) = fdOf[c]
         /\ pollfds[pollIndex[c] + 1].events = pollEvents[c]
  BY <1>2, <1>7, Zenon DEF PollInv, EntryInv, Place
<1>9. \A i \in DOMAIN pollfds : \E c \in PP!registered : pollIndex[c] + 1 = i
  BY <1>2, <1>7, Zenon DEF PollInv, Place
<1>10. PP!PolledAreLive
  <2> SUFFICES ASSUME NEW i \in DOMAIN pollfds, pollfds[i].fd >= 0
               PROVE  pollChannels[pollfds[i].fd] \in pollLive
    BY Zenon DEF PP!PolledAreLive, PP!Polled
  <2>1. PICK c \in PP!registered : pollIndex[c] + 1 = i
    BY <1>9, Zenon
  <2>2. PP!EntryFd(pollfds[i]) = fdOf[c] /\ c \in pollLive /\ Mapped(c)
    BY <1>2, <1>5, <1>8, <2>1, Zenon
  <2>3. pollfds[i].fd = fdOf[c]
    <3>1. pollfds[i] \in PP!PollFd
      BY <1>1, <1>7 DEF PollTypeOK
    <3>2. pollfds[i].fd \in Int
      BY <3>1 DEF PP!PollFd
    <3> QED
      BY <2>2, <3>2 DEF PP!EntryFd
  <2> QED
    BY <2>2, <2>3, Zenon DEF Mapped
<1> QED
  BY <1>3, <1>4, <1>5, <1>6, <1>8, <1>9, <1>10, Zenon DEF PollIndexInv, PP!IndexInv

LEMMA PollNext == PollInv /\ [PP!Next]_pollVars => PollInv'
<1> SUFFICES ASSUME PollInv, [PP!Next]_pollVars PROVE PollInv'
  OBVIOUS
<1>1. ASSUME NEW c \in Channels, PP!Create(c) PROVE PollInv'
  BY <1>1, PollCreate
<1>2. ASSUME NEW c \in Channels, NEW ev \in SUBSET Events, PP!UpdateChannel(c, ev)
      PROVE  PollInv'
  <2>1. /\ PP!Change(c, ev) /\ pollActive' = pollActive
        /\ PP!UpdateNew(c, ev) \/ PP!UpdateExisting(c, ev)
    BY <1>2, Zenon DEF PP!UpdateChannel
  <2> QED
    BY <2>1, PollUpdateNew, PollUpdateExisting
<1>3. ASSUME NEW c \in Channels, PP!RemoveChannel(c) PROVE PollInv'
  BY <1>3, PollRemove
<1>4. ASSUME UNCHANGED <<pollLive, pollEvents, pollIndex, pollChannels, pollfds>>,
             pollActive' \in SUBSET Channels
      PROVE  PollInv'
  BY <1>4 DEF PollInv, PollTypeOK, EntryInv, Mapped, Place, PP!EntryFd
<1>5. CASE PP!Poll
  <2>1. PP!Polled \in SUBSET Channels
    <3>1. PP!PolledAreLive /\ pollLive \in SUBSET Channels
      BY PollInvImplies, Zenon DEF PollIndexInv, PollInv, PollTypeOK
    <3> QED
      BY <3>1 DEF PP!PolledAreLive
  <2>2. pollActive' \in SUBSET Channels
    BY <1>5, <2>1 DEF PP!Poll
  <2> QED
    BY <1>4, <1>5, <2>2 DEF PP!Poll
<1>6. CASE UNCHANGED pollVars
  BY <1>4, <1>6 DEF pollVars, PollInv, PollTypeOK
<1> QED
  BY <1>1, <1>2, <1>3, <1>5, <1>6, Zenon DEF PP!Next, PP!Events, Events

\* In a loop with either poller, the map, the array and the indexes of
\* PollPoller agree through the swap of removeChannel(), and poll() finds
\* in the map, alive, the channel of every entry that is not ignored.
THEOREM PollPollerCorrect == DefaultSpec => []PollIndexInv
<1>1. newDefaultPoller => PollInv
  BY InitPollInv, Zenon DEF newDefaultPoller
<1>2. PollInv /\ [DefaultNext]_<<usePoll, vars, pollVars>> => PollInv'
  <2>1. [DefaultNext]_<<usePoll, vars, pollVars>> => [PP!Next]_pollVars
    BY Zenon DEF DefaultNext
  <2> QED
    BY <2>1, PollNext, Zenon
<1> QED
  BY <1>1, <1>2, PollInvImplies, PTL DEF DefaultSpec
=============================================================================
