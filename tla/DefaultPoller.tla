---------------------------- MODULE DefaultPoller ----------------------------
(***************************************************************************)
(* muduo/net/poller/DefaultPoller.cc: the environment variable             *)
(* MUDUO_USE_POLL decides, once for each loop, which poller it has.  The   *)
(* state of PollPoller is that of its module under names of its own; the   *)
(* poller that was not chosen does not exist, and its state stays initial. *)
(***************************************************************************)
EXTENDS EPollPoller

VARIABLES
  usePoll,        \* ::getenv("MUDUO_USE_POLL")
  pollLive, pollEvents, pollIndex, pollChannels, pollfds, pollActive

pollVars == <<pollLive, pollEvents, pollIndex, pollChannels, pollfds, pollActive>>

ASSUME PollAssumption == fdOf \in [Channels -> Nat]

PP == INSTANCE PollPoller WITH
        live <- pollLive, events <- pollEvents, index <- pollIndex,
        channels <- pollChannels, active <- pollActive

newDefaultPoller ==
  /\ usePoll \in BOOLEAN
  /\ Init
  /\ PP!Init

DefaultNext ==
  \/ ~usePoll /\ Next /\ UNCHANGED <<usePoll, pollVars>>
  \/ usePoll /\ PP!Next /\ UNCHANGED <<usePoll, vars>>

DefaultSpec == newDefaultPoller /\ [][DefaultNext]_<<usePoll, vars, pollVars>>

-----------------------------------------------------------------------------
\* The array, the map and the indexes of PollPoller agree, through the swap
\* with the last entry of removeChannel(), and poll() finds in the map, alive,
\* the channel of each entry that is not ignored.
PollIndexInv == PP!IndexInv /\ PP!PolledAreLive
=============================================================================
