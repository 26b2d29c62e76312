CONSTANTS
  kInitRetryDelayMs = 1
  kMaxRetryDelayMs = 3
  Conns = {1, 2}
SPECIFICATION FairSpec
INVARIANTS
  OneAttemptOneSocket
  NothingCallsTheDead
PROPERTY ConnectsInTheEnd
CHECK_DEADLOCK FALSE
