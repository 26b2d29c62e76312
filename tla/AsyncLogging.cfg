CONSTANTS
  Producers = {p1, p2}
  MaxLines = 5
  BufferSize = 3
  MaxBuffers = 2
  rollSize = 3
  flushInterval = 0
  kCheckTimeRoll = 1
  kRollPerSeconds = 3
  MaxTime = 3
SPECIFICATION FairSpec
INVARIANTS
  LogInv
PROPERTIES
  DropsOnlyWhenBehind
  LinesReachTheFile
CHECK_DEADLOCK FALSE
