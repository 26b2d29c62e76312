CONSTANTS
  Threads = {t1}
  MaxAddr = 2
  MaxSeq = 2
  MaxTime = 3
  Whens = {0, 3}
  Intervals = {0, 1}
SPECIFICATION FairSpec
INVARIANTS
  QueuesAgree
  CancelStops
PROPERTY TimersFire
CHECK_DEADLOCK FALSE
