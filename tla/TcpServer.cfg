CONSTANTS
  MaxThreads = 2
  MaxConnections = 3
  Callers = {0, 101}
SPECIFICATION FairSpec
INVARIANTS
  ConnectionsLiveOnce
PROPERTIES
  ServerWindsUp
CHECK_DEADLOCK FALSE
