CONSTANTS
  Threads = {t1}
  MaxMessages = 2
  Lengths = {1, 2}
  SocketBuffer = 1
  HighWaterMark = 2
  MaxInput = 1
  OwnerMayDie = TRUE
SPECIFICATION FairSpec
INVARIANTS
  ConnectionInv
PROPERTIES
  ImplementsByteStream
  ClosesInTheEnd
CHECK_DEADLOCK FALSE
