CONSTANTS
  Byte = {0, 1}
  kCheapPrepend = 1
  kInitialSize = 2
  ExtraSize = 2
  MaxLen = 3
  MaxReadable = 4
SPECIFICATION Spec
INVARIANTS
  IndexInv
PROPERTIES
  ImplementsByteQueue
CHECK_DEADLOCK FALSE
