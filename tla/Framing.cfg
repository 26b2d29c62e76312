CONSTANTS
  Base = 8
  kHeaderLen = 2
  kMaxMessageLen = 9
  kCells = 2
  MaxId = 6
  MaxItems = 3
  Codecs = {"rpc", "protobuf", "chat", "hub", "sudoku", "http", "fastcgi"}
  Parses <- MCParses
  TypeNames <- MCTypeNames
  Items <- MCItems
SPECIFICATION Spec
INVARIANTS
  MessagesSurvive
  RefusedForAReason
CHECK_DEADLOCK FALSE
