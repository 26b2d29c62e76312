SPECIFICATION Spec
CONSTANTS
  c1 = c1
  c2 = c2
  c3 = c3
  l1 = l1
  l2 = l2
  w1 = w1
  r1 = r1
  Conns = {c1, c2, c3}
  FewConns = {c1, c2}
  OneConn = {c1}
  Loops = {l1, l2}
  LoopOf <- MCLoopOf
  MaxMessages = 2
  Topics = {utc_time, topic}
  utc_time = utc_time
  MaxCommands = 3
  idleSeconds = 2
  kMaxConnections = 1
  MaxRound = 1
  MaxTime = 6
  MaxPieces = 2
  Requests <- MCRequests
  kMaxRequest = 3
  MaxBytes = 4
  kMaxConns = 2
  MaxData = 2
  MaxLosses = 1
  Threads = {l1, t1, t2}
  LoopThread = l1
  MaxCalls = 3
  Hashers = {h1, h2}
  Receivers = {r1}
  Words = {w1}
  Bucket <- MCBucket
  g_batchSize = 2
  HighMark = 2
  MaxWords = 4
  boxSide = 2
  Puzzles <- MCPuzzles
  Workers = {v1, v2}
  MaxRequests = 2
  Producers = {p1, p2, p3}
  Consumers = {k1, k2, k3}
  maxSize = 2
  MaxPuts = 5
  MaxFd = 4
  MaxClients = 4
  kSmallBuffer = 14
  kMaxNumericSize = 6
  Texts <- MCTexts
  Integers8 <- MCIntegers
  Pointers = {0, 16, 160, 255, 4095}
  MaxParts = 2
  MaxLines = 2
  MaxSecond = 2
  Paths <- MCPaths
  Commands <- MCCommands
  Adders = {a1, a2}
  MaxGets = 4
INVARIANTS
  BroadcastsArrive
  IdleConnectionsClose
  DownloadsAreWhole
  TunnelsPassAll
  ClientsShareABackend
  CallsComplete
  WordsAreCounted
  SudokusAreSolved
  QueuesWake
  AcceptorKeepsItsOwn
  LogLinesAreWhole
  InspectorAnswers
CHECK_DEADLOCK FALSE
