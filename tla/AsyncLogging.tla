---------------------------- MODULE AsyncLogging ----------------------------
(***************************************************************************)
(* muduo/base/AsyncLogging.{h,cc}: threads append log lines to a buffer    *)
(* under a mutex; one thread takes the buffers and writes them to a file.  *)
(*                                                                         *)
(* A buffer is the sequence of the lines in it; a line has length 1, and a *)
(* buffer has room for BufferSize.  A BufferPtr is a sequence of at most   *)
(* one buffer, <<>> when it is null.  The thread writes to a LogFile.      *)
(***************************************************************************)
EXTENDS Naturals, CountDownLatch, SequencesExt

(***************************************************************************)
(* muduo/base/LogFile.{h,cc}: a log file that is replaced by a new one     *)
(* when it is large, or when a new period (a day) begins.                  *)
(*                                                                         *)
(* The files, one after the other, are the sequence of the lines appended; *)
(* a line has length 1.  Time is what time() returns; it does not go back, *)
(* and passes during append() only, since nothing else looks at it.        *)
(* Writing does not fail.                                                  *)
(***************************************************************************)
CONSTANTS
  rollSize, flushInterval,            \* rollSize_ and flushInterval_
  kCheckTimeRoll, kRollPerSeconds,    \* the constants of these names
  MaxTime                             \* bound: the last second

ASSUME LogFileAssumption ==
  /\ rollSize \in Nat /\ flushInterval \in Nat /\ kCheckTimeRoll \in Nat
  /\ kRollPerSeconds \in Nat /\ kRollPerSeconds > 0
  /\ MaxTime \in Nat /\ MaxTime > 0

VARIABLES
  output,     \* the members that append() changes, by their names
  clock,      \* the time of the last look at the clock
  file,       \* the lines in the files
  flushed,    \* how many of them are known to have left the buffer of stdio
  late        \* history: the appends to this file since its period ended

logFileVars == <<output, clock, file, flushed, late>>

Period(time) == (time \div kRollPerSeconds) * kRollPerSeconds

\* rollFile(): one file per second at most, since its name says the second.
rollFile(o, now) ==
  IF now > o.lastRoll
  THEN [o EXCEPT !.lastRoll = now, !.lastFlush = now,
                 !.startOfPeriod = Period(now), !.writtenBytes = 0]
  ELSE o

\* The constructor, at time now.
Opened(now) ==
  rollFile([count |-> 0, startOfPeriod |-> 0, lastRoll |-> 0, lastFlush |-> 0,
            writtenBytes |-> 0], now)

LogFileInit ==
  /\ clock = 1
  /\ output = Opened(1)
  /\ file = <<>> /\ flushed = 0 /\ late = 0

\* The tests of CheckTime in the other order.
CheckFlushFirst(o, now, later) ==
  CASE now - o.lastFlush > flushInterval -> [o EXCEPT !.lastFlush = now]
    [] Period(now) # o.startOfPeriod /\ now - o.lastFlush <= flushInterval ->
         rollFile(o, later)
    [] OTHER -> o

\* Every so often append_unlocked() looks at the time; rollFile() looks again.
CheckTime(o, now, later) ==
  CASE Period(now) # o.startOfPeriod -> rollFile(o, later)
    [] Period(now) = o.startOfPeriod /\ now - o.lastFlush > flushInterval ->
         [o EXCEPT !.lastFlush = now]
    [] OTHER -> o

\* append_unlocked() after the write.
Appended(o, now, later) ==
  CASE o.writtenBytes > rollSize -> rollFile(o, later)
    [] o.writtenBytes <= rollSize /\ o.count > kCheckTimeRoll ->
         CheckTime([o EXCEPT !.count = 0], now, later)
    [] OTHER -> [o EXCEPT !.count = @ + 1]

\* append().  A file that is closed is flushed.
LogAppend(lines) ==
  \E now \in clock .. MaxTime : \E later \in now .. MaxTime :
    /\ clock' = later
    /\ output' = Appended([output EXCEPT !.writtenBytes = @ + Len(lines)], now, later)
    /\ file' = file \o lines
    /\ flushed' = IF \/ output'.lastRoll # output.lastRoll
                     \/ output'.lastFlush # output.lastFlush
                  THEN Len(file') ELSE flushed
    /\ late' = CASE output'.lastRoll # output.lastRoll -> 0
                 [] output'.lastRoll = output.lastRoll
                      /\ Period(now) # output.startOfPeriod -> late + 1
                 [] OTHER -> late

\* flush().
LogFlush ==
  /\ flushed' = Len(file)
  /\ UNCHANGED <<output, clock, file, late>>

-----------------------------------------------------------------------------
LogFileTypeOK ==
  /\ output \in [count : 0 .. kCheckTimeRoll + 1, startOfPeriod : 0 .. MaxTime,
                 lastRoll : 1 .. MaxTime, lastFlush : 1 .. MaxTime,
                 writtenBytes : Nat]
  /\ clock \in 1 .. MaxTime
  /\ flushed \in 0 .. Len(file)

\* A file is replaced in time, although append_unlocked() looks at the clock
\* every kCheckTimeRoll_ calls only, and rollFile() may refuse: it is too large
\* only in the second in which it was opened, and gets at most
\* kCheckTimeRoll_ + 1 appends of a later period before the one after which
\* append_unlocked() replaces it.
RollsInTime ==
  /\ output.writtenBytes > rollSize => output.lastRoll = clock
  /\ late <= kCheckTimeRoll + 1

-----------------------------------------------------------------------------
(***************************************************************************)
(* AsyncLogging.                                                           *)
(***************************************************************************)
CONSTANTS
  Producers,      \* the threads that call append()
  MaxLines,       \* bound: lines that are appended
  BufferSize,     \* kLargeBuffer
  MaxBuffers      \* the 25 buffers beyond which lines are dropped

ASSUME LoggingAssumption ==
  /\ MaxLines \in Nat
  /\ BufferSize \in Nat /\ BufferSize > 1
  /\ MaxBuffers \in Nat /\ MaxBuffers >= 2

VARIABLES
  running,          \* running_
  currentBuffer, nextBuffer, buffers,   \* the members of these names
  newBuffer1, newBuffer2, buffersToWrite,   \* those of threadFunc()
  written,          \* how many of buffersToWrite have been written
  owner,            \* where the owner is: new, starting, up, joining, stopped
  thread,           \* where threadFunc() is
  appended,         \* history: the lines that were appended
  dropped           \* history: the lines that were dropped

frontVars == <<currentBuffer, nextBuffer, buffers>>
backVars == <<newBuffer1, newBuffer2, buffersToWrite, written>>
fileVars == <<logFileVars, dropped>>
vars == <<running, frontVars, backVars, owner, thread, fileVars, appended, latchVars>>

Null == <<>>
New == << <<>> >>          \* a pointer to an empty buffer

Init ==
  /\ running = FALSE
  /\ currentBuffer = New /\ nextBuffer = New /\ buffers = <<>>
  /\ newBuffer1 = Null /\ newBuffer2 = Null /\ buffersToWrite = <<>> /\ written = 0
  /\ owner = "new"
  /\ thread = "none"
  /\ LogFileInit
  /\ appended = <<>>
  /\ dropped = {}
  /\ LatchInit(1)

-----------------------------------------------------------------------------
(***************************************************************************)
(* append(), by any thread.                                                *)
(***************************************************************************)
Line(p) == <<p, Cardinality({i \in DOMAIN appended : appended[i][1] = p}) + 1>>

\* currentBuffer_->avail() > len.
Avail(buffer) == BufferSize - Len(buffer) > 1

\* The buffer is full: it is put aside, and the next one, or a new one, used.
AppendToNext(line) ==
  /\ buffers' = Append(buffers, currentBuffer[1])
  /\ currentBuffer' =
       << Append(IF nextBuffer # Null THEN nextBuffer[1] ELSE <<>>, line) >>
  /\ nextBuffer' = Null

AppendLine(p) ==
  /\ Len(appended) < MaxLines
  /\ appended' = Append(appended, Line(p))
  /\ \/ /\ Avail(currentBuffer[1])
        /\ currentBuffer' = << Append(currentBuffer[1], Line(p)) >>
        /\ UNCHANGED <<nextBuffer, buffers>>
     \/ /\ ~Avail(currentBuffer[1])
        /\ AppendToNext(Line(p))
  /\ UNCHANGED <<running, backVars, owner, thread, fileVars, latchVars>>

-----------------------------------------------------------------------------
(***************************************************************************)
(* start() and stop(), by the owner.                                       *)
(***************************************************************************)
Start ==
  /\ owner = "new"
  /\ running' = TRUE
  /\ owner' = "starting"
  /\ thread' = "entry"
  /\ UNCHANGED <<frontVars, backVars, fileVars, appended, latchVars>>

StartWait ==
  /\ owner = "starting"
  /\ \/ WaitBlocks("owner") /\ UNCHANGED owner
     \/ WaitReturns("owner") /\ owner' = "up"
  /\ UNCHANGED <<running, frontVars, backVars, thread, fileVars, appended>>

OwnerSpuriousWakeup ==
  /\ SpuriousWakeup("owner")
  /\ UNCHANGED <<running, frontVars, backVars, owner, thread, fileVars, appended>>

\* stop() notifies without mutex_; a thread that is about to wait misses that,
\* and wakes when flushInterval_ is over.
Stop ==
  /\ owner = "up"
  /\ owner' = "joining"
  /\ running' = FALSE
  /\ UNCHANGED <<frontVars, backVars, thread, fileVars, appended, latchVars>>

Join ==
  /\ owner = "joining"
  /\ thread = "done"
  /\ owner' = "stopped"
  /\ UNCHANGED <<running, frontVars, backVars, thread, fileVars, appended, latchVars>>

-----------------------------------------------------------------------------
(***************************************************************************)
(* threadFunc().                                                           *)
(***************************************************************************)
Entry ==
  /\ thread = "entry"
  /\ thread' = "test"
  /\ CountDown
  /\ newBuffer1' = New /\ newBuffer2' = New
  /\ UNCHANGED <<running, frontVars, buffersToWrite, written, owner, fileVars, appended>>

\* while (running_); output.flush() at the end.
TestRunning ==
  /\ thread = "test"
  /\ \/ running /\ thread' = "lock" /\ UNCHANGED logFileVars
     \/ ~running /\ thread' = "done" /\ LogFlush
  /\ UNCHANGED <<running, frontVars, backVars, owner, dropped, appended, latchVars>>

\* if (buffers_.empty()) cond_.waitForSeconds().
WaitForBuffer ==
  /\ thread = "lock"
  /\ buffers = <<>>
  /\ thread' = "waiting"
  /\ UNCHANGED <<running, frontVars, backVars, owner, fileVars, appended, latchVars>>

\* A wait that goes on until a buffer is full.
AwakeWhenFull == thread = "waiting" /\ buffers # <<>>

\* The wait is over after a notify(), after flushInterval_, or for no reason,
\* and buffers_ is not tested again.
Awake == thread = "waiting"

\* A spare buffer given without a test of nextBuffer_.
GiveSpareAlways == nextBuffer' = newBuffer2 /\ newBuffer2' = Null

\* if (!nextBuffer_), there is one again.
GiveSpare ==
  IF nextBuffer = Null
  THEN nextBuffer' = newBuffer2 /\ newBuffer2' = Null
  ELSE UNCHANGED <<nextBuffer, newBuffer2>>

\* The thread takes the buffers and leaves an empty one.
SwapBuffers ==
  /\ \/ thread = "lock" /\ buffers # <<>>
     \/ Awake
  /\ thread' = "dropping"
  /\ buffersToWrite' = Append(buffers, currentBuffer[1])
  /\ buffers' = <<>>
  /\ currentBuffer' = newBuffer1
  /\ newBuffer1' = Null
  /\ GiveSpare
  /\ UNCHANGED <<written, running, owner, fileVars, appended, latchVars>>

Lines(bs) == FlattenSeq(bs)

\* Dropping that keeps the last two buffers.
KeepLast(bs) == IF Len(bs) > MaxBuffers THEN SubSeq(bs, Len(bs) - 1, Len(bs)) ELSE bs

\* When there are more than 25 buffers only the first two are kept.
Keep(bs) == IF Len(bs) > MaxBuffers THEN SubSeq(bs, 1, 2) ELSE bs

\* The line that says how many buffers are dropped.
Notice == << <<"dropped", Len(buffersToWrite) - 2>> >>

DropBuffers ==
  /\ thread = "dropping"
  /\ thread' = "writing"
  /\ buffersToWrite' = Keep(buffersToWrite)
  /\ dropped' = dropped \cup (ToSet(Lines(buffersToWrite))
                                \ ToSet(Lines(Keep(buffersToWrite))))
  /\ IF Len(buffersToWrite) > MaxBuffers THEN LogAppend(Notice)
                                         ELSE UNCHANGED logFileVars
  /\ UNCHANGED <<running, frontVars, newBuffer1, newBuffer2, written, owner,
                 appended, latchVars>>

\* The next buffer is written.
WriteBuffer ==
  /\ thread = "writing"
  /\ written < Len(buffersToWrite)
  /\ written' = written + 1
  /\ LogAppend(buffersToWrite[written + 1])
  /\ UNCHANGED <<running, frontVars, newBuffer1, newBuffer2, buffersToWrite, owner,
                 thread, dropped, appended, latchVars>>

\* buffersToWrite.resize(2).
AtMostTwo == SubSeq(buffersToWrite, 1, IF Len(buffersToWrite) > 2 THEN 2
                                                    ELSE Len(buffersToWrite))

\* pop_back() and reset(), for each new buffer that is null.
Needed == (IF newBuffer1 = Null THEN 1 ELSE 0) + (IF newBuffer2 = Null THEN 1 ELSE 0)

\* A buffer that is used again without reset().
Unreset(ptr) == IF ptr = Null THEN << Last(AtMostTwo) >> ELSE ptr

\* A buffer that is used again is reset().
Recycled(ptr) == IF ptr = Null THEN New ELSE ptr

\* Two of the buffers are used again, and the file is flushed.
RecycleBuffers ==
  /\ thread = "writing"
  /\ written = Len(buffersToWrite)
  /\ Needed <= Len(AtMostTwo)
  /\ newBuffer1' = Recycled(newBuffer1)
  /\ newBuffer2' = Recycled(newBuffer2)
  /\ buffersToWrite' = <<>> /\ written' = 0
  /\ thread' = "test"
  /\ LogFlush
  /\ UNCHANGED <<running, frontVars, owner, dropped, appended, latchVars>>

-----------------------------------------------------------------------------
ThreadStep ==
  \/ Entry \/ TestRunning \/ WaitForBuffer \/ SwapBuffers
  \/ DropBuffers \/ WriteBuffer \/ RecycleBuffers

Next ==
  \/ \E p \in Producers : AppendLine(p)
  \/ Start \/ StartWait \/ OwnerSpuriousWakeup \/ Stop \/ Join
  \/ ThreadStep

Spec == Init /\ [][Next]_vars

(***************************************************************************)
(* Fairness: both threads are scheduled, and a wait ends with the timeout  *)
(* at the latest.                                                          *)
(***************************************************************************)
Fairness == WF_vars(ThreadStep) /\ WF_vars(StartWait) /\ WF_vars(Join)

FairSpec == Spec /\ Fairness

-----------------------------------------------------------------------------
Message == Producers \X (1 .. MaxLines)
Buffer == Seq(Message)
BufferPtr(b) == b \in Seq(Buffer) /\ Len(b) <= 1

TypeOK ==
  /\ running \in BOOLEAN
  /\ BufferPtr(currentBuffer) /\ BufferPtr(nextBuffer)
  /\ BufferPtr(newBuffer1) /\ BufferPtr(newBuffer2)
  /\ buffers \in Seq(Buffer) /\ buffersToWrite \in Seq(Buffer)
  /\ owner \in {"new", "starting", "up", "joining", "stopped"}
  /\ thread \in {"none", "entry", "test", "lock", "waiting", "dropping", "writing",
                "done"}
  /\ file \in Seq(Message \cup ({"dropped"} \X Nat)) /\ appended \in Buffer
  /\ LogFileTypeOK /\ written \in 0 .. Len(buffersToWrite)
  /\ dropped \subseteq Message

\* The assertions of threadFunc().  It starts while running_ is set, since
\* start() waits for the latch.  The buffers that the two sides hand to each
\* other never run out and are never used by both: there is always a current
\* buffer; when the spare one is gone a full one is waiting, so that there are
\* two to use again at each pop_back(); and the new ones are empty at the swap.
BuffersInv ==
  /\ TypeOK
  /\ thread = "entry" => running
  /\ currentBuffer # Null
  /\ nextBuffer = Null => buffers # <<>>
  /\ nextBuffer # Null => nextBuffer = New
  /\ thread \in {"test", "lock", "waiting"} =>
       newBuffer1 = New /\ newBuffer2 = New /\ buffersToWrite = <<>>
  /\ thread \in {"dropping", "writing"} => buffersToWrite # <<>> /\ Needed <= Len(AtMostTwo)

\* The lines that are not dropped go to the file once, in the order in which
\* they were appended: the file, the buffers being written, those waiting and
\* the current one make up the stream.
Unwritten == Lines(SubSeq(buffersToWrite, written + 1, Len(buffersToWrite)))
               \o Lines(buffers) \o currentBuffer[1]
NothingLost ==
  SelectSeq(appended, LAMBDA line : line \notin dropped)
    = SelectSeq(file, LAMBDA line : line \in Message) \o Unwritten

\* Lines are dropped only when threadFunc() cannot keep up, the file says so at
\* that place, and what is kept are the lines that follow those in the file: a
\* drop leaves a gap after two full buffers, not before them.
DropsOnlyWhenBehind ==
  [][dropped' # dropped =>
       LET first == Len(SelectSeq(file, LAMBDA line : line \in Message))
                      + Cardinality(dropped)
       IN  /\ Len(buffersToWrite) > MaxBuffers
           /\ Len(file') = Len(file) + 1 /\ file'[Len(file')] \notin Message
           /\ Lines(buffersToWrite') =
                SubSeq(appended, first + 1, first + 2 * (BufferSize - 1))]_vars

\* A line is flushed to the file, or dropped, if the logger is not stopped.
LinesReachTheFile ==
  \A n \in 1 .. MaxLines :
    (running /\ n <= Len(appended))
      ~> \/ ~running
         \/ /\ n <= Len(appended)
            /\ appended[n] \in ToSet(SubSeq(file, 1, flushed)) \cup dropped

\* The buffers go round between append() and threadFunc(), no line is lost on the
\* way, and the files are rolled in time: BuffersInv, NothingLost and RollsInTime.
LogInv == BuffersInv /\ NothingLost /\ RollsInTime
=============================================================================
