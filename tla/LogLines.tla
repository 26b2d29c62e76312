------------------------------ MODULE LogLines ------------------------------
(***************************************************************************)
(* base/Logging.{h,cc} and base/LogStream.{h,cc}, in one thread: a Logger  *)
(* puts the parts of a line into a buffer of kSmallBuffer characters, and  *)
(* its destructor gives them to the output function.  An argument of << may*)
(* be a call that logs: Loggers form a stack.  A character is a string; a  *)
(* time has one character for the second, and the text of a double, made by*)
(* snprintf(), is given with it.                                           *)
(***************************************************************************)
EXTENDS Connections

CONSTANTS
  kSmallBuffer, kMaxNumericSize,
  Texts,                 \* strings that are logged: sequences of characters
  Integers8, Pointers,   \* numbers; the smallest integer and the largest pointer are logged
  MaxParts, MaxLines,    \* bounds: arguments of <<, and lines
  MaxSecond              \* bound: time

digits == <<"9", "8", "7", "6", "5", "4", "3", "2", "1",
            "0", "1", "2", "3", "4", "5", "6", "7", "8", "9">>
zero(lsd) == digits[lsd + 10]
digitsHex == <<"0", "1", "2", "3", "4", "5", "6", "7",
               "8", "9", "A", "B", "C", "D", "E", "F">>

\* Division of C++, which rounds towards zero: the remainder of a negative number
\* is negative.
Quotient(i, n) == IF i >= 0 THEN i \div n ELSE -((-i) \div n)
Remainder(i, n) == i - n * Quotient(i, n)

Digits[i \in Int] ==
  <<zero(Remainder(i, 10))>>
    \o IF Quotient(i, 10) = 0 THEN <<>> ELSE Digits[Quotient(i, 10)]
HexDigits[i \in Nat] ==
  <<digitsHex[(i % 16) + 1]>> \o IF i \div 16 = 0 THEN <<>> ELSE HexDigits[i \div 16]

convert(value) == Reverse(Digits[value] \o IF value < 0 THEN <<"-">> ELSE <<>>)
convertHex(value) == Reverse(HexDigits[value])

-----------------------------------------------------------------------------
avail(buf) == kSmallBuffer - Len(buf)

\* append() that fills the buffer to the last character.
appendToTheEnd(buf, text) == IF avail(buf) >= Len(text) THEN buf \o text ELSE buf

\* FixedBuffer::append(): all of it or nothing.
append(buf, text) == IF avail(buf) > Len(text) THEN buf \o text ELSE buf

\* A number is put where kMaxNumericSize characters are free.
formatInteger(buf, v) == IF avail(buf) >= kMaxNumericSize THEN buf \o convert(v) ELSE buf
formatPointer(buf, v) ==
  IF avail(buf) >= kMaxNumericSize THEN buf \o <<"0", "x">> \o convertHex(v) ELSE buf
formatDouble(buf, text) == IF avail(buf) >= kMaxNumericSize THEN buf \o text ELSE buf

Text(t) == [kind |-> "text", text |-> t, value |-> 0]
Number(kind, v) == [kind |-> kind, text |-> <<>>, value |-> v]
Double == [kind |-> "double", text |-> <<"1", ".", "5">>, value |-> 0]
Parts ==
  {Text(t) : t \in Texts}
    \cup {Number("int", Min(Integers8)), Number("pointer", Max(Pointers)), Double}

\* operator<<.
Stream(buf, part) ==
  CASE part.kind = "text" -> append(buf, part.text)
    [] part.kind = "int" -> formatInteger(buf, part.value)
    [] part.kind = "pointer" -> formatPointer(buf, part.value)
    [] part.kind = "double" -> formatDouble(buf, part.text)

\* Several << on a Logger: its buffer, and all that was given to it.
StreamAll(logger, parts) ==
  [logger EXCEPT !.buffer = FoldLeft(Stream, @, parts), !.parts = @ \o parts]

-----------------------------------------------------------------------------
\* t_time is the text of t_lastSecond; output is the line that was last written.
Init ==
  /\ ConnectionsInit
  /\ \E level \in 1..2 :
       app = [logLevel |-> level, loggers |-> <<>>, lines |-> 0, given |-> 0, time |-> 1,
              lastSecond |-> 0, t_time |-> <<>>, output |-> <<>>, written |-> 0, flushed |-> 0,
              up |-> TRUE]

\* formatTime() that keeps the text of the last line.
formatTimeOnce(second) ==
  IF app.lastSecond = 0
  THEN [app EXCEPT !.time = second, !.lastSecond = second, !.t_time = convert(second)]
  ELSE [app EXCEPT !.time = second, !.lastSecond = second]

\* formatTime(): the text changes with the second.
formatTime(second) ==
  IF app.lastSecond # second
  THEN [app EXCEPT !.time = second, !.lastSecond = second, !.t_time = convert(second)]
  ELSE [app EXCEPT !.time = second]

\* Levels: 1 TRACE and DEBUG, 2 INFO, 3 WARN and ERROR, 4 FATAL.
\* The macros up to LOG_INFO look at the level; LOG_SYSERR and LOG_SYSFATAL have errno.
Macro(level, savedErrno) ==
  (level <= 2 => level >= app.logLevel) /\ (savedErrno # 0 => level \in {3, 4})

\* The constructors: time, level and errno; LOG_TRACE has the name of the function.
Log(level, savedErrno, second) ==
  LET timed == formatTime(second)
      new == [level |-> level, second |-> second, buffer |-> <<>>, parts |-> <<>>]
      errno == IF savedErrno = 0 THEN <<>> ELSE <<Text(<<"(">>), Number("int", savedErrno), Text(<<")">>)>>
      func == IF level = 1 THEN <<Text(<<"f">>)>> ELSE <<>>
  IN  /\ app.up /\ app.lines < MaxLines /\ Len(app.loggers) < 2
      /\ Macro(level, savedErrno)
      /\ app' = [timed EXCEPT !.lines = @ + 1,
                   !.loggers = Append(@, StreamAll(new,
                      <<Text(timed.t_time), Text(<<"L">>)>> \o errno \o func))]

Arguments(part) ==
  LET n == Len(app.loggers)
  IN  /\ app.up /\ n > 0 /\ app.given < MaxParts
      /\ app' = [app EXCEPT !.loggers[n] = StreamAll(@, <<part>>), !.given = @ + 1]

\* finish(), in the destructor: the file and the line at the end.
finish(logger) ==
  StreamAll(logger, <<Text(<<" ", "-", " ">>), Number("int", 7), Text(<<"n">>)>>)

\* ~Logger(): after a fatal error the output is flushed and the program ends.
Destroy ==
  /\ app.up /\ app.loggers # <<>>
  /\ LET line == finish(Last(app.loggers))
     IN  app' = [app EXCEPT !.loggers = Front(@), !.output = <<line>>, !.written = @ + 1,
                   !.flushed = IF line.level = 4 THEN app.written + 1 ELSE @,
                   !.up = line.level # 4]

Next ==
  /\ \/ \E level \in 1..4, e \in {0, 9}, s \in app.time..MaxSecond : Log(level, e, s)
     \/ \E part \in Parts : Arguments(part)
     \/ Destroy
  /\ UNCHANGED <<conn, sent, queue>>

-----------------------------------------------------------------------------
\* What a text says, read from the left: a definition of its own.
Reads(text, base, value) ==
  /\ text # <<>> /\ ToSet(text) \subseteq {digitsHex[k] : k \in 1..base}
  /\ value = FoldLeft(LAMBDA n, d : n * base + (CHOOSE k \in 1..16 : digitsHex[k] = d) - 1,
                      0, text)
Says(part, text) ==
  CASE part.kind \in {"text", "double"} -> text = part.text
    [] part.kind = "pointer" ->
         Len(text) > 2 /\ SubSeq(text, 1, 2) = <<"0", "x">> /\ Reads(SubSeq(text, 3, Len(text)), 16, part.value)
    [] part.kind = "int" ->
         IF part.value < 0
         THEN text # <<>> /\ text[1] = "-" /\ Reads(Tail(text), 10, -part.value)
         ELSE Reads(text, 10, part.value)

\* Are these characters the parts, one after the other, each whole or, when some
\* may be missing, left out?
Shows(buffer, parts, missing) ==
  LET Sizes(part) == IF part.text # <<>> THEN {Len(part.text)} ELSE 1..kMaxNumericSize
      shows[k \in 1..Len(parts) + 1, at \in 0..Len(buffer)] ==
        IF k > Len(parts) THEN at = Len(buffer)
        ELSE \/ missing /\ shows[k + 1, at]
             \/ \E n \in Sizes(parts[k]) :
                  /\ at + n <= Len(buffer) /\ Says(parts[k], SubSeq(buffer, at + 1, at + n))
                  /\ shows[k + 1, at + n]
  IN  shows[1, 0]

\* No part of a line overruns the buffer, not even by the 0 that convert() puts
\* behind a number; a line is made of whole parts in their order, numbers as one
\* reads them, and has all of them unless it came within kMaxNumericSize of the end,
\* or a text of that size or more did not fit earlier; its time is that of the second in which it was begun, also when other
\* lines were logged in between; and a fatal line is flushed before the program
\* ends.
LinesAreWhole ==
  /\ app.lines = 0 =>
       /\ \A v \in Integers8 : Says(Number("int", v), convert(v))
       /\ \A v \in Pointers : Says(Number("pointer", v), <<"0", "x">> \o convertHex(v))
  /\ \A logger \in ToSet(app.output \o app.loggers) :
       /\ Len(logger.buffer) < kSmallBuffer
       /\ Shows(logger.buffer, logger.parts, TRUE)
       /\ Len(logger.buffer) + kMaxNumericSize <= kSmallBuffer =>
            \/ Shows(logger.buffer, logger.parts, FALSE)
            \/ \E p \in ToSet(logger.parts) : Len(p.text) >= kMaxNumericSize
       /\ SubSeq(logger.buffer, 1, Len(convert(logger.second))) = convert(logger.second)
  /\ ~app.up => app.flushed = app.written /\ app.output[1].level = 4
=============================================================================
