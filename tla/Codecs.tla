------------------------------- MODULE Codecs -------------------------------
(***************************************************************************)
(* The decoders of the library and of the examples but for HttpServer.tla. *)
(*                                                                         *)
(* Messages that start with their length:                                  *)
(*   muduo/net/protorpc/RpcCodec.{h,cc}        "rpc"                       *)
(*   examples/protobuf/codec/codec.{h,cc}      "protobuf"                  *)
(*   examples/asio/chat/codec.h                "chat"                      *)
(* Serialising a protobuf message is taken as given: its bytes are data    *)
(* that ParseFromArray() accepts or not.                                   *)
(***************************************************************************)
EXTENDS Integers, SequencesExt

CONSTANTS
  Base, kHeaderLen, \* the bytes of an integer: how many values, how many bytes
  kMaxMessageLen,
  Parses(_),       \* ParseFromArray(), on the data
  TypeNames        \* the names createMessage() finds, as bytes

(***************************************************************************)
(* The operations of muduo/net/Buffer.h that decoders use, on the content  *)
(* of the buffer (Buffer.tla has the vector below it), with the byte order *)
(* of muduo/net/Endian.h.  A byte of a binary protocol is a number below   *)
(* Base, and an integer has kHeaderLen of them (256 and 4 in the code); a  *)
(* byte of a text protocol is a name, which may stand for a word.          *)
(***************************************************************************)
ASSUME BytesAssumption == Base \in Nat /\ Base > 1 /\ kHeaderLen \in Nat \ {0}

Range32 == Base ^ kHeaderLen

\* Two's complement, in network byte order.
networkToHost32(bytes) ==
  LET n == FoldLeft(LAMBDA value, byte : value * Base + byte, 0, bytes)
  IN  IF n < Range32 \div 2 THEN n ELSE n - Range32

hostToNetwork32(n) ==
  [i \in 1 .. kHeaderLen |-> ((n % Range32) \div (Base ^ (kHeaderLen - i))) % Base]

peekInt32(buf) == networkToHost32(SubSeq(buf, 1, kHeaderLen))
appendInt32(buf, n) == buf \o hostToNetwork32(n)
prependInt32(buf, n) == hostToNetwork32(n) \o buf
retrieve(buf, len) == SubSeq(buf, len + 1, Len(buf))
readInt32(buf) == [result |-> peekInt32(buf), rest |-> retrieve(buf, kHeaderLen)]

Before(buf, end) == SubSeq(buf, 1, end - 1)
Between(buf, start, end) == SubSeq(buf, start + 1, end - 1)

CRLF == <<"CR", "LF">>

\* The place of the first CRLF at or after start, 0 for NULL.
findCRLF(buf, start) ==
  LET found == {i \in start .. Len(buf) - 1 : SubSeq(buf, i, i + 1) = CRLF}
  IN  IF found = {} THEN 0 ELSE Min(found)

\* The place of the first c from start on, end when there is none: std::find().
find(buf, c, start, end) ==
  LET found == {i \in start .. end - 1 : buf[i] = c}
  IN  IF found = {} THEN end ELSE Min(found)

(***************************************************************************)
(* A decoder on one connection: the input buffer, what it has delivered or *)
(* answered so far, the connection, and the members of the decoder.  The   *)
(* connection is up, or shutdown() was called; or the thread is lost in a  *)
(* loop of the decoder, or has met an assertion that fails.                *)
(***************************************************************************)
Decoder(members) == [buf |-> <<>>, out |-> <<>>, conn |-> "up", my |-> members]

deliver(s, m) == [s EXCEPT !.out = Append(@, m)]

\* TcpConnection::send() and shutdown(), which need state_ == kConnected.
send(s, m) == IF s.conn = "up" THEN deliver(s, m) ELSE s
shutdown(s) == [s EXCEPT !.conn = IF @ = "up" THEN "shutdown" ELSE @]

consume(s, len) == [s EXCEPT !.buf = retrieve(@, len)]

-----------------------------------------------------------------------------
\* "RPC0".
Tag == [i \in 1 .. kHeaderLen |-> 1]

kMinMessageLen(codec) ==
  CASE codec = "rpc" -> 2 * kHeaderLen
    [] codec = "protobuf" -> 2 * kHeaderLen + 2

\* adler32(), as an int32_t: what matters is that one wrong byte shows.
adler32(bytes) ==
  networkToHost32(hostToNetwork32(FoldLeft(LAMBDA x, y : x + y, 1, bytes)))

-----------------------------------------------------------------------------
\* The end of RpcCodec::send() and of fillEmptyBuffer().
Framed(body) == LET summed == appendInt32(body, adler32(body))
                IN  prependInt32(summed, Len(summed))

RpcSend(data) == Framed(Tag \o data)

\* fillEmptyBuffer(); the name has a 0 at its end.
fillEmptyBuffer(typeName, data) ==
  Framed(hostToNetwork32(Len(typeName) + 1) \o typeName \o <<0>> \o data)

\* LengthHeaderCodec::send().
ChatSend(data) == prependInt32(data, Len(data))

-----------------------------------------------------------------------------
Error(code) == [error |-> code, data |-> <<>>]
Parsed(data) == IF Parses(data) THEN [error |-> "kNoError", data |-> data]
                                ELSE Error("kParseError")

\* RpcCodec::parse(), past the checksum.
RpcParse(body) ==
  IF SubSeq(body, 1, kHeaderLen) = Tag
  THEN Parsed(SubSeq(body, kHeaderLen + 1, Len(body)))
  ELSE Error("kUnknownMessageType")

\* createMessage() finds the prototype of a type.
createMessage(typeName) == typeName \in TypeNames

\* ProtobufCodec::parse(), past the checksum.
ProtobufParse(body) ==
  LET nameLen == peekInt32(body)
      typeName == SubSeq(body, kHeaderLen + 1, kHeaderLen + nameLen - 1)
  IN  CASE nameLen < 2 \/ nameLen > Len(body) - kHeaderLen -> Error("kInvalidNameLen")
        [] nameLen \in 2 .. Len(body) - kHeaderLen /\ ~createMessage(typeName) ->
             Error("kUnknownMessageType")
        [] OTHER -> Parsed(SubSeq(body, kHeaderLen + nameLen + 1, Len(body)))

\* parse() of len bytes: the last ones are the checksum of the others.
parse(codec, bytes) ==
  LET body == SubSeq(bytes, 1, Len(bytes) - kHeaderLen)
  IN  CASE adler32(body) # networkToHost32(retrieve(bytes, Len(body))) ->
             Error("kCheckSumError")
        [] adler32(body) = networkToHost32(retrieve(bytes, Len(body))) ->
             IF codec = "rpc" THEN RpcParse(body) ELSE ProtobufParse(body)

\* A callback that does nothing but log.
errorCallbackLogs(s) == s

\* errorCallback_ is defaultErrorCallback(): the connection is shut down.  The
\* while loop of onMessage() does not break then, and nothing has changed.
errorCallback(s) == [shutdown(s) EXCEPT !.conn = "spins"]

\* Has the message arrived that starts with the length len?
Complete(s, len) == Len(s.buf) >= len + kHeaderLen

\* onMessage() of the two codecs, which are the same but for kMinMessageLen and
\* parse().
RECURSIVE onMessage(_, _)
onMessage(codec, s) ==
  LET len == peekInt32(s.buf)
      result == parse(codec, SubSeq(s.buf, kHeaderLen + 1, kHeaderLen + len))
      valid == len \in kMinMessageLen(codec) .. kMaxMessageLen
  IN  IF \/ Len(s.buf) < kMinMessageLen(codec) + kHeaderLen
         \/ valid /\ ~Complete(s, len)
      THEN s
      ELSE IF valid /\ result.error = "kNoError"
      THEN onMessage(codec, consume(deliver(s, result.data), kHeaderLen + len))
      ELSE errorCallback(s)

onRpcMessage(s) == onMessage("rpc", s)
onProtobufMessage(s) == onMessage("protobuf", s)

\* LengthHeaderCodec::onMessage().
RECURSIVE onChatMessage(_)
onChatMessage(s) ==
  LET len == peekInt32(s.buf)
      body == SubSeq(s.buf, kHeaderLen + 1, kHeaderLen + len)
      valid == len \in 0 .. kMaxMessageLen
  IN  IF Len(s.buf) < kHeaderLen \/ (valid /\ ~Complete(s, len)) THEN s
      ELSE IF valid
      THEN onChatMessage(consume(deliver(s, body), kHeaderLen + len))
      ELSE shutdown(s)

-----------------------------------------------------------------------------
(***************************************************************************)
(* The protocols of lines that end with CRLF:                              *)
(*   examples/hub/codec.{h,cc}, as the hub's onMessage() calls it   "hub"  *)
(*   examples/sudoku/server_basic.cc                            "sudoku"   *)
(***************************************************************************)
CONSTANTS
  kCells,       \* the cells of a puzzle
  MaxId         \* the 100 bytes that a request may be long

\* parseMessage().
parseMessage(buf) ==
  LET crlf == findCRLF(buf, 1)
      space == find(buf, "SP", 1, crlf)
      cmd == Before(buf, space)
      topic == Between(buf, space, crlf)
      crlf2 == findCRLF(buf, crlf + 2)
      Result(result, len, message) == [result |-> result, len |-> len, message |-> message]
      Nothing(result) == Result(result, 0, <<>>)
  IN  IF crlf = 0 THEN Nothing("kContinue")
      ELSE IF space = crlf THEN Nothing("kError")
      ELSE IF cmd # <<"pub">> THEN Result("kSuccess", crlf + 1, <<cmd, topic>>)
      ELSE IF crlf2 = 0 THEN Nothing("kContinue")
      ELSE Result("kSuccess", crlf2 + 1, <<cmd, topic, Between(buf, crlf + 1, crlf2)>>)

Known == {<<"pub">>, <<"sub">>, <<"unsub">>}

\* PubSubServer::onMessage(): messages are handled while there are any; it is
\* over with an error, or with a command that does not exist.
RECURSIVE onHubMessage(_)
onHubMessage(s) ==
  LET r == parseMessage(s.buf)
  IN  CASE r.result = "kContinue" -> s
        [] r.result = "kError" -> shutdown(s)
        [] r.result = "kSuccess" ->
             IF r.message[1] \in Known
             THEN onHubMessage(consume(deliver(s, r.message), r.len))
             ELSE shutdown(consume(s, r.len))

\* processRequest(): an id, if there is a colon, and the puzzle.  The answer is
\* the id and what solveSudoku() makes of the puzzle.
processRequest(request) ==
  LET end == Len(request) + 1
      colon == find(request, "COLON", 1, end)
  IN  IF colon = end THEN [id |-> <<>>, puzzle |-> request]
      ELSE [id |-> Before(request, colon), puzzle |-> Between(request, colon, end)]

\* SudokuServer::onMessage().
RECURSIVE onSudokuMessage(_)
onSudokuMessage(s) ==
  LET crlf == findCRLF(s.buf, 1)
      request == processRequest(Before(s.buf, crlf))
      rest == consume(s, crlf + 1)
  IN  IF \/ Len(s.buf) < kCells + 2
         \/ crlf = 0 /\ Len(s.buf) <= MaxId
      THEN s
      ELSE IF crlf = 0 THEN shutdown(send(s, "Id too long!"))
      ELSE IF Len(request.puzzle) = kCells THEN onSudokuMessage(send(rest, request))
      ELSE shutdown(send(rest, "Bad Request!"))

-----------------------------------------------------------------------------
(***************************************************************************)
(* examples/fastcgi/fastcgi.{h,cc}: the records of a request arrive on the *)
(* connection, its parameters and its input are collected from them, and   *)
(* the callback gets both.                                                 *)
(*                                                                         *)
(* A header has three bytes: type, length and padding (the version, the id *)
(* and the unused byte are not looked at).  A length of a parameter has    *)
(* one byte, or kHeaderLen of them when the first has its high bit set.    *)
(***************************************************************************)
kRecordHeader == 3

kFcgiBeginRequest == 1
kFcgiEndRequest == 3
kFcgiParams == 4
kFcgiStdin == 5
kFcgiStdout == 6

kFcgiResponder == 1
kFcgiKeepConn == 1

HighBit == Base \div 2

\* FastCgiCodec::FastCgiCodec().  params_ is a set of pairs.
FastCgiCodec ==
  [gotRequest |-> FALSE, keepConn |-> FALSE, stdin |-> <<>>, paramsStream |-> <<>>,
   params |-> {}]

\* readLen(): the length and what it leaves of the stream.
readLen(stream) ==
  IF stream = <<>> THEN [len |-> -1, rest |-> stream]
  ELSE IF stream[1] < HighBit THEN [len |-> stream[1], rest |-> Tail(stream)]
  ELSE IF Len(stream) < kHeaderLen THEN [len |-> -1, rest |-> stream]
  ELSE LET word == readInt32(stream)
       IN  [len |-> word.result % (Range32 \div 2), rest |-> word.rest]

\* parseAllParams(): what comes before an error is kept.
RECURSIVE parseAllParams(_)
Param(my, name, value, stream) ==
  IF name = -1 \/ value = -1 \/ Len(stream) < name + value THEN [my EXCEPT !.paramsStream = stream]
  ELSE parseAllParams(
         [my EXCEPT !.paramsStream = retrieve(stream, name + value),
                    !.params = {p \in @ : p[1] # SubSeq(stream, 1, name)}
                               \cup {<<SubSeq(stream, 1, name), SubSeq(stream, name + 1, name + value)>>}])
parseAllParams(my) ==
  LET name == readLen(my.paramsStream)
      value == readLen(name.rest)
  IN  Param(my, name.len, value.len, value.rest)

onParams(my, content) ==
  IF content # <<>> THEN [my EXCEPT !.paramsStream = @ \o content] ELSE parseAllParams(my)

onStdin(my, content) ==
  IF content # <<>> THEN [my EXCEPT !.stdin = @ \o content] ELSE [my EXCEPT !.gotRequest = TRUE]

\* onBeginRequest(): the content is a role, flags and a byte that is not used.
onBeginRequest(my, content) ==
  IF Len(content) >= kRecordHeader /\ content[1] = kFcgiResponder
  THEN [my EXCEPT !.keepConn = content[2] = kFcgiKeepConn] ELSE my

onRecord(my, type, content) ==
  CASE type = kFcgiBeginRequest -> onBeginRequest(my, content)
    [] type = kFcgiParams -> onParams(my, content)
    [] type = kFcgiStdin -> onStdin(my, content)
    [] OTHER -> my

\* A parseRequest() that leaves the padding in the buffer.
TotalUnpadded(buf) == kRecordHeader + buf[2]

Total(buf) == kRecordHeader + buf[2] + buf[3]

\* parseRequest(): all the records that are complete.
RECURSIVE parseFastCgiRequest(_)
parseFastCgiRequest(s) ==
  IF Len(s.buf) < kRecordHeader \/ Len(s.buf) < Total(s.buf) THEN s
  ELSE parseFastCgiRequest(
         [consume(s, Total(s.buf)) EXCEPT !.my =
            onRecord(@, s.buf[1], SubSeq(s.buf, kRecordHeader + 1, kRecordHeader + s.buf[2]))])

\* respond(), with endStdout() and endRequest(): the body is filled up with
\* zeros to a multiple of Align (8 in the code).  A body that is too long for the
\* length of a record (65536 in the code) goes without the header of one.
Align == Base \div 2
Record(type, content, padding) ==
  <<type, Len(content), padding>> \o content \o [i \in 1 .. padding |-> 0]
endStdout == Record(kFcgiStdout, <<>>, 0)
endRequest == Record(kFcgiEndRequest, [i \in 1 .. kRecordHeader |-> 0], 0)
respond(response, prependableBytes) ==
  (IF Len(response) < Base /\ prependableBytes >= kRecordHeader
   THEN Record(kFcgiStdout, response, (- Len(response)) % Align) ELSE response)
    \o endStdout \o endRequest

\* onMessage(), with a callback that answers with the input, in a new Buffer: its
\* kCheapPrepend is kRecordHeader.
callback(s) ==
  [deliver(s, <<s.my.params, s.my.stdin, respond(s.my.stdin, kRecordHeader)>>) EXCEPT
     !.my = [FastCgiCodec EXCEPT !.keepConn = s.my.keepConn]]
handleRequest(s) ==
  IF ~s.my.gotRequest THEN s
  ELSE IF s.my.keepConn THEN callback(s) ELSE shutdown(callback(s))
onFastCgiMessage(s) == handleRequest(parseFastCgiRequest(s))
=============================================================================
