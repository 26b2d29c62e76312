------------------------------- MODULE Framing -------------------------------
(***************************************************************************)
(* TCP is a stream of bytes: a message arrives in any number of pieces,    *)
(* several may arrive at once, and a decoder sees whatever is in the input *)
(* buffer each time onMessage() is called.  This module gives a stream to  *)
(* one of the decoders of the repository, cut in every possible way.       *)
(***************************************************************************)
EXTENDS Codecs

CONSTANTS
  Codecs,        \* the decoders that are tried
  Items(_),      \* what the peer of a decoder may send, see below
  MaxItems       \* bound: how many items it sends

VARIABLES
  codec,         \* the decoder
  script,        \* the items that the peer sends
  received,      \* how many bytes of them have arrived
  s              \* the decoder's connection, buffer, members and output

vars == <<codec, script, received, s>>

Http == INSTANCE HttpServer

(***************************************************************************)
(* An item has the bytes of a message, what the decoder makes of it, and   *)
(* its kind: good; last, when the server closes after it; bad, when the    *)
(* decoder must refuse it.                                                 *)
(***************************************************************************)
Item(bytes, out, kind) == [bytes |-> bytes, out |-> out, kind |-> kind]

Stream(items) == FlattenSeq([i \in DOMAIN items |-> items[i].bytes])
End(n) == Len(Stream(SubSeq(script, 1, n)))

Members(c) == CASE c = "http" -> Http!HttpContext
                [] c = "fastcgi" -> FastCgiCodec
                [] OTHER -> <<>>

onPiece(c, d) ==
  CASE c = "rpc" -> onRpcMessage(d)
    [] c = "protobuf" -> onProtobufMessage(d)
    [] c = "chat" -> onChatMessage(d)
    [] c = "hub" -> onHubMessage(d)
    [] c = "sudoku" -> onSudokuMessage(d)
    [] c = "http" -> Http!onHttpMessage(d)
    [] c = "fastcgi" -> onFastCgiMessage(d)

Init ==
  /\ codec \in Codecs
  /\ script \in UNION {[1 .. n -> Items(codec)] : n \in 1 .. MaxItems}
  /\ received = 0
  /\ s = Decoder(Members(codec))

\* The first item that is not good.
FirstEnd == Min({n \in DOMAIN script : script[n].kind # "good"} \cup {Len(script) + 1})

\* A FastCGI client does not send a request before the answer to the last one,
\* nor after one that says that the connection is not kept.
MaySend == IF codec = "fastcgi" THEN End(Min({Len(s.out) + 1, FirstEnd, Len(script)}))
                                ELSE End(Len(script))

\* handleRead(), when the next len bytes have arrived: onMessage() is called.  The end
\* of the stream and errors are in TcpConnection.tla.
Arrive(len) ==
  /\ s.conn \in {"up", "shutdown"}
  /\ received' = received + len
  /\ s' = onPiece(codec, [s EXCEPT !.buf =
                            @ \o SubSeq(Stream(script), received + 1, received + len)])
  /\ UNCHANGED <<codec, script>>

Next == \E len \in 1 .. MaySend - received : Arrive(len)

Spec == Init /\ [][Next]_vars

-----------------------------------------------------------------------------
\* The items that have arrived in full.
Arrived == Max({n \in 0 .. Len(script) : End(n) <= received})

\* What the decoder must make of the stream: the good items, and a last one.
Expected ==
  [n \in 1 .. FirstEnd - (IF FirstEnd <= Len(script) /\ script[FirstEnd].kind = "last"
                          THEN 0 ELSE 1) |-> script[n].out]

Consumed == received - Len(s.buf)

\* However the stream is cut, no message is lost, cut, merged with another,
\* delivered twice or before it is complete; at most a refusal follows those
\* that are good.  As long as the connection is up the buffer starts inside the
\* message that comes next, and except for HttpServer, which handles one
\* request in a call, all that has arrived is delivered.
MessagesSurvive ==
  /\ IsPrefix(SubSeq(s.out, 1, Min({Len(s.out), Len(Expected)})), Expected)
  /\ Len(s.out) <= Min({Len(Expected), Arrived}) + (IF s.conn = "up" THEN 0 ELSE 1)
  /\ s.conn = "up" => Consumed >= End(Len(s.out))
  /\ (s.conn = "up" /\ Len(s.out) < Len(script)) => Consumed < End(Len(s.out) + 1)
  /\ codec # "http" => Len(s.out) >= Min({Len(Expected), Arrived})

\* A connection is given up for a reason: a message that is bad has begun to
\* arrive, or the last one is answered.  It is given up at the latest when the
\* message after a bad one has arrived, and nothing more is delivered on it.
RefusedForAReason ==
  /\ s.conn # "up" => FirstEnd <= Len(script) /\ received > End(FirstEnd - 1)
  /\ (Arrived > FirstEnd /\ codec # "http") => s.conn # "up"
  /\ Len(s.out) <= Len(Expected) + 1

-----------------------------------------------------------------------------
(***************************************************************************)
(* For TLC: what the peers of the decoders send.                           *)
(***************************************************************************)
MCParses(data) == 7 \notin ToSet(data)
MCTypeNames == {<<2>>}

Bad(bytes) == Item(bytes, <<>>, "bad")

RpcItems ==
  {Item(RpcSend(data), data, "good") : data \in {<<>>, <<2>>}}
    \cup {Bad(Framed(<<1, 0, 2>>)), Bad(RpcSend(<<7>>)),
          Bad([RpcSend(<<2>>) EXCEPT ![5] = 3]),
          Bad(prependInt32(<<1, 1, 0, 0>>, -1)),
          Bad(prependInt32(<<1, 1, 0>>, 3)),
          Bad(prependInt32(<<1, 1, 0, 0>>, kMaxMessageLen + 1))}

ProtobufItems ==
  {Item(fillEmptyBuffer(<<2>>, data), data, "good") : data \in {<<>>, <<3>>}}
    \cup {Bad(fillEmptyBuffer(<<3>>, <<3>>)), Bad(fillEmptyBuffer(<<>>, <<2, 3>>)),
          Bad(fillEmptyBuffer(<<2>>, <<7>>)), Bad(Framed(<<0, 6, 2, 0, 3>>)),
          Bad([fillEmptyBuffer(<<2>>, <<3>>) EXCEPT ![7] = 2]),
          Bad(prependInt32(<<0, 2, 2, 0, 0>>, 5))}

ChatItems ==
  {Item(ChatSend(data), data, "good") : data \in {<<>>, <<3>>, <<0, 1>>}}
    \cup {Bad(prependInt32(<<1>>, -1)), Bad(prependInt32(<<1>>, kMaxMessageLen + 1))}

Line(words) == words \o CRLF

Pub(content) == Item(Line(<<"pub", "SP", "t">>) \o Line(content),
                     << <<"pub">>, <<"t">>, content>>, "good")
HubItems ==
  {Pub(content) : content \in {<<>>, <<"x">>, <<"x", "CR", "SP">>}}
    \cup {Item(Line(<<cmd, "SP", "t">>), << <<cmd>>, <<"t">> >>, "good")
            : cmd \in {"sub", "unsub"}}
    \cup {Bad(Line(<<"sub">>)), Bad(Line(<<>>))}

Puzzle == <<"1", "2">>
SudokuItems ==
  {Item(Line(Puzzle), [id |-> <<>>, puzzle |-> Puzzle], "good"),
   Item(Line(<<"a", "COLON">> \o Puzzle), [id |-> <<"a">>, puzzle |-> Puzzle], "good"),
   Bad(Line(<<"1">>)), Bad(Line(<<"1", "2", "3">>)),
   Bad(Line([i \in 1 .. MaxId + 1 |-> "a"]))}

Request(method, path, version) == <<method, "SP", path, "SP", version>>
Header(value) == Line(<<"Connection", "COLON", "SP", value>>)
Answer(path, status, close) ==
  << <<"GET">>, <<path>>,
     [status |-> status,
      headers |-> IF close THEN {"Connection: close"}
                  ELSE {"Connection: Keep-Alive", "Content-Length"}]>>
HttpItems ==
  {Item(Line(Request("GET", "app", "HTTP/1.1")) \o CRLF, Answer("app", 200, FALSE), "good"),
   Item(Line(Request("GET", "app", "HTTP/1.0")) \o Header("Keep-Alive") \o CRLF,
        Answer("app", 200, FALSE), "good"),
   Item(Line(Request("GET", "app", "HTTP/1.0")) \o CRLF, Answer("app", 200, TRUE), "last"),
   Item(Line(Request("GET", "app", "HTTP/1.1")) \o Header("close") \o CRLF,
        Answer("app", 200, TRUE), "last"),
   Item(Line(Request("GET", "no", "HTTP/1.1")) \o CRLF, Answer("no", 404, TRUE), "last"),
   Bad(Line(<<"GET">>)), Bad(Line(<<"GET", "SP", "app">>)),
   Bad(Line(Request("GOT", "app", "HTTP/1.1"))), Bad(Line(Request("GET", "app", "HTTP/2")))}

Fcgi1(keep, params, stdin, padding) ==
  Record(1, <<1, keep, 0>>, 0) \o Record(0, <<5>>, 0)
    \o Record(4, SubSeq(params, 1, 2), padding)
    \o Record(4, SubSeq(params, 3, Len(params)), 0) \o Record(4, <<>>, padding)
    \o FlattenSeq([i \in DOMAIN stdin |-> Record(5, stdin[i], padding)])
    \o Record(5, <<>>, 0)
Ended == <<6, 0, 0, 3, 3, 0, 0, 0, 0>>
FastCgiItems ==
  {Item(Fcgi1(1, <<1, 1, 7, 2>>, << <<2>> >>, 2),
        <<{<< <<7>>, <<2>> >>}, <<2>>, <<6, 1, 3, 2, 0, 0, 0>> \o Ended>>, "good"),
   Item(Fcgi1(1, <<4, 1, 0, 7, 3>>, <<>>, 0),
        <<{<< <<7>>, <<>> >>}, <<>>, <<6, 0, 0>> \o Ended>>, "good"),
   Item(Fcgi1(1, <<0, 0>>, << <<2, 2, 2, 2>>, <<3, 3, 3, 3>> >>, 0),
        <<{<< <<>>, <<>> >>}, <<2, 2, 2, 2, 3, 3, 3, 3>>,
          <<2, 2, 2, 2, 3, 3, 3, 3>> \o Ended>>, "good"),
   Item(Fcgi1(0, <<1, 1, 7, 2, 1, 2, 7>>, << <<2, 2>> >>, 1),
        <<{<< <<7>>, <<2>> >>}, <<2, 2>>, <<6, 2, 2, 2, 2, 0, 0>> \o Ended>>, "last")}

MCItems(c) == CASE c = "rpc" -> RpcItems [] c = "protobuf" -> ProtobufItems
                [] c = "chat" -> ChatItems [] c = "hub" -> HubItems
                [] c = "sudoku" -> SudokuItems [] c = "http" -> HttpItems
                [] c = "fastcgi" -> FastCgiItems
=============================================================================
