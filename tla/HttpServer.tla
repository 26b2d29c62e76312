----------------------------- MODULE HttpServer -----------------------------
(***************************************************************************)
(* muduo/net/http: HttpServer, with HttpContext and HttpRequest for the    *)
(* state of its parser and HttpResponse for the answer.  A word of the     *)
(* request is one byte here, as a decoder of lines looks for CR, LF, space *)
(* and colon only.  Of a response, its status and whether it says that the *)
(* connection is closed are kept; the version of a request and its         *)
(* Connection header decide that.                                          *)
(***************************************************************************)
EXTENDS Codecs

Methods == {<<"GET">>, <<"POST">>, <<"HEAD">>, <<"PUT">>, <<"DELETE">>}
Versions == {<<"HTTP/1.0">>, <<"HTTP/1.1">>}
kInvalid == <<"kInvalid">>

\* A new HttpRequest; the headers are a set of pairs of a field and its value.
NewRequest == [method |-> kInvalid, version |-> <<"kUnknown">>, path |-> <<>>, headers |-> {}]

\* HttpContext::HttpContext().
HttpContext == [state |-> "kExpectRequestLine", request |-> NewRequest]

\* A reset() that forgets the headers.
resetKeepsHeaders(context) ==
  [context EXCEPT !.state = "kExpectRequestLine", !.request.method = kInvalid]

\* HttpRequest::swap() with a new request: it leaves version_ alone.
swap(request) == [NewRequest EXCEPT !.version = request.version]

\* HttpContext::reset().
reset(context) == [state |-> "kExpectRequestLine", request |-> swap(context.request)]

\* HttpRequest::setMethod().
setMethod(request, word) ==
  [request EXCEPT !.method = IF word \in Methods THEN word ELSE kInvalid]

\* processRequestLine(): what it has set stays set when it fails later.
\* setMethod() asserts that there is no method yet.
processRequestLine(s, line) ==
  LET end == Len(line) + 1
      space == find(line, "SP", 1, end)
      space2 == find(line, "SP", space + 1, end)
      request == s.my.request
      method == setMethod(request, Before(line, space))
      path == [method EXCEPT !.path = Between(line, space, space2)]
      version == [path EXCEPT !.version = Between(line, space2, end)]
      With(r, ok) == [s |-> [s EXCEPT !.my.request = r], ok |-> ok]
  IN  IF space = end THEN With(request, FALSE)
      ELSE IF request.method # kInvalid
      THEN [s |-> [s EXCEPT !.conn = "aborted"], ok |-> FALSE]
      ELSE IF method.method = kInvalid \/ space2 = end THEN With(method, FALSE)
      ELSE IF version.version \in Versions THEN With(version, TRUE)
      ELSE With(path, FALSE)

\* HttpRequest::addHeader(): headers_[field] = value, without the spaces around
\* the value.
Trimmed(value) ==
  LET words == {i \in DOMAIN value : value[i] # "SP"}
  IN  IF words = {} THEN <<>> ELSE SubSeq(value, Min(words), Max(words))

addHeader(request, field, value) ==
  [request EXCEPT !.headers =
     {h \in @ : h[1] # field} \cup {<<field, Trimmed(value)>>}]

\* parseRequest(), from one line to the next.  A line without a colon is taken
\* for the empty line at the end of the headers.
RECURSIVE parseRequest(_)
parseRequest(s) ==
  LET crlf == findCRLF(s.buf, 1)
      colon == find(s.buf, "COLON", 1, crlf)
      line == processRequestLine(s, Before(s.buf, crlf))
      rest == consume(s, crlf + 1)
  IN  CASE crlf = 0 -> [s |-> s, ok |-> TRUE]
        [] crlf # 0 /\ s.my.state = "kExpectRequestLine" ->
             IF line.ok
             THEN parseRequest([consume(line.s, crlf + 1) EXCEPT !.my.state = "kExpectHeaders"])
             ELSE line
        [] crlf # 0 /\ s.my.state = "kExpectHeaders" ->
             IF colon # crlf
             THEN parseRequest([rest EXCEPT !.my.request =
                    addHeader(@, Before(s.buf, colon), Between(s.buf, colon, crlf))])
             ELSE [s |-> [rest EXCEPT !.my.state = "kGotAll"], ok |-> TRUE]

\* HttpRequest::getHeader().
getHeader(request, field) ==
  IF \E h \in request.headers : h[1] = field
  THEN (CHOOSE h \in request.headers : h[1] = field)[2] ELSE <<>>

\* defaultHttpCallback().
defaultHttpCallback(response) == [response EXCEPT !.status = 404, !.close = TRUE]

\* A user's httpCallback_, which answers the path "app" and no other.
httpCallback(request, response) ==
  IF request.path = <<"app">> THEN [response EXCEPT !.status = 200]
                              ELSE defaultHttpCallback(response)

\* HttpResponse::HttpResponse() and appendToBuffer(): with the connection kept, the
\* peer finds the end of the body by Content-Length.
HttpResponse(close) == [status |-> 0, close |-> close]
appendToBuffer(response) ==
  [status |-> response.status,
   headers |-> IF response.close THEN {"Connection: close"}
               ELSE {"Connection: Keep-Alive", "Content-Length"}]

\* onRequest().
onRequest(s) ==
  LET request == s.my.request
      connection == getHeader(request, <<"Connection">>)
      close == \/ connection = <<"close">>
               \/ request.version = <<"HTTP/1.0">> /\ connection # <<"Keep-Alive">>
      response == httpCallback(request, HttpResponse(close))
      answered == send(s, <<request.method, request.path, appendToBuffer(response)>>)
  IN  IF response.close THEN shutdown(answered) ELSE answered

\* onMessage(): a request at most, although more may be in the buffer.
onHttpMessage(s) ==
  LET parsed == parseRequest(s)
      replied == IF parsed.ok THEN parsed.s ELSE shutdown(send(parsed.s, "400 Bad Request"))
  IN  IF replied.my.state = "kGotAll"
      THEN [onRequest(replied) EXCEPT !.my = reset(@)] ELSE replied
=============================================================================
