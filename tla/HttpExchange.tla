---------------------------- MODULE HttpExchange ----------------------------
(***************************************************************************)
(* A client and a server of the library over one connection after another: *)
(* HttpServer::handleClient with HttpSession::recvRequest, and             *)
(* HttpConnectionPool::doRequest with HttpConnection::recvResponse.  Each  *)
(* side writes a whole message and reads what has come in pieces of any    *)
(* size.  A request in chunks comes from a client of another make.         *)
(* Connections share nothing: the next is opened when the server has left  *)
(* the one before.                                                         *)
(***************************************************************************)
EXTENDS HttpParser

CONSTANTS
  Requests,      \* the requests to send
  Bodies,        \* the bodies the servlets answer with
  KeepAlive,     \* HttpServer::m_isKeepalive
  MaxRequest,    \* HttpConnectionPool::m_maxRequest
  ReadSizes,     \* bound: symbols of a read, beside all there are
  SplitAnywhere, \* FALSE: no read ends in, or at the end of, a URL, a name or a value
  MaxSends       \* bound: requests sent

\* recv brings at least one byte, or it says that the stream has ended.
ASSUME ExchangeAssumption == ReadSizes \subseteq Nat \ {0}

VARIABLES
  current,       \* the request sent last
  served,        \* how often a servlet has been given it
  up, down,      \* what is on its way to the server and to the client
  copen, sopen,  \* the socket of each side is open
  cpc, spc,      \* where each side is
  cp, sp,        \* its parser
  made,          \* the response made last
  got,           \* the result of doRequest
  uses,          \* HttpConnection::m_request
  sends

client == <<current, copen, cpc, cp, got, uses, sends>>
httpVars == <<current, served, up, down, copen, sopen, cpc, spc, cp, sp, made, got, uses, sends>>

(***************************************************************************)
(* HttpRequest::dump and HttpResponse::dump, and a body in chunks.         *)
(***************************************************************************)
Connection == <<"Connec", "tion">>
ContentLength == <<"Content-", "Length">>
TransferEncoding == <<"Transfer-", "Encoding">>
Crlf == <<"CR", "LF">>
Line(name, value) == name \o <<":", "SP">> \o value \o Crlf
Lines(h) == FoldLeft(LAMBDA s, n : s \o Line(n, h[n]), <<>>, SetToSeq(DOMAIN h))
VersionText(v) == <<"HTTP", "/", Digit(v[1]), ".", Digit(v[2])>>
CloseText(close) == IF close THEN <<"cl", "ose">> ELSE <<"keep", "-alive">>
Length(body) ==
  (IF body = <<>> THEN <<>> ELSE Line(ContentLength, Decimal(Len(body)))) \o Crlf \o body
Chunk(s) == Decimal(Len(s)) \o Crlf \o s \o Crlf
Chunked(body) ==
  Line(TransferEncoding, <<"chun", "ked">>) \o Crlf
    \o Chunk(SubSeq(body, 1, 2)) \o Chunk(SubSeq(body, 3, Len(body))) \o <<"0">> \o Crlf \o Crlf
RequestText(r) ==
  <<r.method, "SP">> \o r.path \o Opt("?", r.query) \o <<"SP">> \o VersionText(r.version) \o Crlf
    \o Line(Connection, CloseText(r.close)) \o Lines(r.headers)
    \o (IF r.chunked THEN Chunked(r.body) ELSE Length(r.body))
ResponseText(r) ==
  VersionText(r.version) \o <<"SP">> \o Decimal(r.status) \o <<"SP", "OK">> \o Crlf
    \o Lines(r.headers) \o Line(Connection, CloseText(r.close)) \o Length(r.body)

\* what HttpServer::handleClient makes for the servlet to fill
Response(version, body, close) ==
  [version |-> version, status |-> 200, body |-> body, close |-> close,
   headers |-> [n \in {<<"Server">>} |-> <<"s">>]]

\* HttpRequest::init: anything but keep-alive closes, and so does no header at all
IsClose(m) ==
  ~(Connection \in DOMAIN m.headers /\ m.headers[Connection] = <<"keep", "-alive">>)

(***************************************************************************)
(* The server.                                                             *)
(***************************************************************************)
Nothing == [ok |-> FALSE, m |-> EmptyMessage]
NoRequest == [method |-> "none"]
HttpInit ==
  /\ current = NoRequest /\ served = 0 /\ sends = 0 /\ uses = 0
  /\ up = <<>> /\ down = <<>> /\ copen = FALSE /\ sopen = FALSE
  /\ cpc = "free" /\ spc = "closed"
  /\ cp = NewParser("response") /\ sp = NewParser("request")
  /\ made = NoRequest /\ got = Nothing

Pieces(s) == {s} \cup {SubSeq(s, 1, k) : k \in {n \in ReadSizes : n <= Len(s)}}
\* all of it, or an error when the stream is not connected
WriteFixSize(stream, text, connected) == IF connected THEN stream \o text ELSE stream
Rest(s, piece) == SubSeq(s, Len(piece) + 1, Len(s))
CutAllowed(p) == SplitAnywhere \/ p.errno # "OK" \/ MarkOf(p.state) = "none"

CloseSession == /\ spc' = "closed" /\ sopen' = FALSE /\ up' = <<>>
                /\ UNCHANGED <<client, served, down, sp, made>>
\* HttpSession::recvRequest: a read that brings something, and what the parser
\* makes of it
ParsedRequest(p, rest) ==
  /\ CutAllowed(p)
  /\ sp' = p
  /\ IF p.errno # "OK" \/ p.upgrade
       THEN spc' = "closed" /\ sopen' = FALSE /\ up' = <<>>
       ELSE /\ spc' = IF p.m.finished THEN "handle" ELSE "recv"
            /\ up' = rest
            /\ UNCHANGED sopen
RecvRequest ==
  /\ spc = "recv" /\ up # <<>>
  /\ \E piece \in Pieces(up) : ParsedRequest(Execute(sp, piece), Rest(up, piece))
  /\ UNCHANGED <<client, served, down, made>>
\* the client has closed
RecvNothing == spc = "recv" /\ up = <<>> /\ ~copen /\ CloseSession
\* the receive timeout of the server has passed
RecvTimeout == spc = "recv" /\ up = <<>> /\ copen /\ CloseSession

\* Faulty: the session keeps one parser for all its requests.
HandleSameParser ==
  /\ spc = "handle"
  /\ served' = served + 1
  /\ \E body \in Bodies : made' = Response(sp.m.version, body, IsClose(sp.m) \/ ~KeepAlive)
  /\ down' = WriteFixSize(down, ResponseText(made'), copen)
  /\ IF ~KeepAlive \/ IsClose(sp.m)
       THEN spc' = "closed" /\ sopen' = FALSE /\ up' = <<>>
       ELSE spc' = "recv" /\ UNCHANGED <<sopen, up>>
  /\ UNCHANGED <<client, sp>>
\* ServletDispatch::handle, sendResponse and the end of the loop of handleClient
Handle ==
  /\ spc = "handle"
  /\ served' = served + 1
  /\ \E body \in Bodies : made' = Response(sp.m.version, body, IsClose(sp.m) \/ ~KeepAlive)
  /\ down' = WriteFixSize(down, ResponseText(made'), copen)
  /\ IF ~KeepAlive \/ IsClose(sp.m)
       THEN spc' = "closed" /\ sopen' = FALSE /\ up' = <<>> /\ UNCHANGED sp
       ELSE spc' = "recv" /\ sp' = NewParser("request") /\ UNCHANGED <<sopen, up>>
  /\ UNCHANGED client

(***************************************************************************)
(* The client.                                                             *)
(***************************************************************************)
Send(r) ==
  /\ current' = r /\ served' = 0 /\ sends' = sends + 1 /\ got' = Nothing
  /\ made' = NoRequest
\* getConnection finds no connection and opens one; sendRequest
Fresh(r) ==
  /\ cpc = "free" /\ sends < MaxSends /\ ~copen /\ ~sopen
  /\ Send(r)
  /\ up' = RequestText(r) /\ down' = <<>> /\ copen' = TRUE /\ sopen' = TRUE
  /\ uses' = 0 /\ cpc' = "waiting" /\ spc' = "recv"
  /\ cp' = NewParser("response") /\ sp' = NewParser("request")
\* Faulty: the connection keeps one parser for all its responses.
AgainSameParser(r) ==
  /\ cpc = "free" /\ sends < MaxSends /\ copen
  /\ Send(r)
  /\ up' = WriteFixSize(up, RequestText(r), sopen)
  /\ cpc' = "waiting"
  /\ UNCHANGED <<down, copen, sopen, spc, cp, sp, uses>>
\* getConnection takes one that isConnected() says is connected; what is
\* written to a server that has closed is lost
Again(r) ==
  /\ cpc = "free" /\ sends < MaxSends /\ copen
  /\ Send(r)
  /\ up' = WriteFixSize(up, RequestText(r), sopen)
  /\ cpc' = "waiting" /\ cp' = NewParser("response")
  /\ UNCHANGED <<down, copen, sopen, spc, sp, uses>>
\* sendRequest fails: the connection goes back as it is
SendFails(r) ==
  /\ cpc = "free" /\ sends < MaxSends /\ copen /\ ~sopen
  /\ Send(r)
  /\ uses' = uses + 1 /\ copen' = (uses + 1 < MaxRequest)
  /\ UNCHANGED <<up, down, sopen, cpc, spc, cp, sp>>

\* recvResponse returns, and ReleasePtr keeps the connection or deletes it
Return(result, open) ==
  /\ cpc' = "free" /\ got' = result
  /\ uses' = uses + 1
  /\ copen' = (open /\ uses + 1 < MaxRequest)
ParsedResponse(p) ==
  /\ CutAllowed(p)
  /\ cp' = p
  /\ CASE p.errno # "OK" -> Return(Nothing, FALSE)
       [] p.errno = "OK" /\ p.m.finished -> Return([ok |-> TRUE, m |-> p.m], TRUE)
       [] OTHER -> UNCHANGED <<cpc, got, uses, copen>>
RecvResponse ==
  /\ cpc = "waiting" /\ down # <<>>
  /\ \E piece \in Pieces(down) : /\ ParsedResponse(Execute(cp, piece))
                                 /\ down' = Rest(down, piece)
  /\ UNCHANGED <<current, served, up, sopen, spc, sp, made, sends>>
\* a read of nothing: the server has closed, or the timeout has passed
RecvEof == /\ cpc = "waiting" /\ down = <<>> /\ ~sopen
           /\ Return(Nothing, FALSE)
           /\ UNCHANGED <<current, served, up, down, sopen, spc, cp, sp, made, sends>>
\* Faulty: no timeout once the server has answered.
TimeoutUnserved == /\ cpc = "waiting" /\ down = <<>> /\ sopen /\ served = 0
                   /\ Return(Nothing, FALSE)
                   /\ UNCHANGED <<current, served, up, down, sopen, spc, cp, sp, made, sends>>
ResponseTimeout == /\ cpc = "waiting" /\ down = <<>> /\ sopen
                   /\ Return(Nothing, FALSE)
                   /\ UNCHANGED <<current, served, up, down, sopen, spc, cp, sp, made, sends>>

SendRequest == \E r \in Requests : Fresh(r) \/ Again(r) \/ SendFails(r)
ServerStep == RecvRequest \/ RecvNothing \/ RecvTimeout \/ Handle
ClientStep == RecvResponse \/ RecvEof \/ ResponseTimeout
HttpNext == SendRequest \/ ServerStep \/ ClientStep

\* weak fairness of what each side does; that of a read spelled out, as a read
\* is enabled when something has come
HttpFairness ==
  /\ []<>~(spc = "recv" /\ up # <<>>) \/ []<><<RecvRequest>>_httpVars
  /\ []<>~(cpc = "waiting" /\ down # <<>>) \/ []<><<RecvResponse>>_httpVars
  /\ WF_httpVars(RecvNothing) /\ WF_httpVars(Handle)
  /\ WF_httpVars(RecvEof) /\ WF_httpVars(ResponseTimeout)
HttpSpec == HttpInit /\ [][HttpNext]_httpVars /\ HttpFairness

(***************************************************************************)
(* A servlet is given the request that was sent, once: its method, URL,    *)
(* version, headers and body, whatever the sizes of the reads that brought *)
(* it, by length or in chunks, on a new connection or a used one.          *)
(***************************************************************************)
HasHeaders(m, headers) ==
  \A n \in DOMAIN headers : n \in DOMAIN m.headers /\ m.headers[n] = headers[n]
IsRequest(m, r) ==
  /\ m.method = r.method /\ m.version = r.version
  /\ m.path = r.path /\ m.query = r.query /\ m.body = r.body
  /\ HasHeaders(m, r.headers)
ServedAsSent ==
  /\ spc = "handle" => served = 0 /\ IsRequest(sp.m, current)
  /\ served <= 1

(***************************************************************************)
(* A result of doRequest that is no error holds the response the server    *)
(* made to this very request: nothing of an earlier exchange on the same   *)
(* connection is taken for it.                                             *)
(***************************************************************************)
IsResponse(m, r) == m.body = r.body /\ m.status = r.status /\ HasHeaders(m, r.headers)
AnswerIsOwn == cpc = "free" /\ got.ok => served = 1 /\ IsResponse(got.m, made)

(***************************************************************************)
(* Every doRequest returns, with an answer or with an error, as each side  *)
(* goes on reading what has come and a wait for a response is bounded.     *)
(***************************************************************************)
DoRequestReturns == cpc = "waiting" ~> cpc = "free"

(***************************************************************************)
(* What the two rest on.  A parser that may stop reading where it is after *)
(* k symbols of a message is, one read later, where one read of all those  *)
(* symbols would have brought it; and it finishes without an error only at *)
(* the end of the message, and with what was written.                      *)
(***************************************************************************)
ReadUpTo(type, text, k) ==
  IF k = 0 THEN NewParser(type) ELSE Execute(NewParser(type), SubSeq(text, 1, k))
InAnyPieces(type, text) ==
  \A k \in 0..(Len(text) - 1) :
    CutAllowed(ReadUpTo(type, text, k)) =>
      \A piece \in Pieces(SubSeq(text, k + 1, Len(text))) :
        Execute(ReadUpTo(type, text, k), piece) = ReadUpTo(type, text, k + Len(piece))
Finished(p) == p.errno = "OK" /\ p.m.finished
FinishedAt(type, text) == {k \in 0..Len(text) : Finished(ReadUpTo(type, text, k))}
Responses ==
  {Response(r.version, body, close) : r \in Requests, body \in Bodies, close \in BOOLEAN}
ReadAsWritten ==
  /\ \A r \in Requests :
       LET text == RequestText(r)
       IN /\ text \in Seq(ToSet(text)) /\ InAnyPieces("request", text)
          /\ \A k \in FinishedAt("request", text) :
               k = Len(text) /\ IsRequest(ReadUpTo("request", text, k).m, r)
  /\ \A r \in Responses :
       LET text == ResponseText(r)
       IN /\ text \in Seq(ToSet(text)) /\ InAnyPieces("response", text)
          /\ \A k \in FinishedAt("response", text) :
               k = Len(text) /\ IsResponse(ReadUpTo("response", text, k).m, r)
=============================================================================
