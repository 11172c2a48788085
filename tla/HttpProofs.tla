----------------------------- MODULE HttpProofs -----------------------------
(***************************************************************************)
(* Theorems about HttpExchange for any requests, bodies, sizes of reads    *)
(* and numbers of sends: if the parser, given one message alone, reads it  *)
(* as it was written, then each side is given its own message, however the *)
(* two sides, their timeouts and the reuse of connections follow one       *)
(* another.  At says where a parser is within the message it is given.     *)
(* And about ByteArrays for blocks, numbers and texts of any size: its     *)
(* calls are those of one sequence of bytes.                               *)
(***************************************************************************)
EXTENDS HttpExchange, ByteArrays, SequenceLemmas, TLAPS

\* A parser that has read the first part of a message, of which rest is left.
At(type, text, p, rest) ==
  \E k \in 0..Len(text) :
    /\ p = ReadUpTo(type, text, k)
    /\ rest = SubSeq(text, k + 1, Len(text))
    /\ CutAllowed(p) /\ p.errno = "OK" /\ ~p.m.finished

\* The server is given the request that was sent last, and nothing after it.
ServerInv ==
  /\ served \in {0, 1}
  /\ spc \in {"recv", "handle", "closed"} /\ (sopen <=> spc # "closed")
  /\ spc = "closed" => up = <<>>
  /\ spc = "recv" /\ served = 0 =>
       current \in Requests /\ At("request", RequestText(current), sp, up)
  /\ spc = "recv" /\ served = 1 => up = <<>> /\ sp = NewParser("request")
  /\ spc = "handle" =>
       served = 0 /\ current \in Requests /\ up = <<>> /\ IsRequest(sp.m, current)

\* The client waits on an open connection, which brings the response to its
\* request and nothing else; a connection it has kept is at rest.
ClientInv ==
  /\ cpc \in {"free", "waiting"}
  /\ cpc = "free" /\ copen => down = <<>> /\ (spc = "closed" \/ served = 1)
  /\ cpc = "waiting" => copen
  /\ cpc = "waiting" /\ served = 0 => down = <<>> /\ cp = NewParser("response")
  /\ cpc = "waiting" /\ served = 1 =>
       made \in Responses /\ At("response", ResponseText(made), cp, down)
  /\ cpc = "free" /\ got.ok => served = 1 /\ IsResponse(got.m, made)

HttpIInv == ServerInv /\ ClientInv

-----------------------------------------------------------------------------
(* A message and the reads that bring it.                                  *)

\* A read takes a first part of what is left, and leaves the rest of it.
LEMMA ReadTakes ==
  ASSUME NEW S, NEW s \in Seq(S), NEW k \in 0..Len(s),
         SubSeq(s, k + 1, Len(s)) # <<>>, NEW piece \in Pieces(SubSeq(s, k + 1, Len(s)))
  PROVE  /\ k \in 0..(Len(s) - 1) /\ k + Len(piece) \in 1..Len(s)
         /\ Rest(SubSeq(s, k + 1, Len(s)), piece) = SubSeq(s, k + Len(piece) + 1, Len(s))
  <1> DEFINE n    == Len(s)
             rest == SubSeq(s, k + 1, n)
  <1>1. n \in Nat /\ k \in Nat /\ k <= n
    BY LenProperties
  <1>2. /\ rest \in Seq(S) /\ Len(rest) = n - k
        /\ \A i \in DOMAIN rest : k + i \in DOMAIN s /\ rest[i] = s[k + i]
    BY RestProperties
  <1>3. k # n
    <2>1. k = n => rest = <<>>
      BY <1>1, SubSeqEmpty
    <2> QED
      BY <2>1
  <1>4. /\ rest # <<>> /\ piece \in Pieces(rest) /\ DOMAIN rest = 1..Len(rest)
        /\ s \in Seq(S) /\ DOMAIN s = 1..n
    BY <1>2, LenProperties
  <1> HIDE DEF n, rest
  <1>5. PICK j \in 1..(n - k) : Len(piece) = j
    <2>1. CASE piece = rest
      <3>1. Len(piece) = n - k
        BY <1>2, <2>1
      <3>2. n - k \in 1..(n - k)
        BY <1>1, <1>3
      <3> QED
        BY <3>1, <3>2
    <2>2. CASE \E i \in ReadSizes : i <= Len(rest) /\ piece = SubSeq(rest, 1, i)
      <3>1. PICK i \in ReadSizes : i <= Len(rest) /\ piece = SubSeq(rest, 1, i)
        BY <2>2
      <3>2. i \in 1..(n - k)
        <4>1. i \in Nat \ {0}
          BY <3>1, ExchangeAssumption
        <4>2. i <= n - k
          BY <1>2, <3>1
        <4>3. n - k \in Nat
          BY <1>1
        <4> QED
          BY <4>1, <4>2, <4>3
      <3>3. DOMAIN rest = 1..(n - k)
        BY <1>2, <1>4
      <3>4. \A h \in 1..i : rest[h] \in S
        <4>1. \A h \in 1..i : h \in DOMAIN rest
          BY <1>1, <3>2, <3>3
        <4> QED
          BY <1>2, <4>1, ElementOfSeq, <3>3
      <3>5. Len(SubSeq(rest, 1, i)) = i
        BY <1>1, <3>2, <3>4, SubSeqProperties
      <3> QED
        BY <3>1, <3>2, <3>5
    <2> QED
      BY <1>4, <2>1, <2>2 DEF Pieces
  <1>6. k \in 0..(n - 1) /\ k + j \in 1..n
    BY <1>1, <1>5
  <1>7. Rest(rest, piece) = SubSeq(rest, j + 1, Len(rest))
    BY <1>5 DEF Rest
  <1>8. SubSeq(rest, j + 1, Len(rest)) = SubSeq(s, k + j + 1, n)
    <2> DEFINE a == SubSeq(rest, j + 1, Len(rest))
               b == SubSeq(s, (k + j) + 1, n)
    <2>1. j \in 0..Len(rest) /\ k + j \in 0..n /\ n - (k + j) = (n - k) - j
      BY <1>1, <1>2, <1>5
    <2>2. \A x \in Nat : k + (j + x) = (k + j) + x
      BY <1>1, <1>5
    <2>3. /\ a \in Seq(S) /\ Len(a) = (n - k) - j
          /\ \A i \in DOMAIN a : j + i \in DOMAIN rest /\ a[i] = rest[j + i]
      BY <1>2, <2>1, RestProperties
    <2>4. /\ b \in Seq(S) /\ Len(b) = (n - k) - j
          /\ \A i \in DOMAIN b : (k + j) + i \in DOMAIN s /\ b[i] = s[(k + j) + i]
      BY <1>4, <2>1, RestProperties DEF n
    <2> HIDE DEF a, b
    <2>5. ASSUME NEW i \in 1..Len(a) PROVE a[i] = b[i]
      <3>1. i \in DOMAIN a /\ i \in DOMAIN b
        BY <2>3, <2>4, <2>5, LenProperties
      <3>2. a[i] = s[k + (j + i)] /\ b[i] = s[(k + j) + i]
        BY <1>2, <2>3, <2>4, <3>1
      <3>3. k + (j + i) = (k + j) + i
        BY <2>2, <2>5
      <3> QED
        BY <3>2, <3>3
    <2>6. a = b
      BY <2>3, <2>4, <2>5, SeqEqual
    <2> QED
      BY <2>6 DEF a, b
  <1> QED
    BY <1>5, <1>6, <1>7, <1>8 DEF n, rest

\* The parser of a message that has not begun to come.
LEMMA BeforeMessage ==
  ASSUME NEW type \in {"request", "response"}, NEW S, NEW text \in Seq(S)
  PROVE  At(type, text, NewParser(type), text)
  <1> DEFINE p == NewParser(type)
  <1>1. 0 \in 0..Len(text)
    BY LenProperties
  <1>2. p = ReadUpTo(type, text, 0)
    BY DEF ReadUpTo
  <1>3. text = SubSeq(text, 0 + 1, Len(text))
    BY SubSeqFull
  <1>4. p.errno = "OK" /\ ~p.m.finished /\ p.state \in {"start_req", "start_res"}
    BY DEF NewParser, EmptyMessage, StartState
  <1>5. MarkOf(p.state) = "none"
    BY <1>4 DEF MarkOf, UrlStates
  <1>6. CutAllowed(p)
    BY <1>5 DEF CutAllowed
  <1> QED
    BY <1>1, <1>2, <1>3, <1>4, <1>6 DEF At

\* A read brings the parser of a message to a later place in it.
LEMMA ReadAdvances ==
  ASSUME NEW type, NEW S, NEW text \in Seq(S), InAnyPieces(type, text),
         NEW p, NEW rest, At(type, text, p, rest), rest # <<>>,
         NEW piece \in Pieces(rest)
  PROVE  \E k \in 0..Len(text) :
           /\ Execute(p, piece) = ReadUpTo(type, text, k)
           /\ Rest(rest, piece) = SubSeq(text, k + 1, Len(text))
  <1>1. PICK k \in 0..Len(text) :
          /\ p = ReadUpTo(type, text, k)
          /\ rest = SubSeq(text, k + 1, Len(text))
          /\ CutAllowed(p)
    BY DEF At
  <1>2. /\ k \in 0..(Len(text) - 1) /\ k + Len(piece) \in 1..Len(text)
        /\ Rest(rest, piece) = SubSeq(text, k + Len(piece) + 1, Len(text))
    BY <1>1, ReadTakes
  <1>3. Execute(p, piece) = ReadUpTo(type, text, k + Len(piece))
    BY <1>1, <1>2 DEF InAnyPieces
  <1>4. k + Len(piece) \in 0..Len(text)
    BY <1>2, LenProperties
  <1> QED
    BY <1>2, <1>3, <1>4

\* A read of a message that does not end it leaves the parser in the message.
LEMMA StaysInMessage ==
  ASSUME NEW type, NEW S, NEW text \in Seq(S), InAnyPieces(type, text),
         NEW p, NEW rest, At(type, text, p, rest), rest # <<>>,
         NEW piece \in Pieces(rest), NEW q, q = Execute(p, piece),
         CutAllowed(q), q.errno = "OK", ~q.m.finished
  PROVE  At(type, text, q, Rest(rest, piece))
  <1>1. PICK k \in 0..Len(text) :
          /\ Execute(p, piece) = ReadUpTo(type, text, k)
          /\ Rest(rest, piece) = SubSeq(text, k + 1, Len(text))
    BY ReadAdvances
  <1> QED
    BY <1>1 DEF At

\* A read that finishes a message does so at its end.
LEMMA EndsMessage ==
  ASSUME NEW type, NEW S, NEW text \in Seq(S), InAnyPieces(type, text),
         \A k \in FinishedAt(type, text) : k = Len(text),
         NEW p, NEW rest, At(type, text, p, rest), rest # <<>>,
         NEW piece \in Pieces(rest), Finished(Execute(p, piece))
  PROVE  /\ Rest(rest, piece) = <<>> /\ Len(text) \in FinishedAt(type, text)
         /\ Execute(p, piece) = ReadUpTo(type, text, Len(text))
  <1>1. PICK k \in 0..Len(text) :
          /\ Execute(p, piece) = ReadUpTo(type, text, k)
          /\ Rest(rest, piece) = SubSeq(text, k + 1, Len(text))
    BY ReadAdvances
  <1>2. k \in FinishedAt(type, text) /\ k = Len(text)
    BY <1>1 DEF FinishedAt
  <1>3. SubSeq(text, Len(text) + 1, Len(text)) = <<>>
    BY LenProperties, SubSeqEmpty
  <1> QED
    BY <1>1, <1>2, <1>3

\* What the server and the client read.
LEMMA MessagesRead ==
  ASSUME ReadAsWritten
  PROVE  /\ \A r \in Requests :
              /\ RequestText(r) \in Seq(ToSet(RequestText(r)))
              /\ InAnyPieces("request", RequestText(r))
              /\ \A k \in FinishedAt("request", RequestText(r)) :
                   /\ k = Len(RequestText(r))
                   /\ IsRequest(ReadUpTo("request", RequestText(r), k).m, r)
         /\ \A r \in Responses :
              /\ ResponseText(r) \in Seq(ToSet(ResponseText(r)))
              /\ InAnyPieces("response", ResponseText(r))
              /\ \A k \in FinishedAt("response", ResponseText(r)) :
                   /\ k = Len(ResponseText(r))
                   /\ IsResponse(ReadUpTo("response", ResponseText(r), k).m, r)
  BY DEF ReadAsWritten

\* A read of the server.
LEMMA RequestRead ==
  ASSUME ReadAsWritten, NEW r \in Requests, NEW p, NEW rest,
         At("request", RequestText(r), p, rest), rest # <<>>,
         NEW piece \in Pieces(rest), NEW q, q = Execute(p, piece),
         CutAllowed(q), q.errno = "OK"
  PROVE  /\ q.m.finished => Rest(rest, piece) = <<>> /\ IsRequest(q.m, r)
         /\ ~q.m.finished => At("request", RequestText(r), q, Rest(rest, piece))
  <1> DEFINE text == RequestText(r)
  <1>1. /\ text \in Seq(ToSet(text)) /\ InAnyPieces("request", text)
        /\ \A k \in FinishedAt("request", text) :
             k = Len(text) /\ IsRequest(ReadUpTo("request", text, k).m, r)
    BY MessagesRead
  <1> HIDE DEF text
  <1>2. At("request", text, p, rest)
    BY DEF text
  <1>3. ASSUME q.m.finished PROVE Rest(rest, piece) = <<>> /\ IsRequest(q.m, r)
    <2>1. /\ Rest(rest, piece) = <<>> /\ Len(text) \in FinishedAt("request", text)
          /\ q = ReadUpTo("request", text, Len(text))
      BY <1>1, <1>2, <1>3, EndsMessage DEF Finished
    <2> QED
      BY <1>1, <2>1
  <1>4. ASSUME ~q.m.finished PROVE At("request", text, q, Rest(rest, piece))
    BY <1>1, <1>2, <1>4, StaysInMessage
  <1> QED
    BY <1>3, <1>4 DEF text

\* A read of the client.
LEMMA ResponseRead ==
  ASSUME ReadAsWritten, NEW r \in Responses, NEW p, NEW rest,
         At("response", ResponseText(r), p, rest), rest # <<>>,
         NEW piece \in Pieces(rest), NEW q, q = Execute(p, piece),
         CutAllowed(q), q.errno = "OK"
  PROVE  /\ q.m.finished => Rest(rest, piece) = <<>> /\ IsResponse(q.m, r)
         /\ ~q.m.finished => At("response", ResponseText(r), q, Rest(rest, piece))
  <1> DEFINE text == ResponseText(r)
  <1>1. /\ text \in Seq(ToSet(text)) /\ InAnyPieces("response", text)
        /\ \A k \in FinishedAt("response", text) :
             k = Len(text) /\ IsResponse(ReadUpTo("response", text, k).m, r)
    BY MessagesRead
  <1> HIDE DEF text
  <1>2. At("response", text, p, rest)
    BY DEF text
  <1>3. ASSUME q.m.finished PROVE Rest(rest, piece) = <<>> /\ IsResponse(q.m, r)
    <2>1. /\ Rest(rest, piece) = <<>> /\ Len(text) \in FinishedAt("response", text)
          /\ q = ReadUpTo("response", text, Len(text))
      BY <1>1, <1>2, <1>3, EndsMessage DEF Finished
    <2> QED
      BY <1>1, <2>1
  <1>4. ASSUME ~q.m.finished PROVE At("response", text, q, Rest(rest, piece))
    BY <1>1, <1>2, <1>4, StaysInMessage
  <1> QED
    BY <1>3, <1>4 DEF text

-----------------------------------------------------------------------------
(* What each action does to the invariant.                                 *)

\* The server reads: the client is not at rest on a connection meanwhile.
LEMMA RecvRequestKeeps ==
  ASSUME ReadAsWritten, HttpIInv, RecvRequest
  PROVE  HttpIInv'
  <1>1. PICK piece \in Pieces(up) : ParsedRequest(Execute(sp, piece), Rest(up, piece))
    BY DEF RecvRequest
  <1>2. /\ spc = "recv" /\ up # <<>> /\ served = 0 /\ current \in Requests
        /\ At("request", RequestText(current), sp, up)
        /\ UNCHANGED <<current, copen, cpc, cp, got, served, down, made>>
    BY DEF HttpIInv, ServerInv, RecvRequest, client
  <1>3. ~(cpc = "free" /\ copen) /\ ClientInv
    BY <1>2 DEF HttpIInv, ClientInv
  <1>4. ClientInv'
    BY <1>2, <1>3 DEF ClientInv
  <1>5. ServerInv'
    <2> DEFINE q == Execute(sp, piece)
               rest == Rest(up, piece)
    <2>1. CutAllowed(q) /\ sp' = q
      BY <1>1 DEF ParsedRequest
    <2>2. q.errno = "OK" =>
            /\ q.m.finished => rest = <<>> /\ IsRequest(q.m, current)
            /\ ~q.m.finished => At("request", RequestText(current), q, rest)
      BY <1>2, <2>1, RequestRead
    <2>3. \/ spc' = "closed" /\ sopen' = FALSE /\ up' = <<>>
          \/ /\ q.errno = "OK" /\ spc' = (IF q.m.finished THEN "handle" ELSE "recv")
             /\ up' = rest /\ sopen' = sopen
      BY <1>1 DEF ParsedRequest
    <2> HIDE DEF q, rest
    <2>4. CASE spc' = "closed" /\ sopen' = FALSE /\ up' = <<>>
      BY <1>2, <2>4 DEF ServerInv
    <2>5. CASE /\ q.errno = "OK" /\ q.m.finished /\ spc' = "handle"
               /\ up' = rest /\ sopen' = sopen
      BY <1>2, <2>1, <2>2, <2>5 DEF ServerInv, HttpIInv
    <2>6. CASE /\ q.errno = "OK" /\ ~q.m.finished /\ spc' = "recv"
               /\ up' = rest /\ sopen' = sopen
      BY <1>2, <2>1, <2>2, <2>6 DEF ServerInv, HttpIInv
    <2> QED
      BY <2>3, <2>4, <2>5, <2>6
  <1> QED
    BY <1>4, <1>5 DEF HttpIInv

\* The session is closed before a request has come.
LEMMA CloseSessionKeeps ==
  ASSUME HttpIInv, CloseSession
  PROVE  HttpIInv'
  <1>1. /\ spc' = "closed" /\ sopen' = FALSE /\ up' = <<>>
        /\ UNCHANGED <<current, copen, cpc, cp, got, served, down, made>>
    BY DEF CloseSession, client
  <1> QED
    BY <1>1 DEF HttpIInv, ServerInv, ClientInv

\* A request is answered: what the client waits for is this response.
LEMMA HandleKeeps ==
  ASSUME ReadAsWritten, HttpIInv, Handle
  PROVE  HttpIInv'
  <1>1. /\ spc = "handle" /\ served = 0 /\ served' = 1 /\ up = <<>>
        /\ sopen /\ current \in Requests /\ IsRequest(sp.m, current)
        /\ UNCHANGED <<current, copen, cpc, cp, got>>
    BY DEF HttpIInv, ServerInv, Handle, client
  <1>2. PICK m \in Responses : made' = m /\ down' = WriteFixSize(down, ResponseText(m), copen)
    <2>1. PICK body \in Bodies :
            made' = Response(sp.m.version, body, IsClose(sp.m) \/ ~KeepAlive)
      BY DEF Handle
    <2>2. PICK close \in BOOLEAN : close = (IsClose(sp.m) \/ ~KeepAlive)
      OBVIOUS
    <2>3. sp.m.version = current.version
      BY <1>1 DEF IsRequest
    <2>4. PICK m : m = Response(current.version, body, close)
      OBVIOUS
    <2>5. m \in Responses
      BY <1>1, <2>4 DEF Responses
    <2>6. made' = m
      BY <2>1, <2>2, <2>3, <2>4
    <2> QED
      BY <2>5, <2>6 DEF Handle
  <1>3. ServerInv'
    <2>1. \/ spc' = "closed" /\ sopen' = FALSE /\ up' = <<>>
          \/ spc' = "recv" /\ sp' = NewParser("request") /\ sopen' = sopen /\ up' = up
      BY DEF Handle
    <2>2. CASE spc' = "closed" /\ sopen' = FALSE /\ up' = <<>>
      BY <1>1, <2>2 DEF ServerInv
    <2>3. CASE spc' = "recv" /\ sp' = NewParser("request") /\ sopen' = sopen /\ up' = up
      BY <1>1, <2>3 DEF ServerInv
    <2> QED
      BY <2>1, <2>2, <2>3
  <1>4. ClientInv'
    <2>1. CASE cpc = "waiting"
      <3>1. copen /\ down = <<>> /\ cp = NewParser("response")
        BY <1>1, <2>1 DEF HttpIInv, ClientInv
      <3>2. ResponseText(m) \in Seq(ToSet(ResponseText(m)))
        BY MessagesRead
      <3>3. down' = ResponseText(m)
        BY <1>2, <3>1, <3>2, ConcatEmptySeq DEF WriteFixSize
      <3>4. At("response", ResponseText(m), NewParser("response"), ResponseText(m))
        BY <3>2, BeforeMessage
      <3>5. /\ cpc' = "waiting" /\ copen' /\ served' = 1 /\ made' = m
            /\ cp' = NewParser("response")
        BY <1>1, <1>2, <2>1, <3>1
      <3> QED
        BY <3>3, <3>4, <3>5 DEF ClientInv
    <2>2. CASE cpc = "free"
      <3>1. ~copen /\ ~got.ok
        BY <1>1, <2>2 DEF HttpIInv, ClientInv
      <3> QED
        BY <1>1, <2>2, <3>1 DEF ClientInv
    <2> QED
      BY <2>1, <2>2 DEF HttpIInv, ClientInv
  <1> QED
    BY <1>3, <1>4 DEF HttpIInv

\* The text of a request, on a new connection and on one at rest.
LEMMA RequestStarts ==
  ASSUME ReadAsWritten, NEW r \in Requests
  PROVE  /\ At("request", RequestText(r), NewParser("request"), RequestText(r))
         /\ <<>> \o RequestText(r) = RequestText(r)
  BY MessagesRead, BeforeMessage, ConcatEmptySeq

LEMMA FreshKeeps ==
  ASSUME ReadAsWritten, HttpIInv, NEW r \in Requests, Fresh(r)
  PROVE  HttpIInv'
  <1>1. /\ current' = r /\ served' = 0 /\ got' = Nothing /\ up' = RequestText(r)
        /\ down' = <<>> /\ copen' = TRUE /\ sopen' = TRUE /\ cpc' = "waiting"
        /\ spc' = "recv" /\ cp' = NewParser("response") /\ sp' = NewParser("request")
    BY DEF Fresh, Send
  <1>2. At("request", RequestText(r), NewParser("request"), RequestText(r))
    BY RequestStarts
  <1> QED
    BY <1>1, <1>2 DEF HttpIInv, ServerInv, ClientInv

LEMMA AgainKeeps ==
  ASSUME ReadAsWritten, HttpIInv, NEW r \in Requests, Again(r)
  PROVE  HttpIInv'
  <1>1. /\ current' = r /\ served' = 0 /\ got' = Nothing /\ cpc = "free" /\ copen
        /\ up' = WriteFixSize(up, RequestText(r), sopen)
        /\ cpc' = "waiting" /\ cp' = NewParser("response")
        /\ UNCHANGED <<down, copen, sopen, spc, sp>>
    BY DEF Again, Send
  <1>2. down = <<>> /\ (spc = "closed" \/ served = 1)
    BY <1>1 DEF HttpIInv, ClientInv
  <1>3. ClientInv'
    BY <1>1, <1>2 DEF ClientInv
  <1>4. ServerInv'
    <2>1. CASE spc = "closed"
      BY <1>1, <2>1 DEF HttpIInv, ServerInv, WriteFixSize
    <2>2. CASE spc = "recv"
      <3>1. up = <<>> /\ sp = NewParser("request") /\ sopen
        BY <1>2, <2>2 DEF HttpIInv, ServerInv
      <3>2. up' = RequestText(r)
        BY <1>1, <3>1, RequestStarts DEF WriteFixSize
      <3>3. At("request", RequestText(r), NewParser("request"), RequestText(r))
        BY RequestStarts
      <3>4. current' = r /\ sp' = NewParser("request") /\ sopen' /\ spc' = "recv" /\ served' = 0
        BY <1>1, <2>2, <3>1
      <3> QED
        BY <3>2, <3>3, <3>4 DEF ServerInv
    <2> QED
      BY <1>2, <2>1, <2>2 DEF HttpIInv, ServerInv
  <1> QED
    BY <1>3, <1>4 DEF HttpIInv

LEMMA SendFailsKeeps ==
  ASSUME HttpIInv, NEW r \in Requests, SendFails(r)
  PROVE  HttpIInv'
  <1>1. /\ current' = r /\ served' = 0 /\ got' = Nothing /\ cpc = "free" /\ copen /\ ~sopen
        /\ UNCHANGED <<up, down, sopen, cpc, spc, cp, sp>>
    BY DEF SendFails, Send
  <1>2. down = <<>> /\ spc = "closed"
    BY <1>1 DEF HttpIInv, ClientInv, ServerInv
  <1>3. ~got'.ok
    BY <1>1 DEF Nothing
  <1> QED
    BY <1>1, <1>2, <1>3 DEF HttpIInv, ServerInv, ClientInv

\* The client gives up: the connection goes with it.
LEMMA GivesUpKeeps ==
  ASSUME HttpIInv, Return(Nothing, FALSE),
         UNCHANGED <<current, served, up, sopen, spc, sp, made>>
  PROVE  HttpIInv'
  <1>1. cpc' = "free" /\ ~copen' /\ ~got'.ok
    BY DEF Return, Nothing
  <1> QED
    BY <1>1 DEF HttpIInv, ServerInv, ClientInv

\* The client reads: what finishes is its response, and the connection is at rest.
LEMMA RecvResponseKeeps ==
  ASSUME ReadAsWritten, HttpIInv, RecvResponse
  PROVE  HttpIInv'
  <1>1. PICK piece \in Pieces(down) :
          ParsedResponse(Execute(cp, piece)) /\ down' = Rest(down, piece)
    BY DEF RecvResponse
  <1>2. /\ cpc = "waiting" /\ copen /\ down # <<>> /\ served = 1 /\ made \in Responses
        /\ At("response", ResponseText(made), cp, down)
        /\ UNCHANGED <<current, served, up, sopen, spc, sp, made>>
    BY DEF HttpIInv, ServerInv, ClientInv, RecvResponse
  <1>3. ServerInv'
    BY <1>2 DEF HttpIInv, ServerInv
  <1> DEFINE q == Execute(cp, piece)
  <1>4. CutAllowed(q) /\ cp' = q
    BY <1>1 DEF ParsedResponse
  <1>5. q.errno = "OK" =>
          /\ q.m.finished => down' = <<>> /\ IsResponse(q.m, made)
          /\ ~q.m.finished => At("response", ResponseText(made), q, down')
    BY <1>1, <1>2, <1>4, ResponseRead
  <1>6. \/ Return(Nothing, FALSE)
        \/ q.errno = "OK" /\ q.m.finished /\ Return([ok |-> TRUE, m |-> q.m], TRUE)
        \/ q.errno = "OK" /\ ~q.m.finished /\ UNCHANGED <<cpc, got, uses, copen>>
    BY <1>1 DEF ParsedResponse
  <1> HIDE DEF q
  <1>7. CASE Return(Nothing, FALSE)
    BY <1>2, <1>7, GivesUpKeeps
  <1>8. CASE q.errno = "OK" /\ q.m.finished /\ Return([ok |-> TRUE, m |-> q.m], TRUE)
    <2>1. cpc' = "free" /\ got'.m = q.m /\ down' = <<>> /\ IsResponse(q.m, made)
      BY <1>5, <1>8 DEF Return
    <2>2. ClientInv'
      BY <1>2, <2>1 DEF ClientInv
    <2> QED
      BY <1>3, <2>2 DEF HttpIInv
  <1>9. CASE q.errno = "OK" /\ ~q.m.finished /\ UNCHANGED <<cpc, got, uses, copen>>
    <2>1. ClientInv'
      BY <1>2, <1>4, <1>5, <1>9 DEF ClientInv
    <2> QED
      BY <1>3, <2>1 DEF HttpIInv
  <1> QED
    BY <1>6, <1>7, <1>8, <1>9

-----------------------------------------------------------------------------
\* The server and the client are where ServerInv and ClientInv say, whatever
\* is sent, read in whatever pieces, and given up: the parser of each is in the
\* message meant for it, and a connection that is kept has nothing left on it.
THEOREM HttpInvariant ==
  ASSUME ReadAsWritten
  PROVE  HttpSpec => []HttpIInv
  <1>1. HttpInit => HttpIInv
    BY DEF HttpInit, HttpIInv, ServerInv, ClientInv, Nothing
  <1>2. HttpIInv /\ [HttpNext]_httpVars => HttpIInv'
    <2> SUFFICES ASSUME HttpIInv, [HttpNext]_httpVars
                 PROVE  HttpIInv'
      OBVIOUS
    <2>1. CASE SendRequest
      BY <2>1, FreshKeeps, AgainKeeps, SendFailsKeeps DEF SendRequest
    <2>2. CASE RecvRequest
      BY <2>2, RecvRequestKeeps
    <2>3. CASE RecvNothing \/ RecvTimeout
      BY <2>3, CloseSessionKeeps DEF RecvNothing, RecvTimeout
    <2>4. CASE Handle
      BY <2>4, HandleKeeps
    <2>5. CASE RecvResponse
      BY <2>5, RecvResponseKeeps
    <2>6. CASE RecvEof \/ ResponseTimeout
      BY <2>6, GivesUpKeeps DEF RecvEof, ResponseTimeout
    <2>7. CASE UNCHANGED httpVars
      BY <2>7 DEF httpVars, HttpIInv, ServerInv, ClientInv
    <2> QED
      BY <2>1, <2>2, <2>3, <2>4, <2>5, <2>6, <2>7 DEF HttpNext, ServerStep, ClientStep
  <1> QED
    BY <1>1, <1>2, PTL DEF HttpSpec

\* A servlet is given the request sent last, whole and once, over any number of
\* exchanges on one connection after another (HttpSession::recvRequest and
\* HttpServer::handleClient).
THEOREM RequestsAreServedAsSent ==
  ASSUME ReadAsWritten
  PROVE  HttpSpec => []ServedAsSent
  <1>1. HttpIInv => ServedAsSent
    BY DEF HttpIInv, ServerInv, ServedAsSent
  <1> QED
    BY <1>1, HttpInvariant, PTL

\* A result of doRequest that is no error is the response to its request,
\* whatever connection of the pool it came on (HttpConnectionPool::doRequest).
THEOREM AnswersAreTheirOwn ==
  ASSUME ReadAsWritten
  PROVE  HttpSpec => []AnswerIsOwn
  <1>1. HttpIInv => AnswerIsOwn
    BY DEF HttpIInv, ClientInv, AnswerIsOwn
  <1> QED
    BY <1>1, HttpInvariant, PTL

-----------------------------------------------------------------------------
\* A number is so many times another, and a rest.
LEMMA Division ==
  ASSUME NEW p \in Nat, NEW b \in Nat \ {0}
  PROVE  p \div b \in Nat /\ p % b \in 0..(b - 1) /\ p = b * (p \div b) + (p % b)
  OBVIOUS

\* There is one way to divide a number.
LEMMA DividedOnce ==
  ASSUME NEW b \in Nat \ {0}, NEW k \in Int, NEW l \in Int,
         NEW r \in 0..(b - 1), NEW s \in 0..(b - 1), b * k + r = b * l + s
  PROVE  k = l /\ r = s
  <1>1. CASE k < l
    <2>1. PICK m \in Nat : l = k + 1 + m
      <3>1. l - k - 1 \in Nat /\ l = k + 1 + (l - k - 1)
        BY <1>1
      <3> QED
        BY <3>1
    <2>2. b * l = b * k + b + b * m
      BY <2>1
    <2>3. b * m \in Nat /\ b * k \in Int
      OBVIOUS
    <2> QED
      BY <2>2, <2>3
  <1>2. CASE l < k
    <2>1. PICK m \in Nat : k = l + 1 + m
      <3>1. k - l - 1 \in Nat /\ k = l + 1 + (k - l - 1)
        BY <1>2
      <3> QED
        BY <3>1
    <2>2. b * k = b * l + b + b * m
      BY <2>1
    <2>3. b * m \in Nat /\ b * l \in Int
      OBVIOUS
    <2> QED
      BY <2>2, <2>3
  <1>3. CASE k = l
    BY <1>3
  <1> QED
    BY <1>1, <1>2, <1>3
\* What is so many times a number and a rest is divided into just these.
LEMMA Divided ==
  ASSUME NEW b \in Nat \ {0}, NEW k \in Nat, NEW r \in 0..(b - 1)
  PROVE  (b * k + r) \div b = k /\ (b * k + r) % b = r
  <1>1. PICK p \in Nat : p = b * k + r
    OBVIOUS
  <1>2. PICK l \in Nat, s \in 0..(b - 1) : l = p \div b /\ s = p % b /\ p = b * l + s
    BY Division
  <1>3. k = l /\ r = s
    <2>1. b * k + r = b * l + s
      BY ONLY <1>1, <1>2
    <2> QED
      BY <2>1, DividedOnce
  <1> QED
    BY <1>1, <1>2, <1>3

\* Memory holds bytes, and junk where nobody wrote.
Cell == Byte \cup {Junk}
Blocks == [1..BaseSize -> Cell]
Arrays == [nodes : Seq(Blocks), cur : Nat, position : Nat, size : Nat, capacity : Nat]
\* An array the code keeps: the position is within what was written, what was written
\* within the blocks, and m_cur is the block at the position.
ArrayOK(a) ==
  /\ a \in Arrays
  /\ a.nodes # <<>> /\ a.capacity = BaseSize * Len(a.nodes)
  /\ a.position <= a.size /\ a.size <= a.capacity
  /\ a.cur = Block(a.position)

\* The sizes are positive, and junk is no byte.
LEMMA Sizes == /\ BaseSize \in Nat \ {0} /\ Half \in Nat \ {0, 1} /\ MaxGroups \in Nat \ {0}
               /\ FixedSize \in Nat \ {0} /\ Junk \notin Byte
  BY ByteArrayAssumption DEF Byte

\* The fields of an array have their types.
LEMMA Fields ==
  ASSUME NEW a, ArrayOK(a)
  PROVE  /\ a.nodes \in Seq(Blocks) /\ Len(a.nodes) \in Nat \ {0}
         /\ a.cur \in Nat /\ a.position \in Nat /\ a.size \in Nat /\ a.capacity \in Nat
  <1>1. a.nodes \in Seq(Blocks) /\ a.nodes # <<>>
    BY DEF ArrayOK, Arrays
  <1>2. Len(a.nodes) \in Nat \ {0}
    BY <1>1, EmptySeq, LenProperties
  <1> QED
    BY <1>1, <1>2 DEF ArrayOK, Arrays

\* The block and the offset of a place.
LEMMA Places ==
  ASSUME NEW p \in Nat
  PROVE  /\ Block(p) \in Nat \ {0} /\ Offset(p) \in 1..BaseSize
         /\ p + 1 = BaseSize * (Block(p) - 1) + Offset(p)
  <1>1. PICK k \in Nat, r \in 0..(BaseSize - 1) :
           k = p \div BaseSize /\ r = p % BaseSize /\ p = BaseSize * k + r
    <2>1. BaseSize \in Nat \ {0}
      BY Sizes
    <2> QED
      BY ONLY <2>1, Division, p \in Nat
  <1>2. Block(p) = k + 1 /\ Offset(p) = r + 1
    BY <1>1 DEF Block, Offset
  <1>3. Block(p) - 1 = k
    BY <1>2
  <1>4. BaseSize * (Block(p) - 1) = BaseSize * k
    BY <1>3
  <1>5. BaseSize * k \in Nat /\ p + 1 = BaseSize * k + Offset(p)
    BY <1>1, <1>2, Sizes
  <1> QED
    BY <1>1, <1>2, <1>4, <1>5, Sizes
\* A place is found by its block and its offset.
LEMMA PlaceIs ==
  ASSUME NEW k \in Nat \ {0}, NEW o \in 1..BaseSize, NEW p \in Nat,
         p + 1 = BaseSize * (k - 1) + o
  PROVE  Block(p) = k /\ Offset(p) = o
  <1>1. k - 1 \in Nat /\ o - 1 \in 0..(BaseSize - 1) /\ p = BaseSize * (k - 1) + (o - 1)
    BY Sizes
  <1> QED
    BY <1>1, Sizes, Divided DEF Block, Offset
\* The blocks hold as many places as they have bytes.
LEMMA PlaceIn ==
  ASSUME NEW n \in Nat, NEW p \in Nat
  PROVE  p < BaseSize * n <=> Block(p) <= n
  <1>1. PICK k \in Nat \ {0} : k = Block(p)
    BY Places
  <1>2. PICK o \in 1..BaseSize : o = Offset(p)
    BY Places
  <1>3. p + 1 = BaseSize * (k - 1) + o
    BY <1>1, <1>2, Places
  <1>4. CASE k <= n
    <2>1. PICK m \in Nat : n = k + m
      <3>1. n - k \in Nat /\ n = k + (n - k)
        BY <1>4
      <3> QED
        BY <3>1
    <2>2. BaseSize * n = BaseSize * (k - 1) + BaseSize + BaseSize * m
      BY <2>1, Sizes
    <2>3. BaseSize * m \in Nat /\ BaseSize * (k - 1) \in Nat
      BY Sizes
    <2> QED
      BY <1>1, <1>3, <1>4, <2>2, <2>3, Sizes
  <1>5. CASE ~(k <= n)
    <2>1. PICK m \in Nat : k - 1 = n + m
      <3>1. k - 1 - n \in Nat /\ k - 1 = n + (k - 1 - n)
        BY <1>5
      <3> QED
        BY <3>1
    <2>2. BaseSize * (k - 1) = BaseSize * n + BaseSize * m
      BY <2>1, Sizes
    <2>3. BaseSize * m \in Nat /\ BaseSize * n \in Nat
      BY Sizes
    <2> QED
      BY <1>1, <1>3, <1>5, <2>2, <2>3, Sizes
  <1> QED
    BY <1>4, <1>5

\* Walking from the block at the position finds the places after it.
LEMMA Spots ==
  ASSUME NEW a, ArrayOK(a), NEW i \in Nat
  PROVE  Spot(a, i).block = Block(a.position + i) /\ Spot(a, i).offset = Offset(a.position + i)
  <1>1. PICK p \in Nat : p = a.position
    BY Fields
  <1>2. PICK k \in Nat, r \in 0..(BaseSize - 1) :
           k = p \div BaseSize /\ r = p % BaseSize /\ p = BaseSize * k + r
    <2>1. BaseSize \in Nat \ {0}
      BY Sizes
    <2> QED
      BY ONLY <2>1, Division, p \in Nat
  <1>3. PICK l \in Nat, s \in 0..(BaseSize - 1) :
           l = (r + i) \div BaseSize /\ r + i = BaseSize * l + s
    <2>1. PICK q \in Nat : q = r + i
      BY Sizes
    <2>2. q \div BaseSize \in Nat /\ q % BaseSize \in 0..(BaseSize - 1)
          /\ q = BaseSize * (q \div BaseSize) + (q % BaseSize)
      BY Sizes, Division
    <2> QED
      BY <2>1, <2>2
  <1>4. p + i = BaseSize * (k + l) + s
    <2>1. BaseSize * (k + l) = BaseSize * k + BaseSize * l
      BY Sizes
    <2>2. BaseSize * k \in Nat /\ BaseSize * l \in Nat /\ r \in Nat /\ s \in Nat
      BY Sizes
    <2> QED
      BY <1>2, <1>3, <2>1, <2>2
  <1>5. Block(p + i) = k + l + 1
    BY <1>4, Sizes, Divided DEF Block
  <1>6. a.cur = k + 1
    BY <1>1, <1>2 DEF ArrayOK, Block
  <1>7. Spot(a, i).block = a.cur + l /\ Spot(a, i).offset = Offset(p + i)
    BY <1>1, <1>2, <1>3 DEF Spot
  <1> QED
    BY <1>1, <1>5, <1>6, <1>7

\* A place within the capacity is in a block of the array.
LEMMA Bytewise ==
  ASSUME NEW a, ArrayOK(a), NEW p \in Nat, p < a.capacity
  PROVE  /\ Block(p) \in 1..Len(a.nodes) /\ Offset(p) \in 1..BaseSize
         /\ a.nodes[Block(p)] \in Blocks /\ ByteAt(a, p) \in Cell
  <1>1. a.capacity = BaseSize * Len(a.nodes) /\ Len(a.nodes) \in Nat
    BY Fields DEF ArrayOK
  <1>2. Block(p) \in 1..Len(a.nodes) /\ Offset(p) \in 1..BaseSize
    <2>1. PICK n \in Nat : n = Len(a.nodes) /\ p < BaseSize * n
      BY <1>1
    <2>2. Block(p) <= n
      BY <2>1, PlaceIn
    <2>3. Block(p) \in Nat \ {0} /\ Offset(p) \in 1..BaseSize
      BY Places
    <2> QED
      BY ONLY n \in Nat, <2>1, <2>2, <2>3
  <1>3. a.nodes[Block(p)] \in Blocks
    BY <1>2, Fields
  <1> QED
    BY <1>2, <1>3 DEF ByteAt, Blocks

\* The content is the bytes at the places up to the size.
LEMMA Contents ==
  ASSUME NEW a, ArrayOK(a)
  PROVE  /\ Content(a) \in Seq(Cell) /\ Len(Content(a)) = a.size
         /\ \A i \in 1..a.size : Content(a)[i] = ByteAt(a, i - 1)
  <1>1. a.size \in Nat /\ a.size <= a.capacity /\ a.capacity \in Nat
    BY Fields DEF ArrayOK
  <1>2. ASSUME NEW i \in 1..a.size PROVE ByteAt(a, i - 1) \in Cell
    <2>1. i - 1 \in Nat /\ i - 1 < a.capacity
      BY <1>1
    <2> QED
      BY <2>1, Bytewise
  <1>3. Content(a) \in [1..a.size -> Cell]
    BY <1>2 DEF Content
  <1>4. Content(a) \in Seq(Cell) /\ Len(Content(a)) = a.size
    BY <1>1, <1>3
  <1> QED
    BY <1>4 DEF Content

\* A call fetches what is at the position.
LEMMA Fetched ==
  ASSUME NEW a, ArrayOK(a), NEW n \in Nat, n <= ReadSize(a)
  PROVE  /\ Fetch(a, n) \in Seq(Cell) /\ Len(Fetch(a, n)) = n
         /\ \A i \in 1..n : Fetch(a, n)[i] = Content(a)[a.position + i]
         /\ Fetch(a, n) = SubSeq(Content(a), a.position + 1, a.position + n)
  <1>1. a.position \in Nat /\ a.size \in Nat /\ n + a.position <= a.size
    BY Fields DEF ReadSize
  <1>2. ASSUME NEW i \in 1..n
        PROVE  /\ Fetch(a, n)[i] = Content(a)[a.position + i]
               /\ Fetch(a, n)[i] \in Cell
    <2>1. i - 1 \in Nat /\ a.position + (i - 1) = a.position + i - 1
          /\ a.position + i \in 1..a.size
      BY <1>1
    <2>2. Fetch(a, n)[i] = ByteAt(a, a.position + (i - 1))
      BY <2>1, Spots DEF Fetch, ByteAt
    <2>3. PICK j \in 1..a.size : j = a.position + i
      BY <2>1
    <2>4. Content(a)[j] = ByteAt(a, j - 1) /\ Content(a)[j] \in Cell
      BY <1>1, Contents
    <2>5. j - 1 = a.position + (i - 1)
      BY <1>1, <2>3
    <2> QED
      BY <2>2, <2>3, <2>4, <2>5
  <1>3. Fetch(a, n) = [i \in 1..n |-> Fetch(a, n)[i]]
    BY DEF Fetch
  <1>4. Fetch(a, n) \in Seq(Cell) /\ Len(Fetch(a, n)) = n
    BY <1>2, <1>3
  <1>5. Fetch(a, n) = SubSeq(Content(a), a.position + 1, a.position + n)
    <2>1. PICK c \in Seq(Cell) : c = Content(a) /\ Len(c) = a.size
      BY Contents
    <2>2. PICK m \in Nat : m = a.position
      BY <1>1
    <2>3. /\ SubSeq(c, m + 1, m + n) \in Seq(Cell) /\ Len(SubSeq(c, m + 1, m + n)) = n
          /\ \A i \in 1..n : SubSeq(c, m + 1, m + n)[i] = c[m + i]
      <3>1. \A i \in (m + 1)..(m + n) : c[i] \in Cell
        BY <1>1, <2>1, <2>2
      <3>2. /\ SubSeq(c, m + 1, m + n) \in Seq(Cell)
            /\ Len(SubSeq(c, m + 1, m + n)) = IF m + 1 <= m + n THEN m + n - (m + 1) + 1 ELSE 0
            /\ \A i \in 1..(m + n - (m + 1) + 1) :
                 SubSeq(c, m + 1, m + n)[i] = c[m + 1 + i - 1]
        BY <3>1, SubSeqProperties
      <3>3. m + n - (m + 1) + 1 = n /\ (~(m + 1 <= m + n) => n = 0)
            /\ \A i \in 1..n : m + 1 + i - 1 = m + i
        OBVIOUS
      <3> QED
        BY <3>2, <3>3
    <2>4. \A i \in 1..n : Fetch(a, n)[i] = SubSeq(c, m + 1, m + n)[i]
      BY <1>2, <2>1, <2>2, <2>3
    <2>5. Fetch(a, n) = SubSeq(c, m + 1, m + n)
      BY <1>4, <2>3, <2>4, SeqEqual
    <2> QED
      BY <2>1, <2>2, <2>5
  <1> QED
    BY <1>2, <1>4, <1>5
Larger(m, n) == IF m > n THEN m ELSE n

\* Arrays with the same bytes have the same content.
LEMMA SameContent ==
  ASSUME NEW a, ArrayOK(a), NEW r, ArrayOK(r), r.size = a.size,
         \A p \in 0..(a.size - 1) : ByteAt(r, p) = ByteAt(a, p)
  PROVE  Content(r) = Content(a)
  <1>1. a.size \in Nat
    BY Fields
  <1>2. \A i \in 1..a.size : Content(r)[i] = Content(a)[i]
    <2>1. ASSUME NEW i \in 1..a.size PROVE Content(r)[i] = Content(a)[i]
      <3>1. i - 1 \in 0..(a.size - 1)
        BY <1>1
      <3> QED
        BY <3>1, Contents
    <2> QED
      BY <2>1
  <1>3. /\ Content(a) \in Seq(Cell) /\ Len(Content(a)) = a.size
        /\ Content(r) \in Seq(Cell) /\ Len(Content(r)) = a.size
    BY Contents
  <1> QED
    BY <1>2, <1>3, SeqEqual

\* The position moves over what it has, or wherever it may be set.
LEMMA Moved ==
  ASSUME NEW a, ArrayOK(a), NEW v \in Nat, v <= a.capacity,
         NEW r \in Arrays, r.nodes = a.nodes, r.capacity = a.capacity,
         r.position = v, r.cur = Block(v), r.size = Larger(a.size, v)
  PROVE  /\ ArrayOK(r) /\ r.size >= a.size
         /\ \A p \in Nat : ByteAt(r, p) = ByteAt(a, p)
         /\ \A i \in 1..a.size : Content(r)[i] = Content(a)[i]
  <1>1. a.size \in Nat /\ a.size <= a.capacity
    BY Fields DEF ArrayOK
  <1>2. ArrayOK(r)
    BY <1>1 DEF ArrayOK, Larger
  <1>3. \A p \in Nat : ByteAt(r, p) = ByteAt(a, p)
    BY DEF ByteAt
  <1>4. r.size \in Nat /\ r.size >= a.size
    BY <1>1 DEF Larger
  <1>5. ASSUME NEW i \in 1..a.size PROVE Content(r)[i] = Content(a)[i]
    <2>1. i - 1 \in Nat /\ i \in 1..r.size
      BY <1>1, <1>4
    <2> QED
      BY <1>2, <1>3, <2>1, Contents
  <1> QED
    BY <1>2, <1>3, <1>4, <1>5
\* setPosition moves the position, and grows the array when it is beyond the end.
LEMMA PositionSet ==
  ASSUME NEW a, ArrayOK(a), NEW v \in Nat, v <= a.capacity, NEW r, r = SetPosition(a, v)
  PROVE  /\ ArrayOK(r) /\ r.position = v /\ r.size = Larger(a.size, v)
         /\ \A p \in Nat : ByteAt(r, p) = ByteAt(a, p)
         /\ \A i \in 1..a.size : Content(r)[i] = Content(a)[i]
  <1>1. Block(v) \in Nat
    BY Places
  <1>2. /\ r \in Arrays /\ r.nodes = a.nodes /\ r.capacity = a.capacity
        /\ r.position = v /\ r.cur = Block(v) /\ r.size = Larger(a.size, v)
    <2> DEFINE S == Seq(Blocks)
               b == [a EXCEPT !.position = v, !.cur = Block(v)]
               z == IF b.position > b.size THEN b.position ELSE b.size
    <2>1. a \in [nodes : S, cur : Nat, position : Nat, size : Nat, capacity : Nat]
      BY DEF ArrayOK, Arrays
    <2>2. r = [b EXCEPT !.size = z]
      BY DEF SetPosition, Grown
    <2> HIDE DEF S
    <2>3. /\ b \in [nodes : S, cur : Nat, position : Nat, size : Nat, capacity : Nat]
          /\ b.nodes = a.nodes /\ b.capacity = a.capacity /\ b.position = v
          /\ b.cur = Block(v) /\ b.size = a.size
      BY <1>1, <2>1
    <2>4. z = Larger(a.size, v) /\ z \in Nat
      BY <2>1, <2>3 DEF Larger
    <2> HIDE DEF b, z
    <2>5. /\ r \in [nodes : S, cur : Nat, position : Nat, size : Nat, capacity : Nat]
          /\ r.nodes = b.nodes /\ r.capacity = b.capacity /\ r.position = b.position
          /\ r.cur = b.cur /\ r.size = z
      BY <2>2, <2>3, <2>4
    <2> QED
      BY <2>3, <2>4, <2>5 DEF S, Arrays
  <1> QED
    BY <1>2, Moved
\* A write that has walked over n bytes is where setPosition would take it.
LEMMA PositionAdvanced ==
  ASSUME NEW a, ArrayOK(a), NEW n \in Nat, a.position + n <= a.capacity,
         NEW r, r = Grown(Advance(a, n))
  PROVE  r = SetPosition(a, a.position + n)
  <1>1. Spot(a, n).block = Block(a.position + n)
    BY Spots
  <1>2. PICK v \in Nat : v = a.position + n
    BY Fields
  <1>3. Block(v) \in Nat
    BY Places
  <1> DEFINE S == Seq(Blocks)
             b == [a EXCEPT !.cur = Block(v), !.position = v]
             c == [a EXCEPT !.position = v, !.cur = Block(v)]
  <1>4. a \in [nodes : S, cur : Nat, position : Nat, size : Nat, capacity : Nat]
    BY DEF ArrayOK, Arrays
  <1>5. Advance(a, n) = b
    BY <1>1, <1>2 DEF Advance
  <1>6. b = c
    <2> HIDE DEF S
    <2>1. /\ b \in [nodes : S, cur : Nat, position : Nat, size : Nat, capacity : Nat]
          /\ b.nodes = a.nodes /\ b.cur = Block(v) /\ b.position = v /\ b.size = a.size
          /\ b.capacity = a.capacity
      BY <1>3, <1>4
    <2>2. /\ c \in [nodes : S, cur : Nat, position : Nat, size : Nat, capacity : Nat]
          /\ c.nodes = a.nodes /\ c.cur = Block(v) /\ c.position = v /\ c.size = a.size
          /\ c.capacity = a.capacity
      BY <1>3, <1>4
    <2> HIDE DEF b, c
    <2> QED
      BY <2>1, <2>2
  <1>7. SetPosition(a, v) = Grown(c)
    BY DEF SetPosition
  <1> QED
    BY <1>2, <1>5, <1>6, <1>7
\* A read moves the position and leaves the content.
LEMMA Advanced ==
  ASSUME NEW a, ArrayOK(a), NEW n \in Nat, n <= ReadSize(a), NEW r, r = Advance(a, n)
  PROVE  /\ ArrayOK(r) /\ r.position = a.position + n /\ r.size = a.size
         /\ Content(r) = Content(a)
  <1>1. a.position \in Nat /\ a.size \in Nat /\ a.position + n <= a.size
        /\ a.size <= a.capacity
    BY Fields DEF ReadSize, ArrayOK
  <1>2. PICK v \in Nat : v = a.position + n
    BY <1>1
  <1>3. Spot(a, n).block = Block(v) /\ Block(v) \in Nat
    BY <1>2, Spots, Places
  <1>4. /\ r \in Arrays /\ r.nodes = a.nodes /\ r.capacity = a.capacity
        /\ r.position = v /\ r.cur = Block(v) /\ r.size = a.size
    <2> DEFINE S == Seq(Blocks)
    <2>1. a \in [nodes : S, cur : Nat, position : Nat, size : Nat, capacity : Nat]
      BY DEF ArrayOK, Arrays
    <2>2. r = [a EXCEPT !.cur = Block(v), !.position = v]
      BY <1>2, <1>3 DEF Advance
    <2> HIDE DEF S
    <2>3. /\ r \in [nodes : S, cur : Nat, position : Nat, size : Nat, capacity : Nat]
          /\ r.nodes = a.nodes /\ r.capacity = a.capacity
          /\ r.position = v /\ r.cur = Block(v) /\ r.size = a.size
      BY <1>3, <2>1, <2>2
    <2> QED
      BY <2>3 DEF S, Arrays
  <1>5. r.size = Larger(a.size, v)
    BY <1>1, <1>2, <1>4 DEF Larger
  <1>6. ArrayOK(r) /\ \A p \in Nat : ByteAt(r, p) = ByteAt(a, p)
    <2>1. v <= a.capacity
      BY <1>1, <1>2, Fields
    <2> QED
      BY <1>4, <1>5, <2>1, Moved
  <1>7. Content(r) = Content(a)
    BY <1>1, <1>4, <1>6, SameContent
  <1> QED
    BY <1>2, <1>4, <1>6, <1>7

\* The bytes of data come to lie from the position on, and no other byte changes.
LEMMA Indexed ==
  ASSUME NEW a, ArrayOK(a), NEW p \in Nat
  PROVE  Index(a, Block(p), Offset(p)) = p - a.position + 1
  <1>1. PICK k \in Nat, o \in Nat :
           k + 1 = Block(p) /\ o = Offset(p) /\ p + 1 = BaseSize * k + o
    <2>1. Block(p) - 1 \in Nat /\ Block(p) - 1 + 1 = Block(p) /\ Offset(p) \in Nat
          /\ p + 1 = BaseSize * (Block(p) - 1) + Offset(p)
      BY Places
    <2> QED
      BY <2>1
  <1>2. PICK q \in Nat : q = a.position
    BY Fields
  <1>3. PICK l \in Nat, r \in 0..(BaseSize - 1) :
           l = q \div BaseSize /\ r = q % BaseSize /\ q = BaseSize * l + r
    BY Sizes, Division
  <1>4. a.cur = l + 1
    BY <1>2, <1>3 DEF ArrayOK, Block
  <1>5. Index(a, Block(p), Offset(p)) = (k + 1 - (l + 1)) * BaseSize + o - r
    <2>1. Block(p) = k + 1 /\ Offset(p) = o
      BY <1>1
    <2>2. a.position % BaseSize = r
      BY <1>2, <1>3, Zenon
    <2>3. Index(a, k + 1, o) = (k + 1 - (l + 1)) * BaseSize + o - r
      BY <1>4, <2>2 DEF Index
    <2> QED
      BY <2>1, <2>3
  <1>6. (k + 1 - (l + 1)) * BaseSize = BaseSize * k - BaseSize * l
    <2>1. k + 1 - (l + 1) = k - l
      OBVIOUS
    <2>2. (k - l) * BaseSize = BaseSize * k - BaseSize * l
      BY Sizes
    <2> QED
      BY <2>1, <2>2
  <1>7. PICK m \in Nat : m = BaseSize * k
    BY Sizes
  <1>8. PICK n \in Nat : n = BaseSize * l
    BY Sizes
  <1>9. Index(a, Block(p), Offset(p)) = m - n + o - r
    BY <1>5, <1>6, <1>7, <1>8
  <1>10. p + 1 = m + o /\ q = n + r /\ r \in Nat
    BY <1>1, <1>3, <1>7, <1>8, Sizes
  <1> QED
    BY <1>2, <1>9, <1>10
\* What is written lies at the places from the position on.
LEMMA Filled ==
  ASSUME NEW a, ArrayOK(a), NEW data \in Seq(Byte), NEW r, r = Fill(a, data)
  PROVE  /\ ArrayOK(r) /\ r.position = a.position /\ r.size = a.size
         /\ r.capacity = a.capacity
         /\ \A p \in 0..(a.capacity - 1) :
              ByteAt(r, p) = IF p - a.position + 1 \in 1..Len(data)
                             THEN data[p - a.position + 1] ELSE ByteAt(a, p)
  <1> DEFINE S == Seq(Blocks)
             new(b, o) == LET i == Index(a, b, o)
                          IN IF i \in DOMAIN data THEN data[i] ELSE a.nodes[b][o]
             nodes == [b \in DOMAIN a.nodes |-> [o \in 1..BaseSize |-> new(b, o)]]
  <1>1. DOMAIN data = 1..Len(data) /\ Len(data) \in Nat /\ \A i \in 1..Len(data) : data[i] \in Byte
    BY LenProperties
  <1>2. DOMAIN a.nodes = 1..Len(a.nodes) /\ Len(a.nodes) \in Nat \ {0}
    BY Fields
  <1>3. nodes \in S /\ Len(nodes) = Len(a.nodes) /\ nodes # <<>>
    <2>1. ASSUME NEW b \in 1..Len(a.nodes), NEW o \in 1..BaseSize PROVE new(b, o) \in Cell
      <3>1. a.nodes[b][o] \in Cell
        <4>1. a.nodes[b] \in Blocks
          BY Fields
        <4> QED
          BY <4>1 DEF Blocks
      <3>2. \A i \in DOMAIN data : data[i] \in Cell
        BY <1>1 DEF Cell
      <3> QED
        BY <3>1, <3>2
    <2> HIDE DEF new
    <2>2. \A b \in 1..Len(a.nodes) : [o \in 1..BaseSize |-> new(b, o)] \in Blocks
      BY <2>1 DEF Blocks
    <2>3. nodes = [b \in 1..Len(a.nodes) |-> [o \in 1..BaseSize |-> new(b, o)]]
      BY <1>2
    <2>4. nodes \in [1..Len(a.nodes) -> Blocks]
      BY <2>2, <2>3
    <2> HIDE DEF nodes
    <2>5. nodes \in Seq(Blocks) /\ Len(nodes) = Len(a.nodes)
      BY <1>2, <2>4
    <2>6. nodes # <<>>
      BY <1>2, <2>5, EmptySeq
    <2> QED
      BY <2>5, <2>6
  <1>4. r = [a EXCEPT !.nodes = nodes]
    BY DEF Fill
  <1>5. a \in [nodes : S, cur : Nat, position : Nat, size : Nat, capacity : Nat]
    BY DEF ArrayOK, Arrays
  <1>6. ASSUME NEW p \in 0..(a.capacity - 1)
        PROVE  nodes[Block(p)][Offset(p)] =
                 IF p - a.position + 1 \in 1..Len(data)
                 THEN data[p - a.position + 1] ELSE ByteAt(a, p)
    <2>1. p \in Nat /\ p < a.capacity
      BY Fields
    <2>2. Block(p) \in DOMAIN a.nodes /\ Offset(p) \in 1..BaseSize
      BY <1>2, <2>1, Bytewise
    <2>3. nodes[Block(p)][Offset(p)] = new(Block(p), Offset(p))
      <3> HIDE DEF new
      <3> QED
        BY <2>2
    <2>4. Index(a, Block(p), Offset(p)) = p - a.position + 1
      BY <2>1, Indexed
    <2> HIDE DEF nodes
    <2> QED
      BY <1>1, <2>3, <2>4 DEF ByteAt
  <1> HIDE DEF S, nodes
  <1>7. /\ r \in [nodes : S, cur : Nat, position : Nat, size : Nat, capacity : Nat]
        /\ r.nodes = nodes /\ r.cur = a.cur /\ r.position = a.position
        /\ r.size = a.size /\ r.capacity = a.capacity
    BY <1>3, <1>4, <1>5
  <1>8. ArrayOK(r)
    BY <1>3, <1>7 DEF ArrayOK, Arrays, S
  <1>9. \A p \in 0..(a.capacity - 1) : ByteAt(r, p) = nodes[Block(p)][Offset(p)]
    BY <1>7 DEF ByteAt
  <1> QED
    BY <1>6, <1>7, <1>8, <1>9

\* Enough blocks are added for n bytes, and those that were there stay as they are.
LEMMA Ceiling ==
  ASSUME NEW n \in Nat \ {0}, NEW d \in Nat \ {0}
  PROVE  CeilDiv(n, d) \in Nat \ {0} /\ d * CeilDiv(n, d) >= n
  <1>1. PICK p \in Nat : p = n + d - 1
    OBVIOUS
  <1>2. PICK k \in Nat, r \in 0..(d - 1) : k = p \div d /\ p = d * k + r
    BY Division
  <1>3. PICK m \in Nat : m = d * k
    OBVIOUS
  <1>4. m >= n
    BY <1>1, <1>2, <1>3
  <1>5. k # 0
    BY <1>3, <1>4
  <1>6. CeilDiv(n, d) = k
    BY <1>1, <1>2 DEF CeilDiv
  <1> QED
    BY <1>3, <1>4, <1>5, <1>6
Longer(a, count) == a.nodes \o [i \in 1..count |-> NewBlock]
\* The blocks that were there stay in front of those added.
LEMMA Extended ==
  ASSUME NEW a, ArrayOK(a), NEW count \in Nat
  PROVE  /\ Longer(a, count) \in Seq(Blocks) /\ Len(Longer(a, count)) = Len(a.nodes) + count
         /\ \A i \in 1..Len(a.nodes) : Longer(a, count)[i] = a.nodes[i]
  <1>1. NewBlock \in Blocks
    BY DEF NewBlock, Blocks, Cell
  <1>2. PICK more \in Seq(Blocks) :
           more = [i \in 1..count |-> NewBlock] /\ Len(more) = count
    <2>1. [i \in 1..count |-> NewBlock] \in [1..count -> Blocks]
      BY <1>1
    <2> HIDE DEF NewBlock, Blocks
    <2>2. PICK more : more = [i \in 1..count |-> NewBlock]
      OBVIOUS
    <2>3. more \in Seq(Blocks) /\ Len(more) = count
      BY <2>1, <2>2
    <2> QED
      BY <2>2, <2>3
  <1>3. a.nodes \in Seq(Blocks) /\ Len(a.nodes) \in Nat
    BY Fields
  <1>4. Longer(a, count) = a.nodes \o more
    BY <1>2 DEF Longer
  <1> QED
    BY <1>2, <1>3, <1>4, ConcatProperties
\* addCapacity makes room for n bytes, and moves no byte and no position.
LEMMA Enlarged ==
  ASSUME NEW a, ArrayOK(a), NEW n \in Nat, NEW r, r = AddCapacity(a, n)
  PROVE  /\ ArrayOK(r) /\ r.position = a.position /\ r.size = a.size
         /\ a.position + n <= r.capacity /\ a.capacity <= r.capacity
         /\ \A p \in 0..(a.capacity - 1) : ByteAt(r, p) = ByteAt(a, p)
  <1>1. /\ a.position \in Nat /\ a.capacity \in Nat /\ a.position <= a.size
        /\ a.size <= a.capacity /\ a.size \in Nat /\ a.capacity = BaseSize * Len(a.nodes)
        /\ Len(a.nodes) \in Nat
    BY Fields DEF ArrayOK
  <1>2. CASE n <= Capacity(a)
    <2>1. r = a
      BY <1>2 DEF AddCapacity
    <2> QED
      BY <1>1, <1>2, <2>1 DEF Capacity
  <1>3. CASE ~(n <= Capacity(a))
    <2>1. PICK m \in Nat \ {0} : m = n - Capacity(a) /\ a.position + n = a.capacity + m
      <3>1. n - Capacity(a) \in Nat \ {0}
            /\ a.position + n = a.capacity + (n - Capacity(a))
        BY <1>1, <1>3 DEF Capacity
      <3> QED
        BY <3>1
    <2>2. PICK count \in Nat \ {0} : count = CeilDiv(m, BaseSize) /\ BaseSize * count >= m
      BY Sizes, Ceiling
    <2>3. PICK more \in Nat : more = BaseSize * count /\ more = count * BaseSize
      BY Sizes
    <2>4. PICK nodes \in Seq(Blocks) :
             /\ nodes = Longer(a, count) /\ Len(nodes) = Len(a.nodes) + count
             /\ \A i \in 1..Len(a.nodes) : nodes[i] = a.nodes[i]
      BY Extended
    <2>5. PICK c \in Nat : c = IF Capacity(a) = 0 THEN Len(a.nodes) + 1 ELSE a.cur
      BY <1>1, Fields
    <2>6. c = Block(a.position)
      <3>1. CASE Capacity(a) = 0
        <4>1. a.position = BaseSize * Len(a.nodes)
          BY <1>1, <3>1 DEF Capacity
        <4>2. PICK l \in Nat \ {0} : l = Len(a.nodes) + 1 /\ l - 1 = Len(a.nodes)
          <5>1. Len(a.nodes) + 1 \in Nat \ {0} /\ Len(a.nodes) + 1 - 1 = Len(a.nodes)
            BY <1>1
          <5> QED
            BY <5>1
        <4>3. PICK q \in Nat : q = a.position
          BY <1>1
        <4>5. 1 \in 1..BaseSize /\ q + 1 = BaseSize * (l - 1) + 1
          BY <4>1, <4>2, <4>3, Sizes
        <4>6. Block(q) = l
          BY <4>5, PlaceIs
        <4>4. Block(a.position) = Len(a.nodes) + 1
          BY <4>2, <4>3, <4>6
        <4> QED
          BY <2>5, <3>1, <4>4
      <3>2. CASE Capacity(a) # 0
        BY <2>5, <3>2 DEF ArrayOK
      <3> QED
        BY <3>1, <3>2
    <2> DEFINE S == Seq(Blocks)
               k == a.capacity + count * BaseSize
    <2>7. k = a.capacity + more /\ k \in Nat
      BY <1>1, <2>3
    <2>8. r = [a EXCEPT !.nodes = nodes, !.capacity = k, !.cur = c]
      BY <1>3, <2>1, <2>2, <2>4, <2>5 DEF AddCapacity, Longer
    <2>9. a \in [nodes : S, cur : Nat, position : Nat, size : Nat, capacity : Nat]
      BY DEF ArrayOK, Arrays
    <2>10. nodes \in S
      OBVIOUS
    <2> HIDE DEF S, k
    <2>11. /\ r \in [nodes : S, cur : Nat, position : Nat, size : Nat, capacity : Nat]
           /\ r.nodes = nodes /\ r.capacity = k /\ r.cur = c
           /\ r.position = a.position /\ r.size = a.size
      BY <2>7, <2>8, <2>9, <2>10
    <2>12. k = BaseSize * Len(nodes)
      <3>1. PICK l \in Nat : l = Len(a.nodes)
        BY <1>1
      <3>2. BaseSize * (l + count) = BaseSize * l + BaseSize * count
        BY Sizes
      <3> QED
        BY <1>1, <2>3, <2>4, <2>7, <3>1, <3>2
    <2>13. nodes # <<>>
      BY <1>1, <2>4, EmptySeq
    <2>14. ArrayOK(r)
      BY <1>1, <2>6, <2>7, <2>11, <2>12, <2>13 DEF ArrayOK, Arrays, S
    <2>15. ASSUME NEW p \in 0..(a.capacity - 1) PROVE ByteAt(r, p) = ByteAt(a, p)
      <3>1. p \in Nat /\ p < a.capacity
        BY <1>1
      <3>2. Block(p) \in 1..Len(a.nodes)
        BY <3>1, Bytewise
      <3> QED
        BY <2>4, <2>11, <3>2 DEF ByteAt
    <2>16. a.position + n <= k /\ a.capacity <= k
      BY <1>1, <2>1, <2>2, <2>3, <2>7
    <2> QED
      BY <2>11, <2>14, <2>15, <2>16
  <1> QED
    BY <1>2, <1>3
\* Adding blocks does not change the content.
LEMMA EnlargedContent ==
  ASSUME NEW a, ArrayOK(a), NEW n \in Nat, NEW r, r = AddCapacity(a, n)
  PROVE  Content(r) = Content(a)
  <1>1. a.size \in Nat /\ a.capacity \in Nat /\ a.size <= a.capacity
    BY Fields DEF ArrayOK
  <1>2. \A p \in 0..(a.size - 1) : p \in 0..(a.capacity - 1)
    BY <1>1
  <1> QED
    BY <1>2, Enlarged, SameContent

\* A sequence of bytes with data laid over it from a position on.
Laid(c, p, data) ==
  [i \in 1..Larger(Len(c), p + Len(data)) |->
     IF i \in (p + 1)..(p + Len(data)) THEN data[i - p] ELSE c[i]]
\* An array with data in its place has the content with data laid over it.
LEMMA LaidContent ==
  ASSUME NEW a, ArrayOK(a), NEW data \in Seq(Byte), NEW r, ArrayOK(r),
         r.size = Larger(a.size, a.position + Len(data)),
         \A p \in 0..(r.size - 1) :
           ByteAt(r, p) = IF p - a.position + 1 \in 1..Len(data)
                          THEN data[p - a.position + 1] ELSE ByteAt(a, p)
  PROVE  Content(r) = Laid(Content(a), a.position, data)
  <1>1. PICK l \in Nat : l = Len(data)
    BY LenProperties
  <1>2. PICK q \in Nat : q = a.position
    BY Fields
  <1>3. PICK z \in Nat : z = a.size /\ q <= z
    BY <1>2, Fields DEF ArrayOK
  <1>4. PICK y \in Nat : y = r.size /\ y = Larger(z, q + l)
    BY <1>1, <1>2, <1>3, Fields
  <1>5. ASSUME NEW i \in 1..y
        PROVE  Content(r)[i] = IF i \in (q + 1)..(q + l) THEN data[i - q] ELSE Content(a)[i]
    <2>1. PICK p \in 0..(y - 1) : p = i - 1 /\ p - q + 1 = i - q
      <3>1. i - 1 \in 0..(y - 1) /\ i - 1 - q + 1 = i - q
        OBVIOUS
      <3> QED
        BY <3>1
    <2>2. Content(r)[i] = ByteAt(r, p)
      BY <1>4, <2>1, Contents
    <2>3. ByteAt(r, p) = IF i - q \in 1..l THEN data[i - q] ELSE ByteAt(a, p)
      BY <1>1, <1>2, <1>4, <2>1
    <2>4. i - q \in 1..l <=> i \in (q + 1)..(q + l)
      OBVIOUS
    <2>5. i \notin (q + 1)..(q + l) => i \in 1..z
      BY <1>3, <1>4 DEF Larger
    <2>6. i \in 1..z => Content(a)[i] = ByteAt(a, p)
      BY <1>3, <2>1, Contents
    <2> QED
      BY <2>2, <2>3, <2>4, <2>5, <2>6
  <1>6. Len(Content(a)) = z /\ Len(Content(r)) = y /\ Content(r) \in Seq(Cell)
    BY <1>3, <1>4, Contents
  <1>7. Laid(Content(a), a.position, data)
          = [i \in 1..y |-> IF i \in (q + 1)..(q + l) THEN data[i - q] ELSE Content(a)[i]]
    BY <1>1, <1>2, <1>4, <1>6 DEF Laid
  <1>8. Content(r) = [i \in 1..y |-> Content(r)[i]]
    BY <1>6
  <1> QED
    BY <1>5, <1>7, <1>8
\* Making room, copying data and moving over it lays data over the content.
LEMMA Copied ==
  ASSUME NEW a, ArrayOK(a), NEW want \in Nat, NEW data \in Seq(Byte), Len(data) <= want,
         NEW b, b = AddCapacity(a, want),
         NEW r, r = SetPosition(Fill(b, data), b.position + Len(data))
  PROVE  /\ ArrayOK(r) /\ r.position = a.position + Len(data)
         /\ Content(r) = Laid(Content(a), a.position, data)
  <1>1. /\ ArrayOK(b) /\ b.position = a.position /\ b.size = a.size
        /\ a.position + want <= b.capacity /\ a.capacity <= b.capacity
        /\ \A p \in 0..(a.capacity - 1) : ByteAt(b, p) = ByteAt(a, p)
    BY Enlarged
  <1>2. PICK f : f = Fill(b, data)
    OBVIOUS
  <1>3. /\ ArrayOK(f) /\ f.position = b.position /\ f.size = b.size
        /\ f.capacity = b.capacity
        /\ \A p \in 0..(b.capacity - 1) :
             ByteAt(f, p) = IF p - b.position + 1 \in 1..Len(data)
                            THEN data[p - b.position + 1] ELSE ByteAt(b, p)
    BY <1>1, <1>2, Filled
  <1>4. PICK l \in Nat : l = Len(data)
    BY LenProperties
  <1>5. PICK q \in Nat : q = a.position
    BY Fields
  <1>6. PICK z \in Nat, k \in Nat, m \in Nat :
           z = a.size /\ k = a.capacity /\ m = b.capacity /\ q <= z /\ z <= k
    BY <1>1, <1>5, Fields DEF ArrayOK
  <1>7. q + l <= m /\ z <= m
    <2>1. z <= m
      BY <1>1, <1>6
    <2>2. q + want <= m /\ l <= want
      BY <1>1, <1>4, <1>5, <1>6
    <2> QED
      BY <2>1, <2>2
  <1>8. /\ ArrayOK(r) /\ r.position = q + l /\ r.size = Larger(z, q + l)
        /\ \A p \in Nat : ByteAt(r, p) = ByteAt(f, p)
    <2>1. r = SetPosition(f, q + l) /\ q + l \in Nat /\ q + l <= f.capacity
      BY <1>1, <1>2, <1>3, <1>4, <1>5, <1>6, <1>7
    <2>2. f.size = z
      BY <1>1, <1>3, <1>6
    <2> QED
      BY <1>3, <2>1, <2>2, PositionSet
  <1>9. ASSUME NEW p \in 0..(r.size - 1)
        PROVE  ByteAt(r, p) = IF p - a.position + 1 \in 1..Len(data)
                              THEN data[p - a.position + 1] ELSE ByteAt(a, p)
    <2>1. p \in Nat /\ p \in 0..(m - 1) /\ (~(p - q + 1 \in 1..l) => p \in 0..(k - 1))
      <3>1. PICK y \in Nat : y = r.size /\ y = Larger(z, q + l)
        BY <1>8, Fields
      <3>2. y <= m /\ p \in 0..(y - 1)
        BY <1>7, <3>1 DEF Larger
      <3>3. ASSUME ~(p - q + 1 \in 1..l) PROVE p \in 0..(k - 1)
        <4>1. y = z \/ y = q + l
          BY <3>1 DEF Larger
        <4>2. q <= z /\ z <= k /\ p \in Nat /\ p < y
          BY <1>6, <3>2
        <4>3. CASE y = z
          BY <4>2, <4>3
        <4>4. CASE y = q + l
          BY <3>3, <4>2, <4>4
        <4> QED
          BY <4>1, <4>3, <4>4
      <3> QED
        BY <3>2, <3>3
    <2>2. ByteAt(r, p) = ByteAt(f, p)
      BY <1>8, <2>1
    <2>3. ByteAt(f, p) = IF p - q + 1 \in 1..l THEN data[p - q + 1] ELSE ByteAt(b, p)
      BY <1>1, <1>3, <1>4, <1>5, <1>6, <2>1
    <2>4. p \in 0..(k - 1) => ByteAt(b, p) = ByteAt(a, p)
      BY <1>1, <1>6
    <2> QED
      BY <1>4, <1>5, <2>1, <2>2, <2>3, <2>4
  <1>10. Content(r) = Laid(Content(a), a.position, data)
    BY <1>4, <1>5, <1>6, <1>8, <1>9, LaidContent
  <1> QED
    BY <1>4, <1>5, <1>8, <1>10

\* Laying nothing changes nothing.
LEMMA LaidNothing ==
  ASSUME NEW a, ArrayOK(a)
  PROVE  Laid(Content(a), a.position, <<>>) = Content(a)
  <1>1. PICK q \in Nat, z \in Nat : q = a.position /\ z = a.size /\ q <= z
    BY Fields DEF ArrayOK
  <1>2. Len(Content(a)) = z /\ Content(a) \in Seq(Cell)
    BY <1>1, Contents
  <1>3. Len(<<>>) = 0 /\ Larger(z, q + 0) = z /\ \A i \in 1..z : i \notin (q + 1)..(q + 0)
    BY <1>1 DEF Larger
  <1>4. Laid(Content(a), a.position, <<>>) = [i \in 1..z |-> Content(a)[i]]
    BY <1>1, <1>2, <1>3 DEF Laid
  <1> QED
    BY <1>2, <1>4
\* A write lays its bytes over those at the position.
LEMMA WrittenBytes ==
  ASSUME NEW a, ArrayOK(a), NEW data \in Seq(Byte), NEW r, r = WriteBytes(a, data)
  PROVE  /\ ArrayOK(r) /\ r.position = a.position + Len(data)
         /\ Content(r) = Laid(Content(a), a.position, data)
  <1>1. CASE data = <<>>
    <2>1. r = a /\ Len(data) = 0 /\ a.position \in Nat
      BY <1>1, Fields DEF WriteBytes
    <2> QED
      BY <1>1, <2>1, LaidNothing
  <1>2. CASE data # <<>>
    <2>1. PICK l \in Nat : l = Len(data)
      BY LenProperties
    <2>2. PICK b : b = AddCapacity(a, l)
      OBVIOUS
    <2>3. PICK f : f = Fill(b, data)
      OBVIOUS
    <2>4. ArrayOK(b) /\ b.position = a.position /\ a.position + l <= b.capacity
      BY <2>2, Enlarged
    <2>5. ArrayOK(f) /\ f.position = b.position /\ f.capacity = b.capacity
      BY <2>3, <2>4, Filled
    <2>6. r = Grown(Advance(f, l))
      BY <1>2, <2>1, <2>2, <2>3 DEF WriteBytes
    <2>7. r = SetPosition(f, b.position + l)
      BY <2>4, <2>5, <2>6, PositionAdvanced
    <2> QED
      BY <2>1, <2>2, <2>3, <2>7, Copied
  <1> QED
    BY <1>1, <1>2
\* So does what a socket brings.
LEMMA Received ==
  ASSUME NEW a, ArrayOK(a), NEW want \in Nat, NEW data \in Seq(Byte), Len(data) <= want,
         NEW r, r = RecvInto(a, want, data)
  PROVE  /\ ArrayOK(r) /\ r.position = a.position + Len(data)
         /\ Content(r) = Laid(Content(a), a.position, data)
  <1>1. CASE data = <<>>
    <2>1. r = AddCapacity(a, want) /\ Len(data) = 0 /\ a.position \in Nat
      BY <1>1, Fields DEF RecvInto
    <2>2. ArrayOK(r) /\ r.position = a.position
      BY <2>1, Enlarged
    <2>3. Content(r) = Content(a)
      BY <2>1, EnlargedContent
    <2> QED
      BY <1>1, <2>1, <2>2, <2>3, LaidNothing
  <1>2. CASE data # <<>>
    <2>1. PICK b : b = AddCapacity(a, want)
      OBVIOUS
    <2>2. r = SetPosition(Fill(b, data), b.position + Len(data))
      BY <1>2, <2>1 DEF RecvInto
    <2> QED
      BY <2>1, <2>2, Copied
  <1> QED
    BY <1>1, <1>2

\* Induction over a set of numbers: upwards from those below, and downwards.
LEMMA Upwards ==
  ASSUME NEW T, \A n \in Nat : (\A m \in 0..(n - 1) : m \in T) => n \in T
  PROVE  Nat \subseteq T
  <1> DEFINE U == {n \in Nat : n \notin T}
  <1> SUFFICES ASSUME U # {} PROVE FALSE
    OBVIOUS
  <1>1. PICK m \in U : \A n \in U : m <= n
    <2>1. U \subseteq Nat
      OBVIOUS
    <2> HIDE DEF U
    <2> QED
      BY <2>1, LeastNumber
  <1>2. \A n \in 0..(m - 1) : n \in T
    BY <1>1
  <1> QED
    BY <1>1, <1>2
\* What holds at the end, and below wherever it holds, holds everywhere before.
LEMMA Downwards ==
  ASSUME NEW l \in Nat, NEW T, l \in T, \A i \in 1..(l - 1) : i + 1 \in T => i \in T
  PROVE  1..l \subseteq T
  <1> DEFINE U == {n \in Nat : l - n >= 1 => l - n \in T}
  <1>1. ASSUME NEW n \in Nat, \A m \in 0..(n - 1) : m \in U PROVE n \in U
    <2>1. CASE n = 0
      BY <2>1
    <2>2. CASE n # 0 /\ l - n >= 1
      <3>1. n - 1 \in U /\ l - (n - 1) = (l - n) + 1 /\ l - n \in 1..(l - 1)
        BY <1>1, <2>2
      <3>2. (l - n) + 1 \in T
        BY <3>1, <2>2
      <3> QED
        BY <3>1, <3>2
    <2>3. CASE ~(l - n >= 1)
      BY <2>3
    <2> QED
      BY <2>1, <2>2, <2>3
  <1>2. Nat \subseteq U
    <2> HIDE DEF U
    <2> QED
      BY <1>1, Upwards
  <1>3. ASSUME NEW i \in 1..l PROVE i \in T
    <2>1. l - i \in Nat /\ l - (l - i) = i
      OBVIOUS
    <2>2. l - i \in U
      BY <1>2, <2>1
    <2> QED
      BY <2>1, <2>2
  <1> QED
    BY <1>3

\* The groups of a number, as written.
Groups(f, v) == IF v < Half THEN <<v>> ELSE <<(v % Half) + Half>> \o f[v \div Half]
\* What is left of a number without its lowest group is less, as long as it is marked.
LEMMA GroupsBelow ==
  ASSUME NEW v \in Nat
  PROVE  /\ v \div Half \in Nat /\ v % Half \in 0..(Half - 1)
         /\ v = Half * (v \div Half) + (v % Half)
         /\ v >= Half => v \div Half <= v - 1
  <1>1. PICK k \in Nat, r \in 0..(Half - 1) :
           k = v \div Half /\ r = v % Half /\ v = Half * k + r
    BY Sizes, Division
  <1>2. PICK h \in Nat : Half = 2 + h
    <2>1. Half - 2 \in Nat /\ Half = 2 + (Half - 2)
      BY Sizes
    <2> QED
      BY <2>1
  <1>3. Half * k = 2 * k + h * k /\ h * k \in Nat
    BY <1>2
  <1>4. v >= Half => k <= v - 1
    BY <1>1, <1>3, Sizes
  <1> QED
    BY <1>1, <1>4
\* Every number is written as its lowest group and what is left of it.
LEMMA VarintIs ==
  ASSUME NEW v \in Unsigned
  PROVE  Varint[v] = Groups(Varint, v)
  <1> DEFINE Defined(f, n) == f = [u \in 0..n |-> Groups(f, u)]
             T == {n \in Nat : \E f : Defined(f, n)}
  <1>1. ASSUME NEW n \in Nat, NEW f,
               n # 0 => Defined(f, n - 1)
        PROVE  \E g : Defined(g, n)
    <2> DEFINE g == [u \in 0..n |-> IF u = n THEN Groups(f, n) ELSE f[u]]
    <2>1. g[n] = Groups(f, n) /\ \A u \in 0..(n - 1) : g[u] = f[u]
      OBVIOUS
    <2>2. ASSUME NEW u \in 0..n PROVE g[u] = Groups(g, u)
      <3>1. u >= Half => u \div Half \in 0..(n - 1)
        BY GroupsBelow
      <3>2. Groups(g, u) = Groups(f, u)
        <4> HIDE DEF g
        <4>1. CASE u < Half
          BY <4>1 DEF Groups
        <4>2. CASE ~(u < Half)
          <5>1. g[u \div Half] = f[u \div Half]
            BY <2>1, <3>1, <4>2, Sizes
          <5> QED
            BY <4>2, <5>1 DEF Groups
        <4> QED
          BY <4>1, <4>2
      <3>3. u # n => f[u] = Groups(f, u)
        BY <1>1
      <3>4. u # n => g[u] = f[u]
        BY <2>1
      <3> HIDE DEF g
      <3> QED
        BY <2>1, <3>2, <3>3, <3>4
    <2>3. g = [u \in 0..n |-> g[u]]
      OBVIOUS
    <2> HIDE DEF g
    <2>4. Defined(g, n)
      BY <2>2, <2>3
    <2> QED
      BY <2>4
  <1>2. ASSUME NEW n \in Nat, \A m \in 0..(n - 1) : m \in T PROVE n \in T
    <2>1. CASE n = 0
      BY <1>1, <2>1
    <2>2. CASE n # 0
      <3>1. n - 1 \in 0..(n - 1)
        BY <2>2
      <3>2. \E f : Defined(f, n - 1)
        BY <1>2, <3>1
      <3> HIDE DEF Defined
      <3> QED
        BY <1>1, <3>2
    <2> QED
      BY <2>1, <2>2
  <1>3. Nat \subseteq T
    <2> HIDE DEF T
    <2> QED
      BY <1>2, Upwards
  <1>4. Numbers - 1 \in Nat /\ Unsigned = 0..(Numbers - 1)
    BY ByteArrayAssumption DEF Unsigned
  <1>5. \E f : Defined(f, Numbers - 1)
    BY <1>3, <1>4
  <1>6. Varint = CHOOSE f : Defined(f, Numbers - 1)
    BY <1>4 DEF Varint, Groups
  <1> HIDE DEF Defined
  <1>7. Defined(Varint, Numbers - 1)
    BY <1>5, <1>6
  <1>8. Varint = [u \in Unsigned |-> Groups(Varint, u)]
    BY <1>4, <1>7 DEF Defined
  <1> QED
    BY <1>8

\* The value of a sequence of groups.
Sum(f, s, g, i) == IF i > Len(s) THEN 0 ELSE (s[i] % g) + g * f[i + 1]
Sums(f, s, g) == \A i \in 1..(Len(s) + 1) : f[i] = Sum(f, s, g, i)
\* The value of a sequence is the sum that its last bytes begin.
LEMMA ValueExists ==
  ASSUME NEW s \in Seq(Nat), NEW g \in Nat \ {0}
  PROVE  \E f \in [1..(Len(s) + 1) -> Nat] : Sums(f, s, g) /\ Value(s, g) = f[1]
  <1>1. PICK l \in Nat : l = Len(s)
    BY LenProperties
  <1> DEFINE Defined(f, m) == f = [i \in m..(l + 1) |-> Sum(f, s, g, i)]
             T == {m \in 1..(l + 1) : \E f : Defined(f, m)}
  <1>2. l + 1 \in T
    <2> DEFINE f == [i \in (l + 1)..(l + 1) |-> 0]
    <2>1. ASSUME NEW i \in (l + 1)..(l + 1) PROVE Sum(f, s, g, i) = 0
      BY <1>1 DEF Sum
    <2>2. Defined(f, l + 1)
      <3> HIDE DEF f
      <3>1. f = [i \in (l + 1)..(l + 1) |-> 0]
        BY DEF f
      <3> QED
        BY <2>1, <3>1
    <2>3. l + 1 \in 1..(l + 1)
      OBVIOUS
    <2> HIDE DEF Defined
    <2> QED
      BY <2>2, <2>3
  <1>3. ASSUME NEW m \in 1..l, m + 1 \in T PROVE m \in T
    <2>1. PICK f : Defined(f, m + 1)
      BY <1>3
    <2> DEFINE h == [i \in m..(l + 1) |-> IF i = m THEN Sum(f, s, g, m) ELSE f[i]]
    <2>2. h[m] = Sum(f, s, g, m) /\ \A i \in (m + 1)..(l + 1) : h[i] = f[i]
      OBVIOUS
    <2>3. h = [i \in m..(l + 1) |-> h[i]]
      OBVIOUS
    <2> HIDE DEF h
    <2>4. ASSUME NEW i \in m..(l + 1) PROVE h[i] = Sum(h, s, g, i)
      <3>1. Sum(h, s, g, i) = Sum(f, s, g, i)
        <4>1. CASE i > l
          BY <1>1, <4>1 DEF Sum
        <4>2. CASE ~(i > l)
          <5>1. i + 1 \in (m + 1)..(l + 1)
            BY <4>2
          <5>2. h[i + 1] = f[i + 1]
            BY <2>2, <5>1
          <5> QED
            BY <1>1, <4>2, <5>2 DEF Sum
        <4> QED
          BY <4>1, <4>2
      <3>2. CASE i = m
        BY <2>2, <3>1, <3>2
      <3>3. CASE i # m
        <4>1. i \in (m + 1)..(l + 1)
          BY <3>3
        <4>2. f[i] = Sum(f, s, g, i)
          BY <2>1, <4>1
        <4> QED
          BY <2>2, <3>1, <4>1, <4>2
      <3> QED
        BY <3>2, <3>3
    <2>5. Defined(h, m)
      BY <2>3, <2>4
    <2>6. m \in 1..(l + 1)
      OBVIOUS
    <2> HIDE DEF Defined
    <2> QED
      BY <2>5, <2>6
  <1>4. 1 \in T
    <2>1. l + 1 \in Nat /\ l + 1 - 1 = l /\ 1 \in 1..(l + 1)
      OBVIOUS
    <2>2. \A i \in 1..(l + 1 - 1) : i + 1 \in T => i \in T
      BY <1>3, <2>1
    <2> HIDE DEF T
    <2> QED
      BY <1>2, <2>1, <2>2, Downwards
  <1>5. Value(s, g) = (CHOOSE f : Defined(f, 1))[1]
    BY <1>1 DEF Value, Sum
  <1>6. PICK f : Defined(f, 1) /\ Value(s, g) = f[1]
    <2>1. \E f : Defined(f, 1)
      BY <1>4
    <2> HIDE DEF Defined
    <2> QED
      BY <1>5, <2>1
  <1>7. \A i \in 1..(l + 1) : f[i] = Sum(f, s, g, i)
    BY <1>6
  <1> DEFINE U == {i \in 1..(l + 1) : f[i] \in Nat}
  <1>8. l + 1 \in U
    <2>1. l + 1 \in 1..(l + 1) /\ l + 1 > l
      OBVIOUS
    <2> QED
      BY <1>1, <1>7, <2>1 DEF Sum
  <1>9. ASSUME NEW i \in 1..l, i + 1 \in U PROVE i \in U
    <2>1. i \in 1..(l + 1) /\ f[i + 1] \in Nat
      BY <1>9
    <2>2. s[i] \in Nat
      BY <1>1
    <2>3. (s[i] % g) \in Nat
      <3>1. PICK x \in Nat : x = s[i]
        BY <2>2
      <3>2. x % g \in 0..(g - 1)
        BY Division
      <3> QED
        BY <3>1, <3>2
    <2>4. g * f[i + 1] \in Nat
      BY <2>1
    <2>5. f[i] = (s[i] % g) + g * f[i + 1]
      BY <1>1, <1>7, <2>1 DEF Sum
    <2>6. f[i] \in Nat
      BY ONLY <2>3, <2>4, <2>5
    <2> QED
      BY <2>1, <2>6
  <1>10. 1..(l + 1) \subseteq U
    <2>1. l + 1 \in Nat /\ \A i \in 1..(l + 1 - 1) : i + 1 \in U => i \in U
      BY <1>9
    <2> HIDE DEF U
    <2> QED
      BY <1>8, <2>1, Downwards
  <1>11. f = [i \in 1..(l + 1) |-> f[i]]
    BY <1>6
  <1>12. f \in [1..(l + 1) -> Nat]
    BY <1>10, <1>11
  <1> QED
    BY <1>1, <1>6, <1>7, <1>12 DEF Sums
\* There is one such sum.
LEMMA ValueOnce ==
  ASSUME NEW s \in Seq(Nat), NEW g \in Nat \ {0}, NEW f, NEW h,
         Sums(f, s, g), Sums(h, s, g)
  PROVE  f[1] = h[1]
  <1>1. PICK l \in Nat : l = Len(s)
    BY LenProperties
  <1> DEFINE T == {i \in 1..(l + 1) : f[i] = h[i]}
  <1>2. l + 1 \in T
    <2>1. l + 1 \in 1..(l + 1) /\ l + 1 > l
      OBVIOUS
    <2> QED
      BY <1>1, <2>1 DEF Sum, Sums
  <1>3. ASSUME NEW i \in 1..l, i + 1 \in T PROVE i \in T
    <2>1. i \in 1..(l + 1) /\ f[i + 1] = h[i + 1] /\ ~(i > l)
      BY <1>3
    <2>2. f[i] = (s[i] % g) + g * f[i + 1] /\ h[i] = (s[i] % g) + g * h[i + 1]
      BY <1>1, <2>1 DEF Sum, Sums
    <2> QED
      BY <2>1, <2>2
  <1>4. 1..(l + 1) \subseteq T
    <2>1. l + 1 \in Nat /\ \A i \in 1..(l + 1 - 1) : i + 1 \in T => i \in T
      BY <1>3
    <2> HIDE DEF T
    <2> QED
      BY <1>2, <2>1, Downwards
  <1> QED
    BY <1>1, <1>4
\* The value of a sequence by its first byte and what follows.
LEMMA ValueIs ==
  ASSUME NEW g \in Nat \ {0}, NEW b \in Nat, NEW s \in Seq(Nat)
  PROVE  /\ Value(s, g) \in Nat /\ Value(<<>>, g) = 0
         /\ Value(<<b>> \o s, g) = (b % g) + g * Value(s, g)
  <1>1. PICK l \in Nat : l = Len(s)
    BY LenProperties
  <1>2. PICK f \in [1..(Len(s) + 1) -> Nat] : Sums(f, s, g) /\ Value(s, g) = f[1]
    BY ValueExists
  <1>3. Value(s, g) \in Nat
    BY <1>1, <1>2
  <1>4. Value(<<>>, g) = 0
    <2>1. PICK e \in Seq(Nat) : e = <<>> /\ Len(e) = 0
      <3>1. <<>> \in Seq(Nat) /\ Len(<<>>) = 0
        OBVIOUS
      <3> QED
        BY <3>1
    <2>2. PICK h \in [1..(Len(e) + 1) -> Nat] : Sums(h, e, g) /\ Value(e, g) = h[1]
      BY ValueExists
    <2>3. h[1] = Sum(h, e, g, 1)
      BY <2>1, <2>2 DEF Sums
    <2> QED
      BY <2>1, <2>2, <2>3 DEF Sum
  <1>5. PICK t \in Seq(Nat) : /\ t = <<b>> \o s /\ Len(t) = l + 1 /\ t[1] = b
                              /\ \A i \in 1..l : t[i + 1] = s[i]
    <2>1. PICK u \in Seq(Nat) : u = <<b>> /\ Len(u) = 1 /\ u[1] = b
      <3>1. <<b>> \in Seq(Nat) /\ Len(<<b>>) = 1 /\ <<b>>[1] = b
        OBVIOUS
      <3> QED
        BY <3>1
    <2>2. /\ u \o s \in Seq(Nat) /\ Len(u \o s) = Len(u) + Len(s)
          /\ \A i \in 1..(Len(u) + Len(s)) : (u \o s)[i] = IF i <= Len(u) THEN u[i]
                                                           ELSE s[i - Len(u)]
      BY ConcatProperties
    <2>3. \A i \in 1..l : i + 1 \in 1..(1 + l) /\ ~(i + 1 <= 1) /\ i + 1 - 1 = i
      OBVIOUS
    <2>4. Len(u \o s) = l + 1 /\ (u \o s)[1] = b /\ \A i \in 1..l : (u \o s)[i + 1] = s[i]
      BY <1>1, <2>1, <2>2, <2>3
    <2> QED
      BY <2>1, <2>2, <2>4
  <1>6. PICK h : (\A i \in 1..(l + 2) : h[i] = Sum(h, t, g, i)) /\ Value(t, g) = h[1]
    <2>1. Len(t) + 1 = l + 2
      BY <1>5
    <2>2. PICK h \in [1..(Len(t) + 1) -> Nat] : Sums(h, t, g) /\ Value(t, g) = h[1]
      BY ValueExists
    <2>3. \A i \in 1..(l + 2) : h[i] = Sum(h, t, g, i)
      BY <2>1, <2>2 DEF Sums
    <2> QED
      BY <2>2, <2>3
  <1> DEFINE k == [i \in 1..(l + 1) |-> h[i + 1]]
  <1>7. ASSUME NEW i \in 1..(l + 1) PROVE k[i] = Sum(k, s, g, i)
    <2>1. i + 1 \in 1..(l + 2) /\ k[i] = h[i + 1]
      OBVIOUS
    <2>2. k[i] = Sum(h, t, g, i + 1)
      BY <1>6, <2>1
    <2>3. CASE i > l
      BY <1>1, <1>5, <2>2, <2>3 DEF Sum
    <2>4. CASE ~(i > l)
      <3>1. i \in 1..l /\ ~(i + 1 > l + 1) /\ i + 1 \in 1..(l + 1)
        BY <2>4
      <3>2. k[i + 1] = h[i + 1 + 1]
        BY <3>1
      <3>3. Sum(h, t, g, i + 1) = (s[i] % g) + g * h[i + 1 + 1]
        BY <1>5, <3>1 DEF Sum
      <3> HIDE DEF k
      <3> QED
        BY <1>1, <2>2, <2>4, <3>2, <3>3 DEF Sum
    <2> QED
      BY <2>3, <2>4
  <1> HIDE DEF k
  <1>8. f[1] = k[1]
    <2>1. Sums(k, s, g)
      BY <1>1, <1>7 DEF Sums
    <2> QED
      BY <1>2, <2>1, ValueOnce
  <1>9. k[1] = h[2]
    BY DEF k
  <1>10. h[1] = (b % g) + g * h[2]
    <2>1. 1 \in 1..(l + 2) /\ ~(1 > l + 1) /\ 1 + 1 = 2
      OBVIOUS
    <2>2. h[1] = Sum(h, t, g, 1)
      BY <1>6, <2>1
    <2> QED
      BY <1>5, <2>1, <2>2 DEF Sum
  <1>11. f[1] = h[2]
    BY <1>8, <1>9
  <1> QED
    BY <1>2, <1>3, <1>4, <1>5, <1>6, <1>10, <1>11

\* A byte before a sequence.
LEMMA Preceded ==
  ASSUME NEW S, NEW b \in S, NEW s \in Seq(S), NEW t, t = <<b>> \o s
  PROVE  /\ t \in Seq(S) /\ Len(t) = Len(s) + 1 /\ Len(s) \in Nat
         /\ t[1] = b /\ \A i \in 1..Len(s) : t[i + 1] = s[i]
  <1>1. PICK u \in Seq(S) : u = <<b>> /\ Len(u) = 1 /\ u[1] = b
    <2>1. <<b>> \in Seq(S) /\ Len(<<b>>) = 1 /\ <<b>>[1] = b
      OBVIOUS
    <2> QED
      BY <2>1
  <1>2. PICK l \in Nat : l = Len(s)
    BY LenProperties
  <1>3. /\ u \o s \in Seq(S) /\ Len(u \o s) = 1 + l
        /\ \A i \in 1..(1 + l) : (u \o s)[i] = IF i <= 1 THEN u[i] ELSE s[i - 1]
    BY <1>1, <1>2, ConcatProperties
  <1>4. \A i \in 1..l : i + 1 \in 1..(1 + l) /\ ~(i + 1 <= 1) /\ i + 1 - 1 = i
    OBVIOUS
  <1>5. 1 \in 1..(1 + l) /\ 1 <= 1
    OBVIOUS
  <1>6. \A i \in 1..l : (u \o s)[i + 1] = s[i]
    BY <1>3, <1>4
  <1>7. (u \o s)[1] = b
    BY <1>1, <1>3, <1>5
  <1> QED
    BY <1>1, <1>2, <1>3, <1>6, <1>7

\* Every byte but the last is marked.
Marked(s) ==
  /\ s \in Seq(Byte) /\ Len(s) \in Nat \ {0} /\ s[Len(s)] < Half
  /\ \A i \in 1..(Len(s) - 1) : s[i] >= Half
\* A group is a byte with or without the mark, and is read without it.
LEMMA ByteIs ==
  /\ Byte \subseteq Nat /\ \A r \in 0..(Half - 1) : r \in Byte /\ r + Half \in Byte
  /\ \A r \in 0..(Half - 1) : r % Half = r /\ (r + Half) % Half = r
  <1>1. Half \in Nat \ {0}
    BY Sizes
  <1>2. Byte = 0..(2 * Half - 1)
    BY DEF Byte
  <1>3. ASSUME NEW r \in 0..(Half - 1) PROVE r % Half = r /\ (r + Half) % Half = r
    <2>1. r = Half * 0 + r /\ r + Half = Half * 1 + r
      BY <1>1
    <2> QED
      BY <1>1, <2>1, Divided
  <1> QED
    BY <1>1, <1>2, <1>3
\* A marked byte before a number of marked bytes.
LEMMA MarkedBefore ==
  ASSUME NEW r \in 0..(Half - 1), NEW s, Marked(s), NEW t, t = <<r + Half>> \o s
  PROVE  Marked(t) /\ Value(t, Half) = r + Half * Value(s, Half)
  <1>1. PICK b \in Byte : b = r + Half /\ b >= Half /\ b \in Nat /\ b % Half = r
    <2>1. r + Half \in Byte /\ (r + Half) % Half = r
      BY ByteIs
    <2>2. r + Half >= Half /\ r + Half \in Nat
      BY Sizes
    <2> QED
      BY <2>1, <2>2
  <1>2. s \in Seq(Byte)
    BY DEF Marked
  <1>3. PICK l \in Nat \ {0} : l = Len(s)
    BY DEF Marked
  <1>4. /\ t \in Seq(Byte) /\ Len(t) = l + 1
        /\ t[1] = b /\ \A i \in 1..l : t[i + 1] = s[i]
    BY <1>1, <1>2, <1>3, Preceded
  <1>5. t[l + 1] < Half
    BY <1>3, <1>4 DEF Marked
  <1>6. ASSUME NEW i \in 1..l PROVE t[i] >= Half
    <2>1. CASE i = 1
      BY <1>1, <1>4, <2>1
    <2>2. CASE i # 1
      <3>1. i - 1 \in 1..(l - 1) /\ i - 1 + 1 = i
        BY <2>2
      <3>2. t[i - 1 + 1] = s[i - 1]
        BY <1>4, <3>1
      <3> QED
        BY <1>3, <3>1, <3>2 DEF Marked
    <2> QED
      BY <2>1, <2>2
  <1>7. Marked(t)
    BY <1>4, <1>5, <1>6 DEF Marked
  <1>8. s \in Seq(Nat)
    <2>1. s \in [1..l -> Byte]
      BY <1>2, <1>3, LenProperties
    <2>2. s \in [1..l -> Nat]
      BY <2>1, ByteIs
    <2> QED
      BY <2>2
  <1>9. Value(t, Half) = (b % Half) + Half * Value(s, Half)
    BY <1>1, <1>8, Sizes, ValueIs
  <1> QED
    BY <1>1, <1>7, <1>9
\* A number below the mark is one byte.
LEMMA MarkedOne ==
  ASSUME NEW r \in 0..(Half - 1), NEW t, t = <<r>>
  PROVE  Marked(t) /\ Value(t, Half) = r
  <1>1. r \in Byte /\ r \in Nat /\ r % Half = r /\ r < Half
    BY ByteIs, Sizes
  <1>2. t \in Seq(Byte) /\ Len(t) = 1 /\ t[1] = r
    BY <1>1
  <1>3. Marked(t)
    BY <1>1, <1>2, Sizes DEF Marked
  <1>4. PICK e \in Seq(Nat) : e = <<>>
    <2>1. <<>> \in Seq(Nat)
      OBVIOUS
    <2> QED
      BY <2>1
  <1>5. t = <<r>> \o e
    <2>1. PICK u \in Seq(Nat) : u = <<r>>
      <3>1. <<r>> \in Seq(Nat)
        BY <1>1
      <3> QED
        BY <3>1
    <2>2. u \o <<>> = u
      BY ConcatEmptySeq
    <2> QED
      BY <1>4, <2>1, <2>2
  <1>7. Half \in Nat \ {0} /\ r \in Nat
    BY Sizes
  <1>6. Value(t, Half) = (r % Half) + Half * Value(e, Half) /\ Value(<<>>, Half) = 0
    BY ONLY <1>1, <1>4, <1>5, <1>7, ValueIs
  <1>8. Half * 0 = 0
    BY <1>7
  <1> QED
    BY <1>1, <1>3, <1>4, <1>6, <1>8
\* A number is written as marked bytes whose groups are it.
LEMMA VarintMarked ==
  ASSUME NEW v \in Unsigned
  PROVE  Marked(Varint[v]) /\ Value(Varint[v], Half) = v
  <1> DEFINE T == {n \in Nat : n \in Unsigned => Marked(Varint[n]) /\ Value(Varint[n], Half) = n}
  <1>0. Numbers - 1 \in Nat /\ Unsigned = 0..(Numbers - 1)
    BY ByteArrayAssumption DEF Unsigned
  <1>1. ASSUME NEW n \in Nat, \A m \in 0..(n - 1) : m \in T PROVE n \in T
    <2>1. SUFFICES ASSUME n \in Unsigned
                   PROVE Marked(Varint[n]) /\ Value(Varint[n], Half) = n
      OBVIOUS
    <2>2. PICK k \in Nat, r \in 0..(Half - 1) :
             /\ k = n \div Half /\ r = n % Half /\ n = Half * k + r
             /\ (n >= Half => k <= n - 1)
      BY GroupsBelow
    <2>3. CASE n < Half
      <3>1. Varint[n] = <<n>>
        BY <2>1, <2>3, VarintIs DEF Groups
      <3>2. n \in 0..(Half - 1)
        BY <2>3, Sizes
      <3> QED
        BY <3>1, <3>2, MarkedOne
    <2>4. CASE ~(n < Half)
      <3>1. Varint[n] = <<r + Half>> \o Varint[k]
        BY <2>1, <2>2, <2>4, VarintIs DEF Groups
      <3>2. k \in 0..(n - 1) /\ k \in Unsigned
        BY <1>0, <2>1, <2>2, <2>4, Sizes
      <3>3. Marked(Varint[k]) /\ Value(Varint[k], Half) = k
        BY <1>1, <3>2
      <3>4. Marked(Varint[n]) /\ Value(Varint[n], Half) = r + Half * k
        BY <3>1, <3>3, MarkedBefore
      <3>5. PICK m \in Nat : m = Half * k
        BY Sizes
      <3>6. r \in Nat /\ n = m + r
        BY <2>2, <3>5, Sizes
      <3> QED
        BY <3>4, <3>5, <3>6
    <2> QED
      BY <2>3, <2>4
  <1>2. Nat \subseteq T
    <2> HIDE DEF T
    <2> QED
      BY <1>1, Upwards
  <1>3. v \in T
    BY <1>0, <1>2
  <1> QED
    BY <1>3

\* A value is a natural number.
LEMMA ValueNumber ==
  ASSUME NEW s \in Seq(Nat), NEW g \in Nat \ {0}
  PROVE  Value(s, g) \in Nat
  <1>1. PICK f \in [1..(Len(s) + 1) -> Nat] : Value(s, g) = f[1]
    BY ValueExists
  <1>2. 1 \in 1..(Len(s) + 1)
    BY LenProperties
  <1> QED
    BY <1>1, <1>2
\* The bytes of a sequence make a number that the reader may return.
LEMMA NumbersOf ==
  ASSUME NEW s \in Seq(Byte)
  PROVE  /\ s \in Seq(Nat) /\ Value(s, Half) \in Nat /\ Value(s, 2 * Half) \in Nat
         /\ Decoded(s) \in Unsigned
  <1>1. s \in Seq(Nat)
    <2>1. s \in [1..Len(s) -> Byte] /\ Len(s) \in Nat
      BY LenProperties
    <2>2. s \in [1..Len(s) -> Nat]
      BY <2>1, ByteIs
    <2> QED
      BY <2>1, <2>2
  <1>2. Half \in Nat \ {0} /\ 2 * Half \in Nat \ {0}
    BY Sizes
  <1>3. PICK v \in Nat : v = Value(s, Half)
    BY <1>1, <1>2, ValueNumber
  <1>4. Value(s, 2 * Half) \in Nat
    <2>1. PICK g \in Nat \ {0} : g = 2 * Half
      BY <1>2
    <2> QED
      BY <1>1, <2>1, ValueNumber
  <1>5. Numbers \in Nat \ {0} /\ Unsigned = 0..(Numbers - 1)
    BY ByteArrayAssumption DEF Unsigned
  <1>6. v % Numbers \in 0..(Numbers - 1)
    BY <1>5, Division
  <1> QED
    BY <1>1, <1>3, <1>4, <1>5, <1>6 DEF Decoded

\* A reader takes what was written of a number, whatever follows.
LEMMA TakenBytes ==
  ASSUME NEW s \in Seq(Byte)
  PROVE  Taken(s) \in 1..(Len(s) + 1) /\ Taken(s) <= MaxGroups
  <1> DEFINE ends == {i \in 1..Len(s) : s[i] < Half} \cup {MaxGroups, Len(s) + 1}
  <1>1. Len(s) \in Nat
    BY LenProperties
  <1>2. ends \subseteq Nat \ {0} /\ MaxGroups \in ends /\ Len(s) + 1 \in ends
    BY <1>1, Sizes
  <1>3. Taken(s) = CHOOSE i \in ends : \A j \in ends : i <= j
    BY DEF Taken
  <1> HIDE DEF ends
  <1>4. \E i \in ends : \A j \in ends : i <= j
    <2>1. ends \subseteq Nat /\ ends # {}
      BY <1>2
    <2> QED
      BY <2>1, LeastNumber
  <1>5. Taken(s) \in ends /\ \A j \in ends : Taken(s) <= j
    BY <1>3, <1>4
  <1>6. PICK k \in Nat \ {0} : k = Taken(s)
    BY <1>2, <1>5
  <1>7. k <= MaxGroups /\ k <= Len(s) + 1
    BY <1>2, <1>5, <1>6
  <1> QED
    BY <1>1, <1>6, <1>7
\* The reader stops at the end of a number that was written, as long as it is no longer
\* than what a reader takes.
LEMMA TakenText ==
  ASSUME NEW t, Marked(t), Len(t) <= MaxGroups, NEW s \in Seq(Byte), Len(t) <= Len(s),
         \A i \in 1..Len(t) : s[i] = t[i]
  PROVE  Taken(s) = Len(t) /\ SubSeq(s, 1, Len(t)) = t
  <1> DEFINE ends == {i \in 1..Len(s) : s[i] < Half} \cup {MaxGroups, Len(s) + 1}
  <1>1. PICK l \in Nat \ {0} : l = Len(t)
    BY DEF Marked
  <1>2. PICK m \in Nat : m = Len(s)
    BY LenProperties
  <1>3. l \in ends
    <2>1. s[l] < Half /\ l \in 1..m
      BY <1>1, <1>2 DEF Marked
    <2> QED
      BY <1>2, <2>1
  <1>4. ASSUME NEW i \in ends PROVE l <= i
    <2>1. CASE i \in 1..m /\ s[i] < Half
      <3>1. ASSUME i < l PROVE FALSE
        <4>1. i \in 1..(l - 1) /\ i \in 1..l
          BY <2>1, <3>1
        <4>2. t[i] >= Half /\ s[i] = t[i]
          BY <1>1, <4>1 DEF Marked
        <4>3. PICK x \in Byte : x = s[i]
          BY <1>2, <2>1
        <4>4. x \in Nat /\ x >= Half /\ x < Half
          BY <2>1, <4>2, <4>3, ByteIs
        <4> QED
          BY <4>4, Sizes
      <3> QED
        BY <2>1, <3>1
    <2>2. CASE i \in {MaxGroups, m + 1}
      BY <1>1, <1>2, <2>2, Sizes
    <2> QED
      BY <1>2, <2>1, <2>2
  <1>5. Taken(s) = CHOOSE i \in ends : \A j \in ends : i <= j
    BY DEF Taken
  <1>6. ends \subseteq Nat
    BY <1>2, Sizes
  <1> HIDE DEF ends
  <1>7. Taken(s) = l
    <2>1. Taken(s) \in ends /\ \A j \in ends : Taken(s) <= j
      BY <1>3, <1>4, <1>5
    <2>2. Taken(s) <= l /\ l <= Taken(s) /\ Taken(s) \in Nat
      BY <1>3, <1>4, <1>6, <2>1
    <2> QED
      BY <2>2
  <1>8. SubSeq(s, 1, l) = t
    <2>1. \A i \in 1..l : s[i] \in Byte
      BY <1>1, <1>2
    <2>2. /\ SubSeq(s, 1, l) \in Seq(Byte)
          /\ Len(SubSeq(s, 1, l)) = IF 1 <= l THEN l - 1 + 1 ELSE 0
          /\ \A i \in 1..(l - 1 + 1) : SubSeq(s, 1, l)[i] = s[1 + i - 1]
      BY <2>1, SubSeqProperties
    <2>3. l - 1 + 1 = l /\ 1 <= l /\ \A i \in 1..l : 1 + i - 1 = i
      OBVIOUS
    <2>4. Len(SubSeq(s, 1, l)) = l /\ \A i \in 1..l : SubSeq(s, 1, l)[i] = t[i]
      BY <1>1, <2>2, <2>3
    <2>5. t \in Seq(Byte)
      BY DEF Marked
    <2> QED
      BY <1>1, <2>2, <2>4, <2>5, SeqEqual
  <1> QED
    BY <1>1, <1>7, <1>8
\* What was written of a number is decoded to it.
LEMMA VarintRead ==
  ASSUME NEW v \in Unsigned
  PROVE  Decoded(Varint[v]) = v
  <1>1. Numbers \in Nat \ {0} /\ v \in 0..(Numbers - 1) /\ v = Numbers * 0 + v
    BY ByteArrayAssumption DEF Unsigned
  <1>2. v % Numbers = v
    BY <1>1, Divided
  <1> QED
    BY <1>2, VarintMarked DEF Decoded

\* Signed numbers in the order of their distance from 0, and back.
LEMMA Halves ==
  \E h \in Nat \ {0} : /\ Numbers = 2 * h /\ Unsigned = 0..(2 * h - 1)
                       /\ Signed = (-h)..(h - 1)
  <1>1. PICK h \in Nat : h = Numbers \div 2 /\ Numbers = 2 * h + (Numbers % 2)
    BY ByteArrayAssumption, Division
  <1>2. h # 0 /\ Numbers = 2 * h
    BY <1>1, ByteArrayAssumption
  <1> QED
    BY <1>1, <1>2 DEF Unsigned, Signed
\* A signed number goes to an unsigned one and back.
LEMMA Zigzagged ==
  ASSUME NEW s \in Signed
  PROVE  Zigzag(s) \in Unsigned /\ Unzigzag(Zigzag(s)) = s
  <1>1. PICK h \in Nat \ {0} : Unsigned = 0..(2 * h - 1) /\ Signed = (-h)..(h - 1)
    BY Halves
  <1>2. CASE s < 0
    <2>1. PICK k \in Nat : k = -s - 1 /\ s = -k - 1 /\ k < h
      <3>1. -s - 1 \in Nat /\ s = -(-s - 1) - 1 /\ -s - 1 < h
        BY <1>1, <1>2
      <3> QED
        BY <3>1
    <2>2. Zigzag(s) = 2 * k + 1
      BY <1>2, <2>1 DEF Zigzag
    <2>3. (2 * k + 1) \div 2 = k /\ (2 * k + 1) % 2 = 1
      BY Divided
    <2>4. PICK z \in Nat : z = 2 * k + 1 /\ z \in Unsigned
      <3>1. 2 * k + 1 \in Nat /\ 2 * k + 1 \in Unsigned
        BY <1>1, <2>1
      <3> QED
        BY <3>1
    <2>5. Zigzag(s) = z /\ z \div 2 = k /\ z % 2 = 1
      BY <2>2, <2>3, <2>4
    <2>6. Unzigzag(z) = -k - 1
      BY <2>5 DEF Unzigzag
    <2> QED
      BY <2>1, <2>4, <2>5, <2>6
  <1>3. CASE ~(s < 0)
    <2>1. s \in Nat /\ s < h
      BY <1>1, <1>3
    <2>2. Zigzag(s) = 2 * s + 0
      BY <1>3, <2>1 DEF Zigzag
    <2>3. (2 * s + 0) \div 2 = s /\ (2 * s + 0) % 2 = 0
      BY <2>1, Divided
    <2>4. PICK z \in Nat : z = 2 * s + 0 /\ z \in Unsigned
      <3>1. 2 * s + 0 \in Nat /\ 2 * s + 0 \in Unsigned
        BY <1>1, <2>1
      <3> QED
        BY <3>1
    <2>5. Zigzag(s) = z /\ z \div 2 = s /\ z % 2 = 0
      BY <2>2, <2>3, <2>4
    <2>6. Unzigzag(z) = s
      BY <2>5 DEF Unzigzag
    <2> QED
      BY <2>4, <2>5, <2>6
  <1> QED
    BY <1>2, <1>3
\* What is read as a signed number is one.
LEMMA Unzigzagged ==
  ASSUME NEW n \in Unsigned
  PROVE  Unzigzag(n) \in Signed
  <1>1. PICK h \in Nat \ {0} : Unsigned = 0..(2 * h - 1) /\ Signed = (-h)..(h - 1)
    BY Halves
  <1>2. PICK k \in Nat, r \in 0..1 : k = n \div 2 /\ r = n % 2 /\ n = 2 * k + r
    <2>1. n \in Nat /\ 2 \in Nat \ {0}
      BY <1>1
    <2>2. n \div 2 \in Nat /\ n % 2 \in 0..(2 - 1) /\ n = 2 * (n \div 2) + (n % 2)
      BY <2>1, Division
    <2> QED
      BY <2>2
  <1> QED
    BY <1>1, <1>2 DEF Unzigzag

\* The digits of a number of fixed size.
Shifted(f, v, i) == IF i = 1 THEN v ELSE f[i - 1] \div (2 * Half)
Digits(f) == [i \in 1..FixedSize |-> f[i] % (2 * Half)]
\* The digits of a number are the rests of dividing it again and again.
LEMMA DigitsExist ==
  ASSUME NEW v \in Nat
  PROVE  \E f \in [1..FixedSize -> Nat] :
           /\ \A i \in 1..FixedSize : f[i] = Shifted(f, v, i)
           /\ \A l \in BOOLEAN : Fixed(v, l) = IF l THEN Digits(f) ELSE Reverse(Digits(f))
  <1> DEFINE Defined(f, m) == f = [i \in 1..m |-> Shifted(f, v, i)]
             T == {m \in Nat : \E f : Defined(f, m)}
  <1>1. ASSUME NEW m \in Nat, \A k \in 0..(m - 1) : k \in T PROVE m \in T
    <2>1. CASE m = 0
      <3> DEFINE f == [i \in 1..0 |-> 0]
      <3>1. f = [i \in 1..0 |-> Shifted(f, v, i)]
        OBVIOUS
      <3> HIDE DEF f
      <3> QED
        BY <2>1, <3>1
    <2>2. CASE m # 0
      <3>1. m - 1 \in T /\ m - 1 \in Nat
        BY <1>1, <2>2
      <3>2. PICK f : Defined(f, m - 1)
        BY <3>1
      <3> DEFINE h == [i \in 1..m |-> IF i = m THEN Shifted(f, v, m) ELSE f[i]]
      <3>3. h = [i \in 1..m |-> h[i]] /\ h[m] = Shifted(f, v, m)
            /\ \A i \in 1..(m - 1) : h[i] = f[i]
        BY <2>2
      <3> HIDE DEF h
      <3>4. ASSUME NEW i \in 1..m PROVE h[i] = Shifted(h, v, i)
        <4>1. Shifted(h, v, i) = Shifted(f, v, i)
          <5>1. CASE i = 1
            BY <5>1 DEF Shifted
          <5>2. CASE i # 1
            <6>1. i - 1 \in 1..(m - 1)
              BY <5>2
            <6>2. h[i - 1] = f[i - 1]
              BY <3>3, <6>1
            <6> QED
              BY <5>2, <6>2 DEF Shifted
          <5> QED
            BY <5>1, <5>2
        <4>2. CASE i = m
          BY <3>3, <4>1, <4>2
        <4>3. CASE i # m
          <5>1. i \in 1..(m - 1)
            BY <4>3
          <5>2. f[i] = Shifted(f, v, i)
            BY <3>2, <5>1
          <5> QED
            BY <3>3, <4>1, <5>1, <5>2
        <4> QED
          BY <4>2, <4>3
      <3>5. Defined(h, m)
        BY <3>3, <3>4
      <3> HIDE DEF Defined
      <3> QED
        BY <3>5
    <2> QED
      BY <2>1, <2>2
  <1>2. Nat \subseteq T
    <2> HIDE DEF T
    <2> QED
      BY <1>1, Upwards
  <1>3. \E f : Defined(f, FixedSize)
    BY <1>2, Sizes
  <1> DEFINE left == CHOOSE f : Defined(f, FixedSize)
  <1>4. \A l \in BOOLEAN : Fixed(v, l) = IF l THEN Digits(left) ELSE Reverse(Digits(left))
    BY DEF Fixed, Shifted, Digits
  <1>5. Defined(left, FixedSize)
    <2> HIDE DEF Defined
    <2> QED
      BY <1>3
  <1>6. PICK f : Defined(f, FixedSize) /\ f = left
    BY <1>5
  <1> HIDE DEF left
  <1>7. \A i \in 1..FixedSize : f[i] = Shifted(f, v, i)
    BY <1>6
  <1> DEFINE U == {m \in Nat : m \in 1..FixedSize => f[m] \in Nat}
  <1>8. ASSUME NEW m \in Nat, \A k \in 0..(m - 1) : k \in U PROVE m \in U
    <2>1. SUFFICES ASSUME m \in 1..FixedSize PROVE f[m] \in Nat
      OBVIOUS
    <2>2. f[m] = Shifted(f, v, m)
      BY <1>7, <2>1
    <2>3. CASE m = 1
      BY <2>2, <2>3 DEF Shifted
    <2>4. CASE m # 1
      <3>1. m - 1 \in 0..(m - 1) /\ m - 1 \in 1..FixedSize
        BY <2>1, <2>4, Sizes
      <3>2. PICK x \in Nat : x = f[m - 1]
        BY <1>8, <3>1
      <3>3. x \div (2 * Half) \in Nat
        <4>1. 2 * Half \in Nat \ {0}
          BY Sizes
        <4> QED
          BY <4>1, Division
      <3> QED
        BY <2>2, <2>4, <3>2, <3>3 DEF Shifted
    <2> QED
      BY <2>3, <2>4
  <1>9. Nat \subseteq U
    <2> HIDE DEF U
    <2> QED
      BY <1>8, Upwards
  <1>10. f \in [1..FixedSize -> Nat]
    <2>1. \A i \in 1..FixedSize : f[i] \in Nat
      BY <1>9
    <2>2. f = [i \in 1..FixedSize |-> f[i]]
      BY <1>6, <1>7
    <2> QED
      BY <2>1, <2>2
  <1> QED
    BY <1>4, <1>6, <1>7, <1>10
\* Bytes turned round twice are as they were.
LEMMA Reversed ==
  ASSUME NEW s \in [1..FixedSize -> Byte]
  PROVE  /\ s \in Seq(Byte) /\ Len(s) = FixedSize
         /\ Reverse(s) \in [1..FixedSize -> Byte] /\ Reverse(Reverse(s)) = s
  <1>1. FixedSize \in Nat
    BY Sizes
  <1>2. s \in Seq(Byte) /\ Len(s) = FixedSize
    BY <1>1
  <1>3. PICK r : r = [i \in 1..FixedSize |-> s[(FixedSize - i) + 1]] /\ r = Reverse(s)
    BY <1>2 DEF Reverse
  <1>4. r \in [1..FixedSize -> Byte]
    <2>1. \A i \in 1..FixedSize : (FixedSize - i) + 1 \in 1..FixedSize
      BY <1>1
    <2>2. \A i \in 1..FixedSize : s[(FixedSize - i) + 1] \in Byte
      BY <2>1
    <2> QED
      BY <1>3, <2>2
  <1>5. Len(r) = FixedSize
    BY <1>1, <1>4
  <1>6. Reverse(r) = [i \in 1..FixedSize |-> r[(FixedSize - i) + 1]]
    BY <1>5 DEF Reverse
  <1>7. ASSUME NEW i \in 1..FixedSize PROVE r[(FixedSize - i) + 1] = s[i]
    <2>1. PICK j \in 1..FixedSize : j = (FixedSize - i) + 1 /\ (FixedSize - j) + 1 = i
      <3>1. (FixedSize - i) + 1 \in 1..FixedSize /\ (FixedSize - ((FixedSize - i) + 1)) + 1 = i
        BY <1>1
      <3> QED
        BY <3>1
    <2>2. r[j] = s[(FixedSize - j) + 1]
      BY <1>3
    <2> QED
      BY <2>1, <2>2
  <1>8. Reverse(r) = s
    BY <1>6, <1>7
  <1> QED
    BY <1>2, <1>3, <1>4, <1>8
\* A number of fixed size is written as that many bytes, in either order.
LEMMA FixedBytes ==
  ASSUME NEW v \in Nat, NEW l \in BOOLEAN
  PROVE  /\ Fixed(v, l) \in [1..FixedSize -> Byte]
         /\ Fixed(v, l) \in Seq(Byte) /\ Len(Fixed(v, l)) = FixedSize
  <1>1. PICK f \in [1..FixedSize -> Nat] :
           Fixed(v, l) = IF l THEN Digits(f) ELSE Reverse(Digits(f))
    BY DigitsExist
  <1>2. 2 * Half \in Nat \ {0}
    BY Sizes
  <1>3. \A i \in 1..FixedSize : f[i] % (2 * Half) \in Byte
    BY <1>2, Division DEF Byte
  <1>4. Digits(f) \in [1..FixedSize -> Byte]
    BY <1>3 DEF Digits
  <1>5. PICK d \in [1..FixedSize -> Byte] : d = Digits(f)
    BY <1>4
  <1>6. Fixed(v, l) \in [1..FixedSize -> Byte]
    <2>1. Reverse(d) \in [1..FixedSize -> Byte]
      BY Reversed
    <2> QED
      BY <1>1, <1>5, <2>1
  <1> QED
    BY <1>6, Reversed
\* A number of fixed size is read in the order of bytes it was written in.
LEMMA FixedRead ==
  ASSUME NEW v \in InFixedSize, NEW l \in BOOLEAN
  PROVE  v \in Nat /\ FixedValue(Fixed(v, l), l) = v
  <1>1. PICK s \in [1..FixedSize -> Byte] : v = Value(s, 2 * Half)
    BY DEF InFixedSize
  <1>2. PICK g \in Nat \ {0} : g = 2 * Half /\ Byte = 0..(g - 1)
    <2>1. 2 * Half \in Nat \ {0} /\ Byte = 0..(2 * Half - 1)
      BY Sizes DEF Byte
    <2> QED
      BY <2>1
  <1>3. s \in Seq(Byte) /\ Len(s) = FixedSize /\ s \in Seq(Nat)
    BY Reversed, NumbersOf
  <1>4. PICK f \in [1..(Len(s) + 1) -> Nat] : Sums(f, s, g) /\ Value(s, g) = f[1]
    BY <1>3, ValueExists
  <1>5. \A i \in 1..FixedSize : /\ f[i] \in Nat /\ f[i] % g = s[i]
                                /\ i + 1 \in 1..(FixedSize + 1)
                                /\ f[i] \div g = f[i + 1]
    <2> SUFFICES ASSUME NEW i \in 1..FixedSize
                 PROVE  /\ f[i] \in Nat /\ f[i] % g = s[i]
                        /\ i + 1 \in 1..(FixedSize + 1) /\ f[i] \div g = f[i + 1]
      OBVIOUS
    <2>1. i \in 1..(FixedSize + 1) /\ i + 1 \in 1..(FixedSize + 1) /\ ~(i > FixedSize)
      BY Sizes
    <2>2. f[i] = (s[i] % g) + g * f[i + 1]
      BY <1>3, <1>4, <2>1 DEF Sums, Sum
    <2>3. PICK b \in 0..(g - 1) : b = s[i]
      BY <1>2
    <2>4. PICK k \in Nat : k = f[i + 1]
      BY <1>3, <1>4, <2>1
    <2>5. b % g = b
      <3>1. b = g * 0 + b
        BY <1>2
      <3> QED
        BY <3>1, Divided
    <2>6. PICK n \in Nat : n = f[i]
      BY <1>3, <1>4, <2>1
    <2>9. PICK m \in Nat : m = g * k
      OBVIOUS
    <2>10. s[i] % g = b
      BY <2>3, <2>5
    <2>11. g * f[i + 1] = m
      BY <2>4, <2>9
    <2>12. n = b + m
      BY <2>2, <2>6, <2>10, <2>11
    <2>7. n = g * k + b
      BY <1>2, <2>9, <2>12
    <2>8. n \div g = k /\ n % g = b
      BY <2>7, Divided
    <2> QED
      BY <2>1, <2>3, <2>4, <2>6, <2>8
  <1>6. v \in Nat /\ v = f[1]
    <2>1. 1 \in 1..FixedSize
      BY Sizes
    <2> QED
      BY <1>1, <1>2, <1>4, <1>5, <2>1
  <1>7. PICK h \in [1..FixedSize -> Nat] :
           /\ \A i \in 1..FixedSize : h[i] = Shifted(h, v, i)
           /\ \A m \in BOOLEAN : Fixed(v, m) = IF m THEN Digits(h) ELSE Reverse(Digits(h))
    BY <1>6, DigitsExist
  <1> DEFINE T == {m \in Nat : m \in 1..FixedSize => h[m] = f[m]}
  <1>8. ASSUME NEW m \in Nat, \A k \in 0..(m - 1) : k \in T PROVE m \in T
    <2>1. SUFFICES ASSUME m \in 1..FixedSize PROVE h[m] = f[m]
      OBVIOUS
    <2>2. h[m] = Shifted(h, v, m)
      BY <1>7, <2>1
    <2>3. CASE m = 1
      BY <1>6, <2>2, <2>3 DEF Shifted
    <2>4. CASE m # 1
      <3>1. PICK j \in 1..FixedSize : j = m - 1 /\ j + 1 = m /\ j \in 0..(m - 1) /\ j \in Nat
        <4>1. m - 1 \in 1..FixedSize /\ m - 1 + 1 = m /\ m - 1 \in 0..(m - 1) /\ m - 1 \in Nat
          BY <2>1, <2>4, Sizes
        <4> QED
          BY <4>1
      <3>2. h[j] = f[j]
        BY <1>8, <3>1
      <3>3. f[j] \div g = f[m]
        BY <1>5, <3>1
      <3> QED
        BY <1>2, <2>2, <2>4, <3>1, <3>2, <3>3 DEF Shifted
    <2> QED
      BY <2>3, <2>4
  <1>9. Nat \subseteq T
    <2> HIDE DEF T
    <2> QED
      BY <1>8, Upwards
  <1>10. \A i \in 1..FixedSize : h[i] = f[i]
    BY <1>9
  <1>11. Digits(h) = s
    BY <1>2, <1>5, <1>10 DEF Digits
  <1>12. Fixed(v, l) = IF l THEN s ELSE Reverse(s)
    BY <1>7, <1>11
  <1>13. Reverse(Reverse(s)) = s
    BY Reversed
  <1> QED
    BY <1>1, <1>6, <1>12, <1>13 DEF FixedValue
\* As many bytes are read as a number that so many bytes hold.
LEMMA FixedNumber ==
  ASSUME NEW s \in Seq(Byte), Len(s) = FixedSize, NEW l \in BOOLEAN
  PROVE  FixedValue(s, l) \in InFixedSize
  <1>1. s \in [1..FixedSize -> Byte]
    BY LenProperties
  <1>2. Reverse(s) \in [1..FixedSize -> Byte]
    BY <1>1, Reversed
  <1> QED
    BY <1>1, <1>2 DEF FixedValue, InFixedSize

\* What lies ahead of the position.
Ahead(a) == SubSeq(Content(a), a.position + 1, Len(Content(a)))
\* The bytes ahead are those of the content from the position on.
LEMMA AheadIs ==
  ASSUME NEW a, ArrayOK(a)
  PROVE  /\ Ahead(a) \in Seq(Cell) /\ Len(Ahead(a)) = ReadSize(a) /\ ReadSize(a) \in Nat
         /\ \A i \in 1..ReadSize(a) : Ahead(a)[i] = Content(a)[a.position + i]
  <1>1. PICK q \in Nat, z \in Nat : q = a.position /\ z = a.size /\ q <= z
    BY Fields DEF ArrayOK
  <1>2. PICK c \in Seq(Cell) : c = Content(a) /\ Len(c) = z
    BY <1>1, Contents
  <1>3. \A i \in (q + 1)..z : c[i] \in Cell
    BY <1>2
  <1>4. /\ SubSeq(c, q + 1, z) \in Seq(Cell)
        /\ Len(SubSeq(c, q + 1, z)) = IF q + 1 <= z THEN z - (q + 1) + 1 ELSE 0
        /\ \A i \in 1..(z - (q + 1) + 1) : SubSeq(c, q + 1, z)[i] = c[q + 1 + i - 1]
    BY <1>3, SubSeqProperties
  <1>5. z - (q + 1) + 1 = z - q /\ (~(q + 1 <= z) => z - q = 0) /\ z - q \in Nat
    BY <1>1
  <1>7. \A i \in 1..(z - q) : q + 1 + i - 1 = q + i
    OBVIOUS
  <1>6. Ahead(a) = SubSeq(c, q + 1, z) /\ ReadSize(a) = z - q
    BY <1>1, <1>2 DEF Ahead, ReadSize
  <1> QED
    BY <1>1, <1>2, <1>4, <1>5, <1>6, <1>7
\* The beginning of a sequence.
LEMMA Beginning ==
  ASSUME NEW S, NEW s \in Seq(S), NEW n \in Nat, n <= Len(s)
  PROVE  /\ SubSeq(s, 1, n) \in Seq(S) /\ Len(SubSeq(s, 1, n)) = n
         /\ \A i \in 1..n : SubSeq(s, 1, n)[i] = s[i]
  <1>1. PICK l \in Nat : l = Len(s)
    BY LenProperties
  <1>2. \A i \in 1..n : s[i] \in S
    BY <1>1
  <1>3. /\ SubSeq(s, 1, n) \in Seq(S)
        /\ Len(SubSeq(s, 1, n)) = IF 1 <= n THEN n - 1 + 1 ELSE 0
        /\ \A i \in 1..(n - 1 + 1) : SubSeq(s, 1, n)[i] = s[1 + i - 1]
    BY <1>2, SubSeqProperties
  <1>4. n - 1 + 1 = n /\ (~(1 <= n) => n = 0) /\ \A i \in 1..n : 1 + i - 1 = i
    OBVIOUS
  <1> QED
    BY <1>3, <1>4
\* What is fetched is what lies ahead, be it after other bytes that were taken.
LEMMA FetchedAhead ==
  ASSUME NEW a, ArrayOK(a), NEW k \in Nat, NEW n \in Nat, k + n <= ReadSize(a),
         NEW r, r = Advance(a, k)
  PROVE  Fetch(r, n) = SubSeq(Ahead(a), k + 1, k + n)
  <1>1. PICK q \in Nat, z \in Nat : q = a.position /\ z = a.size /\ q <= z
    BY Fields DEF ArrayOK
  <1>2. k <= ReadSize(a) /\ k + n <= z - q
    <2>1. PICK m \in Nat : m = ReadSize(a)
      BY AheadIs
    <2> QED
      BY <1>1, <2>1 DEF ReadSize
  <1>3. ArrayOK(r) /\ r.position = q + k /\ r.size = z /\ Content(r) = Content(a)
    BY <1>1, <1>2, Advanced
  <1>4. n <= ReadSize(r)
    BY <1>1, <1>2, <1>3 DEF ReadSize
  <1>5. /\ Fetch(r, n) \in Seq(Cell) /\ Len(Fetch(r, n)) = n
        /\ \A i \in 1..n : Fetch(r, n)[i] = Content(r)[r.position + i]
    BY <1>3, <1>4, Fetched
  <1>6. /\ Ahead(a) \in Seq(Cell) /\ Len(Ahead(a)) = ReadSize(a)
        /\ \A i \in 1..ReadSize(a) : Ahead(a)[i] = Content(a)[q + i]
    BY <1>1, AheadIs
  <1>7. /\ SubSeq(Ahead(a), k + 1, k + n) \in Seq(Cell)
        /\ Len(SubSeq(Ahead(a), k + 1, k + n)) = n
        /\ \A i \in 1..n : SubSeq(Ahead(a), k + 1, k + n)[i] = Ahead(a)[k + i]
    <2>1. PICK s \in Seq(Cell) : s = Ahead(a) /\ Len(s) = z - q
      BY <1>1, <1>6 DEF ReadSize
    <2>2. k + n <= Len(s)
      BY <1>2, <2>1
    <2>3. /\ SubSeq(s, k + 1, k + n) \in Seq(Cell) /\ Len(SubSeq(s, k + 1, k + n)) = n
          /\ \A i \in 1..n : SubSeq(s, k + 1, k + n)[i] = s[k + i]
      <3>1. PICK w \in Nat : w = k + n
        OBVIOUS
      <3>2. \A i \in (k + 1)..w : s[i] \in Cell
        BY <1>1, <2>1, <2>2, <3>1
      <3>3. /\ SubSeq(s, k + 1, w) \in Seq(Cell)
            /\ Len(SubSeq(s, k + 1, w)) = IF k + 1 <= w THEN w - (k + 1) + 1 ELSE 0
            /\ \A i \in 1..(w - (k + 1) + 1) : SubSeq(s, k + 1, w)[i] = s[k + 1 + i - 1]
        BY ONLY k \in Nat, w \in Nat, <3>2, SubSeqProperties
      <3>4. w - (k + 1) + 1 = n /\ (~(k + 1 <= w) => n = 0)
        BY <3>1
      <3>5. \A i \in 1..n : k + 1 + i - 1 = k + i
        OBVIOUS
      <3> QED
        BY ONLY <3>1, <3>3, <3>4, <3>5
    <2> QED
      BY ONLY <2>1, <2>3
  <1>8. ASSUME NEW i \in 1..n PROVE Fetch(r, n)[i] = SubSeq(Ahead(a), k + 1, k + n)[i]
    <2>1. k + i \in 1..ReadSize(a) /\ q + k + i = q + (k + i)
      BY <1>1, <1>2 DEF ReadSize
    <2>2. Ahead(a)[k + i] = Content(a)[q + (k + i)]
      BY <1>6, <2>1
    <2> QED
      BY <1>3, <1>5, <1>7, <2>1, <2>2
  <1> QED
    BY <1>5, <1>7, <1>8, SeqEqual
\* What is fetched at the position is the beginning of what lies ahead.
LEMMA FetchedHere ==
  ASSUME NEW a, ArrayOK(a), NEW n \in Nat, n <= ReadSize(a)
  PROVE  Fetch(a, n) = SubSeq(Ahead(a), 1, n) /\ \A i \in 1..n : Fetch(a, n)[i] = Ahead(a)[i]
  <1>1. PICK q \in Nat, z \in Nat : q = a.position /\ z = a.size /\ q <= z
    BY Fields DEF ArrayOK
  <1>2. /\ Fetch(a, n) \in Seq(Cell) /\ Len(Fetch(a, n)) = n
        /\ \A i \in 1..n : Fetch(a, n)[i] = Content(a)[q + i]
    BY <1>1, Fetched
  <1>3. /\ Ahead(a) \in Seq(Cell) /\ Len(Ahead(a)) = ReadSize(a) /\ ReadSize(a) \in Nat
        /\ \A i \in 1..ReadSize(a) : Ahead(a)[i] = Content(a)[q + i]
    BY <1>1, AheadIs
  <1>4. /\ SubSeq(Ahead(a), 1, n) \in Seq(Cell) /\ Len(SubSeq(Ahead(a), 1, n)) = n
        /\ \A i \in 1..n : SubSeq(Ahead(a), 1, n)[i] = Ahead(a)[i]
    BY <1>3, Beginning
  <1>5. \A i \in 1..n : i \in 1..ReadSize(a)
    BY <1>3
  <1>7. \A i \in 1..n : Fetch(a, n)[i] = Ahead(a)[i]
    BY <1>2, <1>3, <1>5
  <1>8. \A i \in 1..n : Fetch(a, n)[i] = SubSeq(Ahead(a), 1, n)[i]
    BY <1>4, <1>7
  <1> QED
    BY <1>2, <1>4, <1>7, <1>8, SeqEqual

\* A reader sees what lies ahead, and any byte where nobody wrote one.
LEMMA SeenBytes ==
  ASSUME ArrayOK(array), NEW n \in Nat, n <= ReadSize(array), NEW seen \in Seen(n)
  PROVE  /\ seen \in Seq(Byte) /\ Len(seen) = n
         /\ \A i \in 1..n : Ahead(array)[i] # Junk => seen[i] = Ahead(array)[i]
  <1> DEFINE next == Fetch(array, n)
             junk == {i \in 1..n : next[i] = Junk}
  <1>1. PICK guess \in [junk -> Byte] :
           seen = [i \in 1..n |-> IF i \in junk THEN guess[i] ELSE next[i]]
    BY DEF Seen
  <1>2. /\ next \in Seq(Cell) /\ Len(next) = n
        /\ \A i \in 1..n : next[i] = Ahead(array)[i]
    BY Fetched, FetchedHere
  <1> HIDE DEF next
  <1>3. ASSUME NEW i \in 1..n PROVE seen[i] \in Byte /\ (next[i] # Junk => seen[i] = next[i])
    <2>1. next[i] \in Cell
      BY <1>2
    <2> QED
      BY <1>1, <2>1 DEF Cell
  <1> HIDE DEF junk
  <1>4. seen \in [1..n -> Byte]
    BY <1>1, <1>3
  <1>5. seen \in Seq(Byte) /\ Len(seen) = n
    BY <1>4
  <1> QED
    BY <1>2, <1>3, <1>5
LEMMA AheadFlat ==
  Flat!Rest = Ahead(array)
  BY DEF Flat!Rest, Ahead
\* A text that is at the position is not cut short and has no junk.
LEMMA Begins ==
  ASSUME ArrayOK(array), NEW t \in Seq(Byte), Flat!IsPrefix(t, Flat!Rest)
  PROVE  Len(t) <= ReadSize(array) /\ \A i \in 1..Len(t) : Ahead(array)[i] = t[i]
  <1>1. PICK l \in Nat : l = Len(t)
    BY LenProperties
  <1>2. PICK r \in Seq(Cell) : r = Ahead(array) /\ Len(r) = ReadSize(array)
    BY AheadIs
  <1>3. l <= Len(r) /\ SubSeq(t, 1, l) = SubSeq(r, 1, l)
    BY <1>1, <1>2, AheadFlat DEF Flat!IsPrefix
  <1>4. \A i \in 1..l : SubSeq(t, 1, l)[i] = t[i]
    BY <1>1, Beginning
  <1>5. \A i \in 1..l : SubSeq(r, 1, l)[i] = r[i]
    BY <1>2, <1>3, Beginning
  <1>7. \A i \in 1..l : r[i] = t[i]
    BY <1>3, <1>4, <1>5
  <1> QED
    BY <1>1, <1>2, <1>3, <1>7
\* What a reader sees begins with what was written there.
LEMMA SeenWritten ==
  ASSUME ArrayOK(array), NEW n \in Nat, n <= ReadSize(array), NEW seen \in Seen(n),
         NEW t \in Seq(Byte), Flat!IsPrefix(t, Flat!Rest), Len(t) <= n
  PROVE  \A i \in 1..Len(t) : seen[i] = t[i]
  <1> SUFFICES ASSUME NEW i \in 1..Len(t) PROVE seen[i] = t[i]
    OBVIOUS
  <1>1. i \in 1..n
    BY LenProperties
  <1>2. t[i] \in Byte /\ Ahead(array)[i] = t[i]
    BY Begins
  <1>3. t[i] # Junk
    BY <1>2, Sizes
  <1> QED
    BY <1>1, <1>2, <1>3, SeenBytes
\* Laying the length of data, and then data behind it, is laying both.
LaidApart(c, p, b, d, e, t, m) ==
  /\ c \in Seq(Cell) /\ p \in Nat /\ p <= Len(c) /\ b \in Byte /\ d \in Seq(Byte)
  /\ e \in Seq(Byte) /\ e = <<b>> /\ t \in Seq(Byte) /\ t = <<b>> \o d
  /\ m = Laid(c, p, e)
LEMMA LaidTwice ==
  ASSUME NEW c, NEW p, NEW b, NEW d, NEW e, NEW t, NEW m, LaidApart(c, p, b, d, e, t, m)
  PROVE  Laid(m, p + 1, d) = Laid(c, p, t)
  <1> c \in Seq(Cell) /\ p \in Nat /\ p <= Len(c) /\ b \in Byte /\ d \in Seq(Byte)
      /\ e \in Seq(Byte) /\ e = <<b>> /\ t \in Seq(Byte) /\ t = <<b>> \o d
      /\ m = Laid(c, p, e)
    BY DEF LaidApart
  <1>1. PICK l \in Nat : l = Len(d) /\ Len(t) = l + 1
    BY Preceded
  <1>2. t[1] = b /\ \A i \in 1..l : t[i + 1] = d[i]
    BY <1>1, Preceded
  <1>3. Len(e) = 1 /\ e[1] = b
    OBVIOUS
  <1>4. PICK z \in Nat : z = Len(c) /\ p <= z
    BY LenProperties
  <1>5. PICK y \in Nat : y = Larger(z, p + 1) /\ y >= z /\ y >= p + 1 /\ (y = z \/ y = p + 1)
    <2>1. /\ Larger(z, p + 1) \in Nat /\ Larger(z, p + 1) >= z /\ Larger(z, p + 1) >= p + 1
          /\ (Larger(z, p + 1) = z \/ Larger(z, p + 1) = p + 1)
      BY DEF Larger
    <2> QED
      BY <2>1
  <1>6. m = [i \in 1..y |-> IF i \in (p + 1)..(p + 1) THEN e[i - p] ELSE c[i]]
    BY <1>3, <1>4, <1>5 DEF Laid
  <1>7. Len(m) = y
    <2>1. ASSUME NEW i \in 1..y
          PROVE  (IF i \in (p + 1)..(p + 1) THEN e[i - p] ELSE c[i]) \in Cell
      <3>1. CASE i = p + 1
        <4>1. i \in (p + 1)..(p + 1) /\ i - p = 1
          BY <3>1
        <4> QED
          BY <1>3, <4>1 DEF Cell
      <3>2. CASE i # p + 1
        <4>1. i \notin (p + 1)..(p + 1) /\ i \in 1..z
          BY <1>4, <1>5, <3>2
        <4> QED
          BY <1>4, <4>1
      <3> QED
        BY <3>1, <3>2
    <2>2. m \in [1..y -> Cell]
      BY <1>6, <2>1
    <2> QED
      BY <2>2
  <1>8. PICK w \in Nat : /\ w = Larger(y, p + 1 + l) /\ w = Larger(z, p + (l + 1))
                         /\ w >= y /\ w >= p + 1 + l /\ (w = y \/ w = p + 1 + l)
    <2>1. /\ Larger(y, p + 1 + l) \in Nat /\ Larger(y, p + 1 + l) = Larger(z, p + (l + 1))
          /\ Larger(y, p + 1 + l) >= y /\ Larger(y, p + 1 + l) >= p + 1 + l
          /\ (Larger(y, p + 1 + l) = y \/ Larger(y, p + 1 + l) = p + 1 + l)
      BY <1>4, <1>5 DEF Larger
    <2> QED
      BY <2>1
  <1>9. Laid(m, p + 1, d)
          = [i \in 1..w |-> IF i \in (p + 1 + 1)..(p + 1 + l) THEN d[i - (p + 1)] ELSE m[i]]
    <2>1. Larger(Len(m), p + 1 + Len(d)) = w /\ Len(d) = l
      BY <1>1, <1>7, <1>8
    <2> QED
      BY ONLY <2>1 DEF Laid
  <1>10. Laid(c, p, t)
          = [i \in 1..w |-> IF i \in (p + 1)..(p + (l + 1)) THEN t[i - p] ELSE c[i]]
    BY <1>1, <1>4, <1>8 DEF Laid
  <1>11. ASSUME NEW i \in 1..w
         PROVE  (IF i \in (p + 1 + 1)..(p + 1 + l) THEN d[i - (p + 1)] ELSE m[i])
                  = (IF i \in (p + 1)..(p + (l + 1)) THEN t[i - p] ELSE c[i])
    <2>1. CASE i \in (p + 1 + 1)..(p + 1 + l)
      <3>1. PICK j \in 1..l : j = i - (p + 1) /\ i - p = j + 1
        <4>1. i - (p + 1) \in 1..l /\ i - p = i - (p + 1) + 1
          BY <2>1
        <4> QED
          BY <4>1
      <3>2. i \in (p + 1)..(p + (l + 1))
        BY <2>1
      <3>3. t[i - p] = d[j]
        BY <1>2, <3>1
      <3> QED
        BY <2>1, <3>1, <3>2, <3>3
    <2>2. CASE i = p + 1
      <3>1. i \in 1..y /\ i \in (p + 1)..(p + 1) /\ i - p = 1
            /\ i \notin (p + 1 + 1)..(p + 1 + l) /\ i \in (p + 1)..(p + (l + 1))
        BY <1>5, <2>2
      <3>2. m[i] = b
        BY <1>3, <1>6, <3>1
      <3> QED
        BY <1>2, <3>1, <3>2
    <2>3. CASE i \notin (p + 1)..(p + 1 + l)
      <3>1. i \in 1..y
        BY <1>5, <1>8, <2>3
      <3>3. i \notin (p + 1)..(p + 1)
        BY <2>3
      <3>4. i \notin (p + 1 + 1)..(p + 1 + l) /\ i \notin (p + 1)..(p + (l + 1))
        BY <2>3
      <3>2. m[i] = c[i]
        BY <1>6, <3>1, <3>3
      <3> QED
        BY <3>2, <3>4
    <2>4. i \in (p + 1 + 1)..(p + 1 + l) \/ i = p + 1 \/ i \notin (p + 1)..(p + 1 + l)
      OBVIOUS
    <2> QED
      BY ONLY <2>1, <2>2, <2>3, <2>4
  <1> QED
    BY <1>9, <1>10, <1>11

\* What laying text at the position is of the flat bytes.
LEMMA PutText ==
  ASSUME NEW t, array'.position = array.position + Len(t), result' = <<>>,
         Content(array') = Laid(Content(array), array.position, t),
         \/ t \in Data \/ (\E d \in Data : t = <<Len(d)>> \o d)
         \/ (\E v \in Unsigned : t = Varint[v]) \/ (\E v \in Unsigned : t = Fixed(v, little))
  PROVE  Flat!Put
  <1>1. Flat!Overlay(t) = Laid(Content(array), array.position, t)
    BY DEF Flat!Overlay, Flat!Larger, Laid, Larger
  <1>2. t \in (Data \cup {<<Len(d)>> \o d : d \in Data} \cup {Varint[v] : v \in Unsigned})
                \cup {Fixed(v, little) : v \in Unsigned}
    OBVIOUS
  <1> QED
    BY <1>1, <1>2 DEF Flat!Put
\* What is written at once is bytes, whose number fits the byte it is written as.
LEMMA DataIs ==
  ASSUME NEW d \in Data
  PROVE  d \in Seq(Byte) /\ Len(d) \in Byte
  BY ArraysAssumption

\* The steps: a write of data, of a string with its length, and of numbers puts the
\* bytes of it at the position, over as many blocks as it takes.
LEMMA WriteDataStep ==
  ASSUME ArrayOK(array), WriteData
  PROVE  ArrayOK(array') /\ Flat!Put
  <1>1. PICK d \in Data : array' = WriteBytes(array, d) /\ result' = <<>>
    BY DEF WriteData, Void
  <1>2. d \in Seq(Byte)
    BY DataIs
  <1>3. /\ ArrayOK(array') /\ array'.position = array.position + Len(d)
        /\ Content(array') = Laid(Content(array), array.position, d)
    BY <1>1, <1>2, WrittenBytes
  <1> QED
    BY <1>1, <1>3, PutText
LEMMA WriteStringStep ==
  ASSUME ArrayOK(array), WriteString
  PROVE  ArrayOK(array') /\ Flat!Put
  <1>1. PICK d \in Data : /\ array' = WriteBytes(WriteBytes(array, <<Len(d)>>), d)
                          /\ result' = <<>>
    BY DEF WriteString, Void
  <1>2. d \in Seq(Byte)
    BY DataIs
  <1>3. PICK b \in Byte : b = Len(d)
    BY DataIs
  <1>4. PICK e \in Seq(Byte) : e = <<b>> /\ Len(e) = 1
    <2>1. <<b>> \in Seq(Byte) /\ Len(<<b>>) = 1
      OBVIOUS
    <2> QED
      BY <2>1
  <1>5. PICK t : t \in Seq(Byte) /\ t = <<b>> \o d /\ Len(t) = Len(d) + 1
    <2>1. PICK t : t = <<b>> \o d
      OBVIOUS
    <2>2. t \in Seq(Byte) /\ Len(t) = Len(d) + 1
      BY <1>2, <2>1, Preceded
    <2> QED
      BY <2>1, <2>2
  <1>6. PICK a : a = WriteBytes(array, e)
    OBVIOUS
  <1>7. /\ ArrayOK(a) /\ a.position = array.position + 1
        /\ Content(a) = Laid(Content(array), array.position, e)
    BY <1>4, <1>6, WrittenBytes
  <1>8. /\ ArrayOK(array') /\ array'.position = a.position + Len(d)
        /\ Content(array') = Laid(Content(a), a.position, d)
    BY <1>1, <1>2, <1>3, <1>4, <1>6, <1>7, WrittenBytes
  <1>9. PICK c \in Seq(Cell) : c = Content(array) /\ Len(c) = array.size
    BY Contents
  <1>10. PICK p \in Nat : p = array.position /\ p <= Len(c)
    BY <1>9, Fields DEF ArrayOK
  <1>11. PICK m : m = Laid(c, p, e)
    OBVIOUS
  <1>12. Laid(m, p + 1, d) = Laid(c, p, t)
    <2>1. c \in Seq(Cell) /\ p \in Nat /\ p <= Len(c) /\ b \in Byte
      BY <1>9, <1>10
    <2>2. e \in Seq(Byte) /\ e = <<b>> /\ t \in Seq(Byte) /\ t = <<b>> \o d
      BY <1>4, <1>5
    <2>3. LaidApart(c, p, b, d, e, t, m)
      BY <1>2, <1>11, <2>1, <2>2 DEF LaidApart
    <2> QED
      BY ONLY <2>3, LaidTwice
  <1>13. Content(array') = Laid(Content(array), array.position, t)
    <2>1. Content(a) = m /\ a.position = p + 1
      BY <1>7, <1>9, <1>10, <1>11
    <2> QED
      BY ONLY <1>8, <1>9, <1>10, <1>12, <2>1
  <1>14. array'.position = array.position + Len(t)
    <2>1. PICK l \in Nat : l = Len(d)
      BY <1>2, LenProperties
    <2>2. array'.position = p + 1 + l
      BY <1>7, <1>8, <1>10, <2>1
    <2>3. Len(t) = l + 1
      BY <1>5, <2>1
    <2>4. p + 1 + l = p + (l + 1)
      BY ONLY p \in Nat, l \in Nat
    <2> QED
      BY <1>10, <2>2, <2>3, <2>4
  <1>15. t = <<Len(d)>> \o d
    BY <1>3, <1>5
  <1> QED
    BY <1>1, <1>8, <1>13, <1>14, <1>15, PutText
LEMMA WriteNumberStep ==
  ASSUME ArrayOK(array), WriteNumber
  PROVE  ArrayOK(array') /\ Flat!Put
  <1>1. PICK v \in Unsigned : array' = WriteBytes(array, Varint[v]) /\ result' = <<>>
    BY Zigzagged DEF WriteNumber, Void
  <1>2. Varint[v] \in Seq(Byte)
    BY VarintMarked DEF Marked
  <1>3. /\ ArrayOK(array') /\ array'.position = array.position + Len(Varint[v])
        /\ Content(array') = Laid(Content(array), array.position, Varint[v])
    BY <1>1, <1>2, WrittenBytes
  <1> QED
    BY <1>1, <1>3, PutText
LEMMA WriteFixedStep ==
  ASSUME ArrayOK(array), little \in BOOLEAN, WriteFixed
  PROVE  ArrayOK(array') /\ Flat!Put
  <1>1. PICK v \in Unsigned : array' = WriteBytes(array, Fixed(v, little)) /\ result' = <<>>
    BY DEF WriteFixed, Void
  <1>2. v \in Nat
    BY ByteArrayAssumption DEF Unsigned
  <1>3. Fixed(v, little) \in Seq(Byte)
    BY <1>2, FixedBytes
  <1>4. /\ ArrayOK(array') /\ array'.position = array.position + Len(Fixed(v, little))
        /\ Content(array') = Laid(Content(array), array.position, Fixed(v, little))
    BY <1>1, <1>3, WrittenBytes
  <1> QED
    BY <1>1, <1>4, PutText
\* What a socket brings is put there, too.
LEMMA ReceiveStep ==
  ASSUME ArrayOK(array), Receive
  PROVE  ArrayOK(array') /\ Flat!Put
  <1>1. PICK d \in Data, want \in 1..(BaseSize + 1) :
           Len(d) <= want /\ array' = RecvInto(array, want, d) /\ result' = <<>>
    BY DEF Receive, Void
  <1>2. d \in Seq(Byte) /\ want \in Nat
    BY DataIs
  <1>3. /\ ArrayOK(array') /\ array'.position = array.position + Len(d)
        /\ Content(array') = Laid(Content(array), array.position, d)
    BY <1>1, <1>2, Received
  <1> QED
    BY <1>1, <1>3, PutText

\* A refused call leaves the flat bytes and the position as they are.
LEMMA RefusedStep ==
  ASSUME ArrayOK(array), Throw(array)
  PROVE  ArrayOK(array') /\ Flat!Refuse
  <1>1. array' = array /\ result' = <<"out_of_range">>
    BY DEF Throw
  <1> QED
    BY <1>1 DEF Flat!Refuse
\* A call that returns what is ahead takes it.
LEMMA Took ==
  ASSUME ArrayOK(array), NEW n \in 0..ReadSize(array), NEW r, r = array',
         r.position = array.position + n, Content(r) = Content(array),
         result' = <<"text", Fetch(array, n)>>
  PROVE  Flat!Take
  <1>1. Len(Flat!Rest) = ReadSize(array) /\ ReadSize(array) \in Nat
    BY AheadIs, AheadFlat
  <1>2. Fetch(array, n) = SubSeq(Flat!Rest, 1, n)
    <2>1. n \in Nat /\ n <= ReadSize(array)
      BY <1>1
    <2> QED
      BY <2>1, FetchedHere, AheadFlat
  <1>3. Content(array') = Content(array) /\ array'.position = array.position + n
    OBVIOUS
  <1> QED
    BY <1>1, <1>2, <1>3 DEF Flat!Take
\* m_cur is null only where no byte is left to read.
LEMMA NullAtEnd ==
  ASSUME NEW a, ArrayOK(a), Null(a)
  PROVE  ReadSize(a) = 0
  <1>1. PICK q \in Nat, z \in Nat, l \in Nat :
           /\ q = a.position /\ z = a.size /\ l = Len(a.nodes)
           /\ q <= z /\ z <= BaseSize * l
    BY Fields DEF ArrayOK
  <1>2. ~(Block(q) <= l)
    <2>1. Block(q) \in Nat
      BY Places
    <2> QED
      BY <1>1, <2>1 DEF Null, ArrayOK
  <1>3. ~(q < BaseSize * l)
    BY <1>2, PlaceIn
  <1>4. BaseSize * l \in Nat
    BY Sizes
  <1>5. q = z
    BY <1>1, <1>3, <1>4
  <1> QED
    BY <1>1, <1>5 DEF ReadSize
\* A read of data takes it, or is refused; a read of no bytes may crash.
LEMMA ReadDataStep ==
  ASSUME ArrayOK(array), ReadData, little' = little
  PROVE  /\ ArrayOK(array')
         /\ \/ (Flat!Take \/ Flat!Refuse) /\ crashed' = crashed
            \/ Flat!TakeNothing
  <1>1. PICK n \in 0..(BaseSize + 1) : Read(array, n)
    BY DEF ReadData
  <1>2. n \in Nat /\ ReadSize(array) \in Nat
    BY AheadIs
  <1>3. CASE ReadThrows(array, n) /\ Throw(array)
    BY <1>3, RefusedStep DEF Throw
  <1>4. CASE Null(array) /\ Crash
    <2>1. Len(Flat!Rest) = 0 /\ Flat!Rest \in Seq(Cell)
      BY <1>4, NullAtEnd, AheadIs, AheadFlat
    <2>2. Flat!Rest = <<>>
      BY <2>1, EmptySeq
    <2>3. array' = array /\ result' = result /\ crashed' = TRUE
      BY <1>4 DEF Crash
    <2>4. Content(array') = Content(array) /\ array'.position = array.position
      BY <2>3
    <2> QED
      BY <2>2, <2>3, <2>4 DEF Flat!TakeNothing
  <1>5. CASE /\ ~ReadThrows(array, n)
             /\ array' = ReadBytes(array, n) /\ result' = <<"text", Fetch(array, n)>>
             /\ crashed' = crashed
    <2>1. n <= ReadSize(array) /\ n \in 0..ReadSize(array)
      BY <1>2, <1>5 DEF ReadThrows
    <2>2. PICK r : r = array' /\ r = Advance(array, n)
      BY <1>5 DEF ReadBytes
    <2>3. ArrayOK(r) /\ r.position = array.position + n /\ Content(r) = Content(array)
      BY <1>2, <2>1, <2>2, Advanced
    <2>4. Flat!Take
      BY <1>5, <2>1, <2>2, <2>3, Took
    <2> QED
      BY <1>5, <2>2, <2>3, <2>4
  <1> QED
    BY <1>1, <1>3, <1>4, <1>5 DEF Read
\* What the socket sends is taken.
LEMMA SendOutStep ==
  ASSUME ArrayOK(array), SendOut
  PROVE  ArrayOK(array') /\ Flat!Take
  <1>1. PICK n \in 1..ReadSize(array) :
           array' = SendFrom(array, n) /\ result' = <<"text", Fetch(array, n)>>
    BY DEF SendOut
  <1>2. n \in Nat /\ ReadSize(array) \in Nat /\ n \in 0..ReadSize(array)
    BY AheadIs
  <1>3. PICK q \in Nat, z \in Nat : /\ q = array.position /\ z = array.size
                                    /\ z <= array.capacity /\ array.capacity \in Nat
    BY Fields DEF ArrayOK
  <1>4. PICK v \in Nat : v = q + n /\ v <= z /\ v <= array.capacity
    <2>1. q + n \in Nat /\ q + n <= z /\ q + n <= array.capacity
      BY <1>2, <1>3 DEF ReadSize
    <2> QED
      BY <2>1
  <1>5. PICK r : r = array' /\ r = SetPosition(array, v)
    BY <1>1, <1>3, <1>4 DEF SendFrom
  <1>6. /\ ArrayOK(r) /\ r.position = v /\ r.size = Larger(z, v)
        /\ \A p \in Nat : ByteAt(r, p) = ByteAt(array, p)
    BY <1>3, <1>4, <1>5, PositionSet
  <1>7. r.size = array.size
    BY <1>3, <1>4, <1>6 DEF Larger
  <1>8. Content(r) = Content(array)
    <2>1. \A p \in 0..(array.size - 1) : p \in Nat
      BY <1>3
    <2> QED
      BY <1>6, <1>7, <2>1, SameContent
  <1>9. Flat!Take
    BY <1>1, <1>2, <1>3, <1>4, <1>5, <1>6, <1>8, Took
  <1> QED
    BY <1>5, <1>6, <1>9
\* setPosition seeks, within the capacity.
LEMMA MoveStep ==
  ASSUME ArrayOK(array), Move
  PROVE  ArrayOK(array') /\ (Flat!Seek \/ Flat!Refuse)
  <1>1. PICK v \in 0..MaxSize : IF v > array.capacity THEN Throw(array)
                                ELSE array' = SetPosition(array, v) /\ result' = <<>>
    BY DEF Move, Void
  <1>2. v \in Nat /\ array.capacity \in Nat
    BY Fields, ByteArrayAssumption
  <1>3. CASE v > array.capacity
    BY <1>1, <1>3, RefusedStep
  <1>4. CASE ~(v > array.capacity)
    <2>1. array' = SetPosition(array, v) /\ result' = <<>> /\ v <= array.capacity
      BY <1>1, <1>2, <1>4
    <2>2. PICK r : r = array' /\ r = SetPosition(array, v)
      BY <2>1
    <2>3. /\ ArrayOK(r) /\ r.position = v /\ r.size = Larger(array.size, v)
          /\ \A i \in 1..array.size : Content(r)[i] = Content(array)[i]
      BY <1>2, <2>1, <2>2, PositionSet
    <2>4. PICK c \in Seq(Cell) : c = Content(array) /\ Len(c) = array.size
      BY Contents
    <2>5. PICK d \in Seq(Cell) : d = Content(r) /\ Len(d) = r.size
      BY <2>3, Contents
    <2>6. PICK z \in Nat, y \in Nat : z = array.size /\ y = r.size /\ z <= y
      <3>1. array.size \in Nat /\ r.size \in Nat /\ array.size <= r.size
        BY <1>2, <2>3, Fields DEF Larger
      <3> QED
        BY <3>1
    <2>7. Flat!IsPrefix(c, d)
      <3>1. z <= Len(c) /\ z <= Len(d)
        BY <2>4, <2>5, <2>6
      <3>2. /\ SubSeq(c, 1, z) \in Seq(Cell) /\ Len(SubSeq(c, 1, z)) = z
            /\ \A i \in 1..z : SubSeq(c, 1, z)[i] = c[i]
        BY <3>1, Beginning
      <3>3. /\ SubSeq(d, 1, z) \in Seq(Cell) /\ Len(SubSeq(d, 1, z)) = z
            /\ \A i \in 1..z : SubSeq(d, 1, z)[i] = d[i]
        BY <3>1, Beginning
      <3>5. \A i \in 1..z : c[i] = d[i]
        BY <2>3, <2>4, <2>5, <2>6
      <3>6. SubSeq(c, 1, z) = SubSeq(d, 1, z)
        BY <3>2, <3>3, <3>5, SeqEqual
      <3> QED
        BY <2>4, <2>5, <2>6, <3>6 DEF Flat!IsPrefix
    <2>8. Len(d) = Flat!Larger(Len(c), v)
      BY <2>3, <2>4, <2>5 DEF Flat!Larger, Larger
    <2>9. c = Content(array) /\ d = Content(array')
      BY <2>2, <2>4, <2>5
    <2>10. array'.position = v
      BY <2>2, <2>3
    <2>11. Flat!Seek
      BY <2>1, <2>7, <2>8, <2>9, <2>10 DEF Flat!Seek
    <2> QED
      BY <2>2, <2>3, <2>11
  <1> QED
    BY <1>3, <1>4
\* An array of no bytes has no content.
LEMMA NothingThere ==
  ASSUME NEW a, ArrayOK(a), a.size = 0
  PROVE  Content(a) = <<>>
  <1>1. Content(a) \in Seq(Cell) /\ Len(Content(a)) = 0
    BY Contents
  <1> QED
    BY <1>1, EmptySeq
\* clear leaves no bytes.
LEMMA ClearStep ==
  ASSUME ArrayOK(array), ClearArray
  PROVE  ArrayOK(array') /\ Flat!Empty
  <1>1. array' = Clear(array) /\ result' = <<>>
    BY DEF ClearArray, Void
  <1>2. PICK nodes \in Seq(Blocks) : nodes = SubSeq(array.nodes, 1, 1) /\ Len(nodes) = 1
    <2>1. array.nodes \in Seq(Blocks) /\ 1 <= Len(array.nodes)
      BY Fields
    <2>2. /\ SubSeq(array.nodes, 1, 1) \in Seq(Blocks)
          /\ Len(SubSeq(array.nodes, 1, 1)) = 1
      BY <2>1, Beginning
    <2> QED
      BY <2>1, <2>2
  <1> DEFINE S == Seq(Blocks)
  <1>3. PICK r : /\ r = array'
                 /\ r = [array EXCEPT !.position = 0, !.size = 0, !.capacity = BaseSize,
                                      !.cur = 1, !.nodes = nodes]
    BY <1>1, <1>2 DEF Clear
  <1>4. array \in [nodes : S, cur : Nat, position : Nat, size : Nat, capacity : Nat]
    BY DEF ArrayOK, Arrays
  <1>5. nodes \in S /\ BaseSize \in Nat
    BY Sizes
  <1> HIDE DEF S
  <1>6. /\ r \in [nodes : S, cur : Nat, position : Nat, size : Nat, capacity : Nat]
        /\ r.nodes = nodes /\ r.cur = 1 /\ r.position = 0 /\ r.size = 0
        /\ r.capacity = BaseSize
    <2> DEFINE R == [nodes : S, cur : Nat, position : Nat, size : Nat, capacity : Nat]
    <2>1. PICK b : b = [array EXCEPT !.position = 0, !.size = 0]
      OBVIOUS
    <2>2. b \in R /\ b.position = 0 /\ b.size = 0
      BY <1>4, <2>1
    <2>3. r = [b EXCEPT !.capacity = BaseSize, !.cur = 1, !.nodes = nodes]
      BY <1>3, <2>1
    <2> QED
      BY <1>5, <2>2, <2>3
  <1>7. Block(0) = 1
    <2>1. 1 \in Nat \ {0} /\ 1 \in 1..BaseSize /\ 0 + 1 = BaseSize * (1 - 1) + 1
      BY Sizes
    <2> QED
      BY <2>1, PlaceIs
  <1>8. nodes # <<>> /\ BaseSize * Len(nodes) = BaseSize /\ 0 <= BaseSize
    <2>2. BaseSize * 1 = BaseSize /\ 0 <= BaseSize
      BY Sizes
    <2>1. Len(nodes) = 1
      BY <1>2
    <2>3. nodes # <<>>
      BY ONLY <2>1, EmptySeq
    <2> QED
      BY <1>2, <2>2, <2>3
  <1>9. ArrayOK(r)
    BY <1>6, <1>7, <1>8 DEF ArrayOK, Arrays, S
  <1>10. Content(r) = <<>>
    BY <1>6, <1>9, NothingThere
  <1>11. Content(array') = <<>> /\ array'.position = 0
    BY <1>3, <1>6, <1>10
  <1>12. Flat!Empty
    BY <1>1, <1>11 DEF Flat!Empty
  <1> QED
    BY <1>3, <1>9, <1>12
\* The order of bytes is turned.
LEMMA TurnStep ==
  ASSUME ArrayOK(array), SetIsLittleEndian
  PROVE  ArrayOK(array') /\ little' \in BOOLEAN /\ Flat!Turn
  <1>1. little' \in BOOLEAN /\ result' = <<>> /\ array' = array
    BY DEF SetIsLittleEndian, Void
  <1> QED
    BY <1>1 DEF Flat!Turn

\* A reader of a number, which may see any byte where nobody wrote, takes a number that
\* was written there as it was written.
LEMMA NumberSeen ==
  ASSUME ArrayOK(array), NEW seen \in Seen(Smaller(MaxGroups, ReadSize(array)))
  PROVE  /\ Len(seen) \in Nat /\ Len(seen) <= ReadSize(array)
         /\ Taken(seen) \in 1..(Len(seen) + 1)
         /\ Taken(seen) <= Len(seen) => Decoded(SubSeq(seen, 1, Taken(seen))) \in Unsigned
         /\ \A v \in Unsigned : Flat!IsPrefix(Varint[v], Flat!Rest) =>
              /\ Taken(seen) <= Len(seen) /\ Taken(seen) = Len(Varint[v])
              /\ Decoded(SubSeq(seen, 1, Taken(seen))) = v
  <1>1. PICK m \in Nat : m = ReadSize(array)
    BY AheadIs
  <1>2. PICK k \in Nat : /\ k = Smaller(MaxGroups, ReadSize(array)) /\ k <= m
                         /\ (k = MaxGroups \/ k = m) /\ k <= MaxGroups
    <2>1. /\ Smaller(MaxGroups, m) \in Nat /\ Smaller(MaxGroups, m) <= m
          /\ (Smaller(MaxGroups, m) = MaxGroups \/ Smaller(MaxGroups, m) = m)
          /\ Smaller(MaxGroups, m) <= MaxGroups
      BY Sizes DEF Smaller
    <2> QED
      BY <1>1, <2>1
  <1>3. seen \in Seq(Byte) /\ Len(seen) = k
    BY <1>1, <1>2, SeenBytes
  <1>4. PICK n \in 1..(k + 1) : n = Taken(seen)
    BY <1>3, TakenBytes
  <1>5. ASSUME n <= k PROVE Decoded(SubSeq(seen, 1, n)) \in Unsigned
    <2>1. n <= Len(seen) /\ n \in Nat
      BY <1>3, <1>5
    <2>2. SubSeq(seen, 1, n) \in Seq(Byte)
      BY <1>3, <2>1, Beginning
    <2> QED
      BY <2>2, NumbersOf
  <1>6. ASSUME NEW v \in Unsigned, Flat!IsPrefix(Varint[v], Flat!Rest)
        PROVE  n <= k /\ n = Len(Varint[v]) /\ Decoded(SubSeq(seen, 1, n)) = v
    <2>1. PICK t : t = Varint[v]
      OBVIOUS
    <2>2. Marked(t) /\ t \in Seq(Byte)
      BY <2>1, VarintMarked DEF Marked
    <2>3. PICK l \in Nat : l = Len(t) /\ l <= MaxGroups /\ l <= m
      <3>1. Len(t) \in Nat /\ Len(t) <= MaxGroups
        BY <2>1, <2>2, LenProperties, ArraysAssumption
      <3>2. Len(t) <= m
        BY <1>1, <1>6, <2>1, <2>2, Begins
      <3> QED
        BY <3>1, <3>2
    <2>4. l <= k
      BY <1>2, <2>3
    <2>5. \A i \in 1..Len(t) : seen[i] = t[i]
      BY <1>1, <1>2, <1>6, <2>1, <2>2, <2>3, <2>4, SeenWritten
    <2>6. Taken(seen) = l /\ SubSeq(seen, 1, l) = t
      BY <1>3, <2>2, <2>3, <2>4, <2>5, TakenText
    <2> QED
      BY <1>4, <2>1, <2>3, <2>4, <2>6, VarintRead
  <1> QED
    BY <1>1, <1>2, <1>3, <1>4, <1>5, <1>6
\* Reading n of the bytes ahead.
LEMMA ReadOver ==
  ASSUME ArrayOK(array), NEW n \in Nat, n <= ReadSize(array), array' = ReadBytes(array, n)
  PROVE  /\ ArrayOK(array') /\ array'.position = array.position + n
         /\ Content(array') = Content(array)
         /\ array.position + n \in array.position..Len(Content(array))
  <1>1. PICK r : r = array' /\ r = Advance(array, n)
    BY DEF ReadBytes
  <1>2. ArrayOK(r) /\ r.position = array.position + n /\ Content(r) = Content(array)
    BY <1>1, Advanced
  <1>3. array.position \in Nat /\ array.size \in Nat /\ Len(Content(array)) = array.size
    BY Fields, Contents
  <1>4. array.position + n \in array.position..array.size
    BY <1>3 DEF ReadSize
  <1> QED
    BY <1>1, <1>2, <1>3, <1>4
\* Reading a number takes it, and an exception leaves what was taken before it.
LEMMA ReadUnsignedStep ==
  ASSUME ArrayOK(array), ReadUnsigned
  PROVE  ArrayOK(array') /\ Flat!TakeNumber(Unsigned, NumberVarint)
  <1>1. PICK seen \in Seen(Smaller(MaxGroups, ReadSize(array))) :
          IF Taken(seen) > Len(seen) THEN Throw(ReadBytes(array, Len(seen)))
          ELSE /\ array' = ReadBytes(array, Taken(seen))
               /\ result' = <<"number", Decoded(SubSeq(seen, 1, Taken(seen)))>>
    BY DEF ReadUnsigned, ReadNumber
  <1> DEFINE value == Decoded(SubSeq(seen, 1, Taken(seen)))
  <1>2. PICK l \in Nat : l = Len(seen) /\ l <= ReadSize(array) /\ ReadSize(array) \in Nat
    BY NumberSeen, AheadIs
  <1>3. PICK n \in 1..(l + 1) : n = Taken(seen)
    BY <1>2, NumberSeen
  <1>4. \A v \in Unsigned : Flat!IsPrefix(Varint[v], Flat!Rest) =>
          n <= l /\ n = Len(Varint[v]) /\ value = v
    BY <1>2, <1>3, NumberSeen
  <1>5. CASE n > l
    <2>1. array' = ReadBytes(array, l) /\ result' = <<"out_of_range">>
      BY <1>1, <1>2, <1>3, <1>5 DEF Throw
    <2>2. /\ ArrayOK(array') /\ array'.position \in array.position..Len(Content(array))
          /\ Content(array') = Content(array)
      BY <1>2, <2>1, ReadOver
    <2>3. {v \in Unsigned : Flat!IsPrefix(Varint[v], Flat!Rest)} = {}
      BY <1>4, <1>5
    <2>4. Flat!TakeNumber(Unsigned, NumberVarint)
      BY <2>1, <2>2, <2>3 DEF Flat!TakeNumber, NumberVarint
    <2> QED
      BY <2>2, <2>4
  <1>6. CASE ~(n > l)
    <2>1. array' = ReadBytes(array, n) /\ result' = <<"number", value>>
      BY <1>1, <1>2, <1>3, <1>6
    <2>2. n \in Nat /\ n <= ReadSize(array)
      BY <1>2, <1>6
    <2>3. /\ ArrayOK(array') /\ array'.position \in array.position..Len(Content(array))
          /\ Content(array') = Content(array) /\ array'.position = array.position + n
      BY <2>1, <2>2, ReadOver
    <2>4. value \in Unsigned
      BY <1>2, <1>3, <1>6, NumberSeen
    <2> HIDE DEF value
    <2>5. ASSUME NEW v \in Unsigned, Flat!IsPrefix(Varint[v], Flat!Rest)
          PROVE  result' = <<"number", v>> /\ array'.position = array.position + Len(Varint[v])
      BY <1>4, <2>1, <2>3, <2>5
    <2>6. Flat!TakeNumber(Unsigned, NumberVarint)
      BY <2>1, <2>3, <2>4, <2>5 DEF Flat!TakeNumber, NumberVarint
    <2> QED
      BY <2>3, <2>6
  <1> QED
    BY <1>5, <1>6
LEMMA ReadSignedStep ==
  ASSUME ArrayOK(array), ReadSigned
  PROVE  ArrayOK(array') /\ Flat!TakeNumber(Signed, SignedVarint)
  <1>1. PICK seen \in Seen(Smaller(MaxGroups, ReadSize(array))) :
          IF Taken(seen) > Len(seen) THEN Throw(ReadBytes(array, Len(seen)))
          ELSE /\ array' = ReadBytes(array, Taken(seen))
               /\ result' = <<"number", Unzigzag(Decoded(SubSeq(seen, 1, Taken(seen))))>>
    BY DEF ReadSigned, ReadNumber
  <1> DEFINE value == Decoded(SubSeq(seen, 1, Taken(seen)))
  <1>2. PICK l \in Nat : l = Len(seen) /\ l <= ReadSize(array) /\ ReadSize(array) \in Nat
    BY NumberSeen, AheadIs
  <1>3. PICK n \in 1..(l + 1) : n = Taken(seen)
    BY <1>2, NumberSeen
  <1>4. ASSUME NEW s \in Signed, Flat!IsPrefix(Varint[Zigzag(s)], Flat!Rest)
        PROVE  n <= l /\ n = Len(Varint[Zigzag(s)]) /\ Unzigzag(value) = s
    <2>1. PICK v \in Unsigned : v = Zigzag(s) /\ Unzigzag(v) = s
      BY Zigzagged
    <2>2. n <= l /\ n = Len(Varint[v]) /\ value = v
      BY <1>2, <1>3, <1>4, <2>1, NumberSeen
    <2> QED
      BY <2>1, <2>2
  <1>5. CASE n > l
    <2>1. array' = ReadBytes(array, l) /\ result' = <<"out_of_range">>
      BY <1>1, <1>2, <1>3, <1>5 DEF Throw
    <2>2. /\ ArrayOK(array') /\ array'.position \in array.position..Len(Content(array))
          /\ Content(array') = Content(array)
      BY <1>2, <2>1, ReadOver
    <2>3. {s \in Signed : Flat!IsPrefix(Varint[Zigzag(s)], Flat!Rest)} = {}
      BY <1>4, <1>5
    <2>4. Flat!TakeNumber(Signed, SignedVarint)
      BY <2>1, <2>2, <2>3 DEF Flat!TakeNumber, SignedVarint
    <2> QED
      BY <2>2, <2>4
  <1>6. CASE ~(n > l)
    <2>1. array' = ReadBytes(array, n) /\ result' = <<"number", Unzigzag(value)>>
      BY <1>1, <1>2, <1>3, <1>6
    <2>2. n \in Nat /\ n <= ReadSize(array)
      BY <1>2, <1>6
    <2>3. /\ ArrayOK(array') /\ array'.position \in array.position..Len(Content(array))
          /\ Content(array') = Content(array) /\ array'.position = array.position + n
      BY <2>1, <2>2, ReadOver
    <2>4. Unzigzag(value) \in Signed
      BY <1>2, <1>3, <1>6, NumberSeen, Unzigzagged
    <2> HIDE DEF value
    <2>5. ASSUME NEW s \in Signed, Flat!IsPrefix(Varint[Zigzag(s)], Flat!Rest)
          PROVE  /\ result' = <<"number", s>>
                 /\ array'.position = array.position + Len(Varint[Zigzag(s)])
      BY <1>4, <2>1, <2>3, <2>5
    <2>6. Flat!TakeNumber(Signed, SignedVarint)
      BY <2>1, <2>3, <2>4, <2>5 DEF Flat!TakeNumber, SignedVarint
    <2> QED
      BY <2>3, <2>6
  <1> QED
    BY <1>5, <1>6
\* Reading one of fixed size takes it whole, or is refused.
LEMMA ReadFixedStep ==
  ASSUME ArrayOK(array), little \in BOOLEAN, ReadFixed
  PROVE  ArrayOK(array') /\ (Flat!Refuse \/ Flat!TakeNumber(InFixedSize, Flat!Ordered))
  <1>1. CASE ReadThrows(array, FixedSize)
    <2>1. Throw(array)
      BY <1>1 DEF ReadFixed
    <2> QED
      BY <2>1, RefusedStep
  <1>2. CASE ~ReadThrows(array, FixedSize)
    <2>1. PICK seen \in Seen(FixedSize) : /\ array' = ReadBytes(array, FixedSize)
                                          /\ result' = <<"number", FixedValue(seen, little)>>
      BY <1>2 DEF ReadFixed
    <2>2. FixedSize \in Nat /\ FixedSize <= ReadSize(array)
      BY <1>2, Sizes, AheadIs DEF ReadThrows
    <2>3. seen \in Seq(Byte) /\ Len(seen) = FixedSize
      BY <2>2, SeenBytes
    <2>4. /\ ArrayOK(array') /\ array'.position \in array.position..Len(Content(array))
          /\ Content(array') = Content(array) /\ array'.position = array.position + FixedSize
      BY <2>1, <2>2, ReadOver
    <2>5. FixedValue(seen, little) \in InFixedSize
      BY <2>3, FixedNumber
    <2>6. ASSUME NEW v \in InFixedSize, Flat!IsPrefix(Fixed(v, little), Flat!Rest)
          PROVE  /\ result' = <<"number", v>>
                 /\ array'.position = array.position + Len(Fixed(v, little))
      <3>1. v \in Nat /\ FixedValue(Fixed(v, little), little) = v
        BY FixedRead
      <3>2. PICK t \in Seq(Byte) : t = Fixed(v, little) /\ Len(t) = FixedSize
        BY <3>1, FixedBytes
      <3>3. \A i \in 1..Len(t) : seen[i] = t[i]
        BY <2>2, <2>6, <3>2, SeenWritten
      <3>4. seen = t
        BY <2>3, <3>2, <3>3, SeqEqual
      <3> QED
        BY <2>1, <2>4, <3>1, <3>2, <3>4
    <2>7. Flat!TakeNumber(InFixedSize, Flat!Ordered)
      BY <2>1, <2>4, <2>5, <2>6 DEF Flat!TakeNumber, Flat!Ordered
    <2> QED
      BY <2>4, <2>7
  <1> QED
    BY <1>1, <1>2
\* Reading a string takes the length and the text, or the length alone.
LEMMA ReadStringStep ==
  ASSUME ArrayOK(array), ReadString, little' = little
  PROVE  /\ ArrayOK(array')
         /\ \/ (Flat!Refuse \/ Flat!TakeText) /\ crashed' = crashed
            \/ Flat!TakeNothing
  <1>1. CASE ReadThrows(array, 1)
    <2>1. Throw(array)
      BY <1>1 DEF ReadString
    <2>2. crashed' = crashed
      BY <2>1 DEF Throw
    <2> QED
      BY <2>1, <2>2, RefusedStep
  <1>2. CASE ~ReadThrows(array, 1)
    <2>1. PICK seen \in Seen(1) : Read(ReadBytes(array, 1), seen[1])
      BY <1>2 DEF ReadString
    <2>2. PICK m \in Nat : m = ReadSize(array) /\ 1 <= m
      BY <1>2, AheadIs DEF ReadThrows
    <2>3. seen \in Seq(Byte) /\ Len(seen) = 1
          /\ (Ahead(array)[1] # Junk => seen[1] = Ahead(array)[1])
      <3>1. 1 \in Nat /\ 1 \in 1..1 /\ 1 <= ReadSize(array)
        BY <2>2
      <3> QED
        BY <3>1, SeenBytes
    <2>4. PICK n \in Byte : n = seen[1] /\ n \in Nat
      <3>1. 1 \in 1..Len(seen)
        BY <2>3
      <3>2. seen[1] \in Byte
        BY <2>3, <3>1
      <3> QED
        BY <3>2, ByteIs
    <2>5. PICK a : a = ReadBytes(array, 1) /\ a = Advance(array, 1)
      BY DEF ReadBytes
    <2>6. /\ ArrayOK(a) /\ a.position = array.position + 1 /\ a.size = array.size
          /\ Content(a) = Content(array)
      BY <2>2, <2>5, Advanced
    <2>7. PICK q \in Nat, z \in Nat : q = array.position /\ z = array.size
      BY Fields
    <2>8. ReadSize(a) = m - 1 /\ m = z - q
      BY <2>2, <2>6, <2>7 DEF ReadSize
    <2>9. Flat!Rest \in Seq(Cell) /\ Len(Flat!Rest) = m /\ Flat!Rest # <<>>
      <3>1. Ahead(array) \in Seq(Cell) /\ Len(Ahead(array)) = m
        BY <2>2, AheadIs
      <3>2. Len(Ahead(array)) >= 1
        BY <2>2, <3>1
      <3>3. Ahead(array) # <<>>
        BY ONLY <3>2, EmptySeq
      <3> QED
        BY <3>1, <3>3, AheadFlat
    <2>10. n \in IF Flat!Rest[1] = Junk THEN Byte ELSE {Flat!Rest[1]}
      BY <2>3, <2>4, AheadFlat
    <2>11. Read(a, n)
      BY <2>1, <2>4, <2>5
    <2>12. CASE ReadThrows(a, n) /\ Throw(a)
      <3>1. array' = a /\ result' = <<"out_of_range">> /\ crashed' = crashed
        BY <2>12 DEF Throw
      <3>2. n > m - 1
        BY <2>8, <2>12 DEF ReadThrows
      <3>3. ~(n < Len(Flat!Rest))
        BY <2>2, <2>4, <2>9, <3>2
      <3>4. Content(array') = Content(array) /\ array'.position = array.position + 1
        BY <2>6, <3>1
      <3>5. Flat!TakeText
        BY <2>9, <2>10, <3>1, <3>3, <3>4 DEF Flat!TakeText
      <3> QED
        BY <2>6, <3>1, <3>5
    <2>13. CASE ~ReadThrows(a, n) /\ Null(a) /\ Crash
      <3>1. m - 1 = 0
        BY <2>6, <2>8, <2>13, NullAtEnd
      <3>2. n = 0
        BY <2>4, <2>8, <2>13, <3>1 DEF ReadThrows
      <3>3. Len(Flat!Rest) = 1 /\ Flat!Rest[1] \in {0, Junk}
        <4>1. m = 1
          BY <2>2, <3>1
        <4>2. Flat!Rest[1] = Junk \/ n = Flat!Rest[1]
          BY <2>10
        <4> QED
          BY <2>9, <3>2, <4>1, <4>2
      <3>4. array' = array /\ result' = result /\ crashed' = TRUE
        BY <2>13 DEF Crash
      <3>5. Content(array') = Content(array) /\ array'.position = array.position
        BY <3>4
      <3> QED
        BY <3>3, <3>4, <3>5 DEF Flat!TakeNothing
    <2>14. CASE /\ ~ReadThrows(a, n)
                /\ array' = ReadBytes(a, n) /\ result' = <<"text", Fetch(a, n)>>
                /\ crashed' = crashed
      <3>1. n <= ReadSize(a) /\ n <= m - 1
        BY <2>2, <2>4, <2>8, <2>14 DEF ReadThrows
      <3>2. PICK r : r = array' /\ r = Advance(a, n)
        BY <2>14 DEF ReadBytes
      <3>3. ArrayOK(r) /\ r.position = a.position + n /\ Content(r) = Content(a)
        BY <2>4, <2>6, <3>1, <3>2, Advanced
      <3>4. n < Len(Flat!Rest)
        BY <2>2, <2>4, <2>9, <3>1
      <3>5. Fetch(a, n) = SubSeq(Flat!Rest, 2, n + 1)
        <4>1. 1 + n <= ReadSize(array) /\ 1 + 1 = 2 /\ 1 + n = n + 1 /\ 1 \in Nat
          BY <2>2, <2>4, <3>1
        <4>2. Fetch(a, n) = SubSeq(Ahead(array), 1 + 1, 1 + n)
          BY <2>4, <2>5, <4>1, FetchedAhead
        <4> QED
          BY <4>1, <4>2, AheadFlat
      <3>6. Content(array') = Content(array) /\ array'.position = array.position + 1 + n
        BY <2>6, <3>2, <3>3
      <3>7. Flat!TakeText
        BY <2>9, <2>10, <2>14, <3>4, <3>5, <3>6 DEF Flat!TakeText
      <3> QED
        BY <2>14, <3>2, <3>3, <3>7
    <2> QED
      BY <2>11, <2>12, <2>13, <2>14 DEF Read
  <1> QED
    BY <1>1, <1>2

\* ArraysInv holds of every array that is used.
ArraysInv == ArrayOK(array) /\ little \in BOOLEAN
\* Every step keeps the array as the code keeps it, and is one of the flat bytes.
LEMMA ArraysStep ==
  ASSUME ArraysInv, ArraysNext
  PROVE  ArraysInv' /\ [Flat!BytesNext]_(Flat!bytesVars)
  <1> USE DEF ArraysInv
  <1>0. ~crashed
    BY DEF ArraysNext
  <1>1. CASE SetIsLittleEndian
    <2>1. ArrayOK(array') /\ little' \in BOOLEAN /\ Flat!Turn
      BY <1>1, TurnStep
    <2>2. crashed' = crashed
      BY <1>1 DEF SetIsLittleEndian, Void
    <2> QED
      BY <1>0, <2>1, <2>2 DEF Flat!BytesNext
  <1>2. CASE UNCHANGED little /\ (WriteData \/ WriteString \/ WriteNumber \/ WriteFixed \/ Receive)
    <2>1. ArrayOK(array') /\ Flat!Put
      BY <1>2, WriteDataStep, WriteStringStep, WriteNumberStep, WriteFixedStep, ReceiveStep
    <2>2. crashed' = crashed
      BY <1>2 DEF WriteData, WriteString, WriteNumber, WriteFixed, Receive, Void
    <2> QED
      BY <1>0, <1>2, <2>1, <2>2 DEF Flat!BytesNext
  <1>3. CASE UNCHANGED little /\ (ReadData \/ ReadString \/ SendOut)
    <2>1. SendOut => crashed' = crashed
      BY DEF SendOut
    <2>2. /\ ArrayOK(array')
          /\ \/ (Flat!Take \/ Flat!TakeText \/ Flat!Refuse) /\ crashed' = crashed
             \/ Flat!TakeNothing
      BY <1>3, <2>1, ReadDataStep, ReadStringStep, SendOutStep
    <2> QED
      BY <1>0, <1>3, <2>2 DEF Flat!BytesNext
  <1>4. CASE UNCHANGED little /\ (ReadUnsigned \/ ReadSigned \/ ReadFixed)
    <2>1. /\ ArrayOK(array')
          /\ \/ Flat!TakeNumber(Unsigned, NumberVarint) \/ Flat!Refuse
             \/ Flat!TakeNumber(Signed, SignedVarint)
             \/ Flat!TakeNumber(InFixedSize, Flat!Ordered)
      BY <1>4, ReadUnsignedStep, ReadSignedStep, ReadFixedStep
    <2>2. crashed' = crashed
      BY <1>4 DEF ReadUnsigned, ReadSigned, ReadNumber, ReadFixed, Throw
    <2> QED
      BY <1>0, <1>4, <2>1, <2>2 DEF Flat!BytesNext
  <1>5. CASE UNCHANGED little /\ (Move \/ ClearArray)
    <2>1. ArrayOK(array') /\ (Flat!Seek \/ Flat!Refuse \/ Flat!Empty)
      BY <1>5, MoveStep, ClearStep
    <2>2. crashed' = crashed
      BY <1>5 DEF Move, ClearArray, Throw, Void
    <2> QED
      BY <1>0, <1>5, <2>1, <2>2 DEF Flat!BytesNext
  <1> QED
    BY <1>1, <1>2, <1>3, <1>4, <1>5 DEF ArraysNext
\* A new array has no bytes.
LEMMA ArraysStart ==
  ASSUME ArraysInit
  PROVE  ArraysInv /\ Flat!BytesInit
  <1>1. NewBlock \in Blocks
    BY DEF NewBlock, Blocks, Cell
  <1>2. PICK nodes \in Seq(Blocks) : nodes = <<NewBlock>> /\ Len(nodes) = 1
    <2>1. <<NewBlock>> \in Seq(Blocks) /\ Len(<<NewBlock>>) = 1
      BY <1>1
    <2> QED
      BY <2>1
  <1>3. /\ array.nodes = nodes /\ array.cur = 1 /\ array.position = 0
        /\ array.size = 0 /\ array.capacity = BaseSize
        /\ array = [nodes |-> nodes, cur |-> 1, position |-> 0, size |-> 0,
                    capacity |-> BaseSize]
    BY <1>2 DEF ArraysInit, NewArray
  <1>4. array \in Arrays
    <2> DEFINE S == Seq(Blocks)
    <2>1. nodes \in S /\ BaseSize \in Nat
      BY Sizes
    <2> HIDE DEF S
    <2>2. array \in [nodes : S, cur : Nat, position : Nat, size : Nat, capacity : Nat]
      BY <1>3, <2>1
    <2> QED
      BY <2>2 DEF Arrays, S
  <1>5. Block(0) = 1
    <2>1. 1 \in Nat \ {0} /\ 1 \in 1..BaseSize /\ 0 + 1 = BaseSize * (1 - 1) + 1
      BY Sizes
    <2> QED
      BY <2>1, PlaceIs
  <1>6. nodes # <<>>
    <2>1. Len(nodes) = 1
      BY <1>2
    <2> QED
      BY ONLY <2>1, EmptySeq
  <1>7. BaseSize * Len(nodes) = BaseSize /\ 0 <= BaseSize
    <2>1. BaseSize * 1 = BaseSize /\ 0 <= BaseSize
      BY Sizes
    <2> QED
      BY <1>2, <2>1
  <1>8. ArrayOK(array)
    BY <1>3, <1>4, <1>5, <1>6, <1>7 DEF ArrayOK
  <1>9. Content(array) = <<>>
    BY <1>3, <1>8, NothingThere
  <1> QED
    BY <1>3, <1>8, <1>9 DEF ArraysInit, ArraysInv, Flat!BytesInit
\* ByteArray keeps m_cur at the block of m_position, m_position up to m_size and
\* m_size up to the bytes of its blocks, for blocks, numbers and texts of any size.
THEOREM ArraysWellFormed == ArraysSpec => []ArraysInv
  <1>1. ArraysInit => ArraysInv
    BY ArraysStart
  <1>2. ArraysInv /\ [ArraysNext]_arrayVars => ArraysInv'
    <2>1. ASSUME ArraysInv, UNCHANGED arrayVars PROVE ArraysInv'
      BY <2>1 DEF ArraysInv, arrayVars
    <2> QED
      BY <2>1, ArraysStep
  <1> QED
    BY <1>1, <1>2, PTL DEF ArraysSpec
\* FlatSpec: every sequence of calls of a ByteArray returns what the same calls
\* return of one sequence of bytes, wherever blocks end, and none crashes but a read of no
\* bytes where none is left, for blocks, numbers and texts of any size.
THEOREM ArraysAreFlat == ArraysSpec => FlatSpec
  <1>1. ArraysInit => Flat!BytesInit
    BY ArraysStart
  <1>2. ArraysInv /\ [ArraysNext]_arrayVars => [Flat!BytesNext]_(Flat!bytesVars)
    <2>1. ASSUME UNCHANGED arrayVars PROVE UNCHANGED Flat!bytesVars
      BY <2>1 DEF arrayVars, Flat!bytesVars
    <2> QED
      BY <2>1, ArraysStep
  <1> QED
    BY <1>1, <1>2, ArraysWellFormed, PTL DEF ArraysSpec, FlatSpec, Flat!BytesSpec
=============================================================================
