----------------------------- MODULE HttpParser -----------------------------
(***************************************************************************)
(* http_parser_execute of http_parser.c, with the callbacks of             *)
(* http_parser.cc that fill an HttpRequest or an HttpResponse.  The text   *)
(* is a sequence of symbols: a character where the parser looks at single  *)
(* characters, a word, or half of a word where it matches a word, so that  *)
(* a read may end inside it.  p is the http_parser; a state or a header    *)
(* state has the code's name without its s_req_, s_ or h_.                 *)
(***************************************************************************)
EXTENDS Urls

CONSTANTS
  MaxHeader,     \* max_header_size, in symbols
  MaxLength      \* the longest content length: (ULLONG_MAX - 10) / 10

NoLength == -1                                          \* ULLONG_MAX
Methods == {"GET", "POST", "CONNECT"}
UrlStates == {"schema", "schema_slash", "schema_slash_slash", "server_start",
              "server", "server_with_at", "path", "query_start", "query",
              "fragment_start", "fragment"}
BodyStates == {"chunk_data", "chunk_data_almost_done", "chunk_data_done",
               "body_identity", "body_identity_eof", "message_done"}
IsToken(c) == c \notin Blank \cup {":", ",", ";", "/", "?", "@", "[", "]"}

(***************************************************************************)
(* The messages, and the callbacks that fill them.                         *)
(***************************************************************************)
EmptyMessage ==
  [method |-> "none", status |-> 0, version |-> <<1, 1>>, path |-> <<"/">>,
   query |-> <<>>, fragment |-> <<>>, field |-> <<>>,
   headers |-> [n \in {} |-> <<>>], body |-> <<>>, finished |-> FALSE]
SetHeader(h, name, value) ==
  [n \in DOMAIN h \cup {name} |-> IF n = name THEN value ELSE h[n]]

OnUrl(m, u) ==
  [m EXCEPT !.path = IF u.path = <<>> THEN @ ELSE u.path,
            !.query = IF u.query = <<>> THEN @ ELSE u.query,
            !.fragment = IF u.fragment = <<>> THEN @ ELSE u.fragment]
OnHeaderField(m, piece) == [m EXCEPT !.field = piece]
OnHeaderValue(m, piece) == [m EXCEPT !.headers = SetHeader(@, m.field, piece)]
OnBody(m, piece) == [m EXCEPT !.body = @ \o piece]
OnStatus(p) == [p.m EXCEPT !.status = p.status]
OnHeadersComplete(p) ==
  [p.m EXCEPT !.version = p.version, !.method = p.method, !.status = p.status]
OnMessageComplete(m) == [m EXCEPT !.finished = TRUE]

(***************************************************************************)
(* http_parser_init.  mark names the data callback whose mark is set and   *)
(* piece is the text since the mark; done says that the call has returned. *)
(***************************************************************************)
StartState(type) == IF type = "request" THEN "start_req" ELSE "start_res"
NewParser(type) ==
  [type |-> type, state |-> StartState(type), hs |-> "general", flags |-> {},
   length |-> 0, nread |-> 0, version |-> <<0, 0>>, status |-> 0,
   method |-> "none", upgrade |-> FALSE, errno |-> "OK", mark |-> "none",
   piece |-> <<>>, done |-> FALSE, m |-> EmptyMessage]

Fail(p, e) == [p EXCEPT !.errno = e]
To(p, s) == [p EXCEPT !.state = s]
Expect(p, ok, e, s) == IF ok THEN To(p, s) ELSE Fail(p, e)

\* MARK: two marks at once would break the assertion at the end of the call
Mark(p, f) == IF p.mark = "none" THEN [p EXCEPT !.mark = f, !.piece = <<>>]
              ELSE IF p.mark = f THEN p ELSE Fail(p, "assert")
Take(p, f, c) == LET q == Mark(p, f) IN [q EXCEPT !.piece = Append(@, c)]
\* CALLBACK_DATA: no call without a mark
Called(p, m) == [p EXCEPT !.m = m, !.mark = "none", !.piece = <<>>]
CallbackUrl(p, r) == IF r.ok THEN Called(p, OnUrl(p.m, r.u)) ELSE Fail(p, "CB_url")
Callback(p, f) ==
  CASE p.mark # f -> p
    [] p.mark = f /\ f = "url" -> CallbackUrl(p, ParseUrl(p.piece, FALSE))
    [] p.mark = f /\ f = "header_field" -> Called(p, OnHeaderField(p.m, p.piece))
    [] p.mark = f /\ f = "header_value" -> Called(p, OnHeaderValue(p.m, p.piece))
    [] p.mark = f /\ f = "body" -> Called(p, OnBody(p.m, p.piece))
    [] p.mark = f /\ f = "status" -> Called(p, OnStatus(p))

(***************************************************************************)
(* http_message_needs_eof, http_should_keep_alive and NEW_MESSAGE.         *)
(***************************************************************************)
NeedsEof(p) ==
  /\ p.type = "response"
  /\ p.status \div 100 # 1 /\ p.status \notin {204, 304}
  /\ p.flags \cap {"SKIPBODY", "CHUNKED"} = {} /\ p.length = NoLength
ShouldKeepAlive(p) ==
  /\ IF p.version[1] > 0 /\ p.version[2] > 0
       THEN "CONNECTION_CLOSE" \notin p.flags
       ELSE "CONNECTION_KEEP_ALIVE" \in p.flags
  /\ ~NeedsEof(p)
Complete(p) ==
  [p EXCEPT !.state = IF ShouldKeepAlive(p) THEN StartState(p.type) ELSE "dead",
            !.m = OnMessageComplete(@)]

(***************************************************************************)
(* The first line of a message.                                            *)
(***************************************************************************)
Dead(p, c) == IF c \in {"CR", "LF"} THEN p ELSE Fail(p, "CLOSED_CONNECTION")
StartReq(p, c) ==
  CASE c \in {"CR", "LF"} -> p
    [] c \in Methods -> [p EXCEPT !.flags = {}, !.length = NoLength, !.method = c,
                                  !.state = "method"]
    [] OTHER -> Fail(p, "INVALID_METHOD")
Method(p, c) == Expect(p, c = "SP", "INVALID_METHOD", "spaces_before_url")
UrlChar(p, c) ==
  LET q == To(p, ParseUrlChar(p.state, c))
  IN IF q.state = "dead" THEN Fail(q, "INVALID_URL") ELSE Take(q, "url", c)
SpacesBeforeUrl(p, c) ==
  IF c = "SP" THEN p
  ELSE UrlChar(To(p, IF p.method = "CONNECT" THEN "server_start" ELSE p.state), c)
UrlStart(p, c) == IF c \in {"SP", "CR", "LF"} THEN Fail(p, "INVALID_URL") ELSE UrlChar(p, c)
Url(p, c) ==
  CASE c = "SP" -> Callback(To(p, "http_start"), "url")
    [] c \in {"CR", "LF"} ->
         Callback([p EXCEPT !.version = <<0, 9>>,
                            !.state = IF c = "CR" THEN "line_almost_done"
                                      ELSE "header_field_start"], "url")
    [] OTHER -> UrlChar(p, c)
HttpStart(p, c) ==
  IF c = "SP" THEN p ELSE Expect(p, c = "HTTP", "INVALID_CONSTANT", "http_HTTP")

\* the same states for a request and a response, but for what ends the version
Version(p, c) ==
  CASE p.state = "http_HTTP" -> Expect(p, c = "/", "STRICT", "http_major")
    [] p.state = "http_major" /\ IsNum(c) ->
         [p EXCEPT !.version[1] = DigitValue[c], !.state = "http_dot"]
    [] p.state = "http_dot" /\ c = "." -> To(p, "http_minor")
    [] p.state = "http_minor" /\ IsNum(c) ->
         [p EXCEPT !.version[2] = DigitValue[c], !.state = "http_end"]
    [] OTHER -> Fail(p, "INVALID_VERSION")
HttpEnd(p, c) ==
  CASE p.type = "response" -> Expect(p, c = "SP", "INVALID_VERSION", "first_status_code")
    [] p.type = "request" /\ c = "CR" -> To(p, "line_almost_done")
    [] p.type = "request" /\ c = "LF" -> To(p, "header_field_start")
    [] OTHER -> Fail(p, "INVALID_VERSION")
LineAlmostDone(p, c) == Expect(p, c = "LF", IF p.type = "request" THEN "LF_EXPECTED" ELSE "STRICT",
                               "header_field_start")

StartRes(p, c) ==
  CASE c \in {"CR", "LF"} -> p
    [] c = "HTTP" -> [p EXCEPT !.flags = {}, !.length = NoLength, !.state = "http_HTTP"]
    [] OTHER -> Fail(p, "INVALID_CONSTANT")
FirstStatusCode(p, c) ==
  CASE c = "SP" -> p
    [] IsNum(c) -> [p EXCEPT !.status = DigitValue[c], !.state = "status_code"]
    [] OTHER -> Fail(p, "INVALID_STATUS")
Status(p, c) ==
  CASE c = "CR" -> Callback(To(p, "line_almost_done"), "status")
    [] c = "LF" -> Callback(To(p, "header_field_start"), "status")
    [] OTHER -> Take(p, "status", c)
StatusStart(p, c) == Status(To(Mark(p, "status"), "status"), c)
StatusCode(p, c) ==
  CASE c = "SP" -> To(p, "status_start")
    [] c \in {"CR", "LF"} -> StatusStart(p, c)
    [] IsNum(c) /\ 10 * p.status + DigitValue[c] <= 999 ->
         [p EXCEPT !.status = 10 * @ + DigitValue[c]]
    [] OTHER -> Fail(p, "INVALID_STATUS")

(***************************************************************************)
(* The body and its chunks.                                                *)
(***************************************************************************)
MessageDone(p) == [Complete(p) EXCEPT !.done = p.upgrade]
BodyIdentity(p, c) ==
  LET q == Take([p EXCEPT !.length = @ - 1], "body", c)
  IN IF p.length \in {0, NoLength} THEN Fail(p, "assert")
     ELSE IF q.length = 0 THEN MessageDone(Callback(q, "body")) ELSE q
BodyIdentityEof(p, c) == Take(p, "body", c)
\* unhex, of digits and letters; the letters of either case have one value
Unhex == [h \in DOMAIN DigitValue \cup {"a", "b", "c", "d", "e", "f", "A", "B", "C", "D", "E", "F"} |->
  CASE h \in DOMAIN DigitValue -> DigitValue[h]
    [] h \in {"a", "A"} -> 10 [] h \in {"b", "B"} -> 11 [] h \in {"c", "C"} -> 12
    [] h \in {"d", "D"} -> 13 [] h \in {"e", "E"} -> 14 [] h \in {"f", "F"} -> 15]
\* (ULLONG_MAX - 16) / 16, where MaxLength is (ULLONG_MAX - 10) / 10
MaxChunk == (10 * MaxLength - 6) \div 16
ChunkSizeStart(p, c) ==
  CASE p.nread # 1 -> Fail(p, "assert")
    [] p.nread = 1 /\ c \in DOMAIN Unhex ->
         [p EXCEPT !.length = Unhex[c], !.state = "chunk_size"]
    [] OTHER -> Fail(p, "INVALID_CHUNK_SIZE")
ChunkSize(p, c) ==
  CASE c = "CR" -> To(p, "chunk_size_almost_done")
    [] c \in {";", "SP"} -> To(p, "chunk_parameters")
    [] c \in DOMAIN Unhex /\ p.length <= MaxChunk -> [p EXCEPT !.length = 16 * @ + Unhex[c]]
    [] c \in DOMAIN Unhex /\ p.length > MaxChunk -> Fail(p, "INVALID_CONTENT_LENGTH")
    [] OTHER -> Fail(p, "INVALID_CHUNK_SIZE")
ChunkParameters(p, c) == IF c = "CR" THEN To(p, "chunk_size_almost_done") ELSE p
ChunkSizeAlmostDone(p, c) ==
  IF c # "LF" THEN Fail(p, "STRICT")
  ELSE IF p.length = 0
    THEN [p EXCEPT !.nread = 0, !.flags = @ \cup {"TRAILING"}, !.state = "header_field_start"]
    ELSE [p EXCEPT !.nread = 0, !.state = "chunk_data"]
ChunkData(p, c) ==
  LET q == Take([p EXCEPT !.length = @ - 1], "body", c)
  IN IF p.length \in {0, NoLength} THEN Fail(p, "assert")
     ELSE IF q.length = 0 THEN To(q, "chunk_data_almost_done") ELSE q
ChunkDataAlmostDone(p, c) ==
  IF c # "CR" THEN Fail(p, "STRICT") ELSE Callback(To(p, "chunk_data_done"), "body")
ChunkDataDone(p, c) ==
  IF c # "LF" THEN Fail(p, "STRICT") ELSE [p EXCEPT !.nread = 0, !.state = "chunk_size_start"]

(***************************************************************************)
(* The end of the headers: what body follows.                              *)
(***************************************************************************)
BodyFollows(q) ==
  LET hasBody == "CHUNKED" \in q.flags \/ q.length > 0
  IN CASE q.upgrade /\ (q.method = "CONNECT" \/ "SKIPBODY" \in q.flags \/ ~hasBody) ->
            [Complete(q) EXCEPT !.done = TRUE]
       [] "SKIPBODY" \in q.flags -> Complete(q)
       [] "CHUNKED" \in q.flags -> To(q, "chunk_size_start")
       [] q.length = 0 -> Complete(q)
       [] q.length > 0 -> To(q, "body_identity")
       [] NeedsEof(q) -> To(q, "body_identity_eof")
       [] OTHER -> Complete(q)
HeadersDone(p) == BodyFollows([p EXCEPT !.nread = 0])
HeadersAlmostDone(p, c) ==
  LET upgrade == IF {"UPGRADE", "CONNECTION_UPGRADE"} \subseteq p.flags
                 THEN p.type = "request" \/ p.status = 101
                 ELSE p.method = "CONNECT"
  IN CASE c # "LF" -> Fail(p, "STRICT")
       [] c = "LF" /\ "TRAILING" \in p.flags -> MessageDone(p)
       [] c = "LF" /\ {"CHUNKED", "CONTENTLENGTH"} \subseteq p.flags ->
            Fail(p, "UNEXPECTED_CONTENT_LENGTH")
       [] OTHER -> HeadersDone([p EXCEPT !.upgrade = upgrade, !.m = OnHeadersComplete(p)])

(***************************************************************************)
(* The name of a header, and which header it is.                           *)
(***************************************************************************)
NameBegins ==
  [c \in {"Connec", "Proxy-", "Content-", "Transfer-", "Up"} |->
     CASE c = "Connec" -> "matching_connection"
       [] c = "Proxy-" -> "matching_proxy_connection"
       [] c = "Content-" -> "matching_content_length"
       [] c = "Transfer-" -> "matching_transfer_encoding"
       [] c = "Up" -> "matching_upgrade"]
NameEnds ==
  [x \in {<<"matching_connection", "tion">>, <<"matching_proxy_connection", "Connection">>,
          <<"matching_content_length", "Length">>,
          <<"matching_transfer_encoding", "Encoding">>, <<"matching_upgrade", "grade">>} |->
     CASE x[1] \in {"matching_connection", "matching_proxy_connection"} -> "connection"
       [] x[1] = "matching_content_length" -> "content_length"
       [] x[1] = "matching_transfer_encoding" -> "transfer_encoding"
       [] x[1] = "matching_upgrade" -> "upgrade"]
HeaderFieldStart(p, c) ==
  CASE c = "CR" -> To(p, "headers_almost_done")
    [] c = "LF" -> HeadersAlmostDone(To(p, "headers_almost_done"), c)
    [] c \notin {"CR", "LF"} /\ ~IsToken(c) -> Fail(p, "INVALID_HEADER_TOKEN")
    [] OTHER ->
         Take([p EXCEPT !.state = "header_field",
                        !.hs = IF c \in DOMAIN NameBegins THEN NameBegins[c] ELSE "general"],
              "header_field", c)
HeaderField(p, c) ==
  LET known == <<p.hs, c>> \in DOMAIN NameEnds
  IN CASE IsToken(c) ->
            Take([p EXCEPT !.hs = IF known THEN NameEnds[p.hs, c] ELSE "general"],
                 "header_field", c)
       [] c = ":" -> Callback(To(p, "header_value_discard_ws"), "header_field")
       [] OTHER -> Fail(p, "INVALID_HEADER_TOKEN")

(***************************************************************************)
(* The value of a header: what it says of the connection and the body.     *)
(***************************************************************************)
FlagOf(hs) ==
  CASE hs = "connection_keep_alive" -> {"CONNECTION_KEEP_ALIVE"}
    [] hs = "connection_close" -> {"CONNECTION_CLOSE"}
    [] hs = "connection_upgrade" -> {"CONNECTION_UPGRADE"}
    [] hs = "transfer_encoding_chunked" -> {"CHUNKED"}
    [] OTHER -> {}
ConnectionToken(c, other) ==
  CASE c = "keep" -> "matching_connection_keep_alive"
    [] c = "cl" -> "matching_connection_close"
    [] c = "up" -> "matching_connection_upgrade"
    [] OTHER -> other
HeaderValueStart(p, c) ==
  LET q == Take(To(p, "header_value"), "header_value", c)
  IN CASE p.hs = "upgrade" -> [q EXCEPT !.flags = @ \cup {"UPGRADE"}, !.hs = "general"]
       [] p.hs = "transfer_encoding" ->
            [q EXCEPT !.hs = IF c = "chun" THEN "matching_transfer_encoding_chunked"
                             ELSE "general"]
       [] p.hs = "content_length" /\ ~IsNum(c) -> Fail(p, "INVALID_CONTENT_LENGTH")
       [] p.hs = "content_length" /\ IsNum(c) /\ "CONTENTLENGTH" \in p.flags ->
            Fail(p, "UNEXPECTED_CONTENT_LENGTH")
       [] p.hs = "content_length" /\ IsNum(c) /\ "CONTENTLENGTH" \notin p.flags ->
            [q EXCEPT !.flags = @ \cup {"CONTENTLENGTH"}, !.length = DigitValue[c],
                      !.hs = "content_length_num"]
       [] p.hs \in {"content_length_ws", "matching_connection_token_start"} -> q
       [] p.hs = "connection" ->
            [q EXCEPT !.hs = ConnectionToken(c, "matching_connection_token")]
       [] OTHER -> [q EXCEPT !.hs = "general"]

\* the header state after a symbol inside a value
ValueState(hs, c) ==
  CASE hs = "matching_transfer_encoding_chunked" /\ c = "ked" -> "transfer_encoding_chunked"
    [] hs = "matching_connection_keep_alive" -> IF c = "-alive" THEN "connection_keep_alive"
                                                ELSE "matching_connection_token"
    [] hs = "matching_connection_close" -> IF c = "ose" THEN "connection_close"
                                           ELSE "matching_connection_token"
    [] hs = "matching_connection_upgrade" -> IF c = "grade" THEN "connection_upgrade"
                                             ELSE "matching_connection_token"
    [] hs = "matching_connection_token_start" ->
         IF c \in {"SP", "TAB"} THEN hs
         ELSE ConnectionToken(c, IF IsToken(c) THEN "matching_connection_token" ELSE "general")
    [] hs = "matching_connection_token" ->
         IF c = "," THEN "matching_connection_token_start" ELSE hs
    [] hs = "transfer_encoding_chunked" -> IF c = "SP" THEN hs ELSE "general"
    [] hs \in {"connection_keep_alive", "connection_close", "connection_upgrade"} ->
         CASE c = "," -> "matching_connection_token_start" [] c = "SP" -> hs
           [] OTHER -> "matching_connection_token"
    [] OTHER -> "general"
LengthDigit(p, c) ==
  CASE c = "SP" -> [p EXCEPT !.hs = "content_length_ws"]
    [] IsNum(c) /\ p.length <= MaxLength -> [p EXCEPT !.length = 10 * @ + DigitValue[c]]
    [] OTHER -> Fail(p, "INVALID_CONTENT_LENGTH")
HeaderAlmostDone(p, c) == Expect(p, c = "LF", "LF_EXPECTED", "header_value_lws")
HeaderValue(p, c) ==
  LET q == Take(p, "header_value", c)
  IN CASE c = "CR" -> Callback(To(p, "header_almost_done"), "header_value")
       [] c = "LF" -> HeaderAlmostDone(Callback(To(p, "header_almost_done"), "header_value"), c)
       [] c \notin {"CR", "LF"} /\ p.hs \in {"connection", "transfer_encoding"} ->
            Fail(p, "assert")
       [] c \notin {"CR", "LF"} /\ p.hs = "content_length_num" -> LengthDigit(q, c)
       [] c \notin {"CR", "LF"} /\ p.hs = "content_length_ws" ->
            IF c = "SP" THEN q ELSE Fail(p, "INVALID_CONTENT_LENGTH")
       [] OTHER -> [q EXCEPT !.hs = ValueState(p.hs, c),
                             !.flags = IF c = "," THEN @ \cup (FlagOf(p.hs) \ {"CHUNKED"}) ELSE @]
\* after the line of a value: its continuation, or the next header
HeaderValueLws(p, c) ==
  IF c \in {"SP", "TAB"}
    THEN HeaderValueStart([p EXCEPT !.hs = IF @ = "content_length_num"
                                           THEN "content_length_ws" ELSE @], c)
    ELSE HeaderFieldStart([p EXCEPT !.flags = @ \cup FlagOf(p.hs)], c)
DiscardWs(p, c) ==
  CASE c \in {"SP", "TAB"} -> p
    [] c = "CR" -> To(p, "header_value_discard_ws_almost_done")
    [] c = "LF" -> To(p, "header_value_discard_lws")
    [] OTHER -> HeaderValueStart(p, c)
DiscardLws(p, c) ==
  CASE c \in {"SP", "TAB"} -> To(p, "header_value_discard_ws")
    [] c \notin {"SP", "TAB"} /\ p.hs = "content_length" -> Fail(p, "INVALID_CONTENT_LENGTH")
    [] OTHER -> HeaderFieldStart(
                  Callback(Mark([p EXCEPT !.flags = @ \cup FlagOf(p.hs)], "header_value"),
                           "header_value"), c)

(***************************************************************************)
(* One symbol, and one call.                                               *)
(***************************************************************************)
OnFirstLine(p, c) ==
  CASE p.state = "dead" -> Dead(p, c)
    [] p.state = "start_req" -> StartReq(p, c)
    [] p.state = "method" -> Method(p, c)
    [] p.state = "spaces_before_url" -> SpacesBeforeUrl(p, c)
    [] p.state \in {"schema", "schema_slash", "schema_slash_slash", "server_start"} ->
         UrlStart(p, c)
    [] p.state \in UrlStates \ {"schema", "schema_slash", "schema_slash_slash", "server_start"} ->
         Url(p, c)
    [] p.state = "http_start" -> HttpStart(p, c)
    [] p.state \in {"http_HTTP", "http_major", "http_dot", "http_minor"} -> Version(p, c)
    [] p.state = "http_end" -> HttpEnd(p, c)
    [] p.state = "start_res" -> StartRes(p, c)
    [] p.state = "first_status_code" -> FirstStatusCode(p, c)
    [] p.state = "status_code" -> StatusCode(p, c)
    [] p.state = "status_start" -> StatusStart(p, c)
    [] p.state = "status" -> Status(p, c)
    [] p.state = "line_almost_done" -> LineAlmostDone(p, c)
OnHeader(p, c) ==
  CASE p.state = "header_field_start" -> HeaderFieldStart(p, c)
    [] p.state = "header_field" -> HeaderField(p, c)
    [] p.state = "header_value_discard_ws" -> DiscardWs(p, c)
    [] p.state = "header_value_discard_ws_almost_done" ->
         Expect(p, c = "LF", "STRICT", "header_value_discard_lws")
    [] p.state = "header_value_discard_lws" -> DiscardLws(p, c)
    [] p.state = "header_value" -> HeaderValue(p, c)
    [] p.state = "header_almost_done" -> HeaderAlmostDone(p, c)
    [] p.state = "header_value_lws" -> HeaderValueLws(p, c)
    [] p.state = "headers_almost_done" -> HeadersAlmostDone(p, c)
HeaderStates == {"header_field_start", "header_field", "header_value_discard_ws",
                 "header_value_discard_ws_almost_done", "header_value_discard_lws",
                 "header_value", "header_almost_done", "header_value_lws",
                 "headers_almost_done"}
ChunkStates == {"chunk_size_start", "chunk_size", "chunk_parameters", "chunk_size_almost_done"}
OnBodyState(p, c) ==
  CASE p.state = "body_identity" -> BodyIdentity(p, c)
    [] p.state = "body_identity_eof" -> BodyIdentityEof(p, c)
    [] p.state = "chunk_size_start" -> ChunkSizeStart(p, c)
    [] p.state = "chunk_size" -> ChunkSize(p, c)
    [] p.state = "chunk_parameters" -> ChunkParameters(p, c)
    [] p.state = "chunk_size_almost_done" -> ChunkSizeAlmostDone(p, c)
    [] p.state = "chunk_data" -> ChunkData(p, c)
    [] p.state = "chunk_data_almost_done" -> ChunkDataAlmostDone(p, c)
    [] p.state = "chunk_data_done" -> ChunkDataDone(p, c)

Over(p) == p.errno # "OK" \/ p.done
Feed(p, c) ==
  LET q == IF p.state \in BodyStates THEN p ELSE [p EXCEPT !.nread = @ + 1]
  IN CASE Over(p) -> p
       [] ~Over(p) /\ q.nread > MaxHeader -> Fail(q, "HEADER_OVERFLOW")
       [] ~Over(p) /\ q.nread <= MaxHeader /\ q.state \in HeaderStates -> OnHeader(q, c)
       [] ~Over(p) /\ q.nread <= MaxHeader /\ q.state \in BodyStates \cup ChunkStates ->
            OnBodyState(q, c)
       [] OTHER -> OnFirstLine(q, c)

\* the marks a call begins with: a read that ended inside a piece of text
MarkOf(s) ==
  CASE s \in UrlStates -> "url" [] s \in {"header_field", "header_value", "status"} -> s
    [] OTHER -> "none"
Entry(p) == [p EXCEPT !.mark = MarkOf(p.state), !.piece = <<>>, !.done = FALSE]
\* the callbacks for the marks left when the bytes run out
EndOfRead(p) ==
  IF Over(p) \/ p.mark = "none" THEN [p EXCEPT !.mark = "none", !.piece = <<>>]
  ELSE LET q == Callback(p, p.mark) IN [q EXCEPT !.mark = "none", !.piece = <<>>]
\* one half after the other, which halves the depth of what TLC evaluates
FeedAll(p, data) ==
  LET half == Len(data) \div 2
      q == FoldLeft(Feed, p, SubSeq(data, 1, half))
  IN IF Over(q) THEN q ELSE FoldLeft(Feed, q, SubSeq(data, half + 1, Len(data)))
Execute(p, data) ==
  IF p.errno # "OK" THEN p ELSE EndOfRead(FeedAll(Entry(p), data))
=============================================================================
