-------------------------------- MODULE Urls --------------------------------
(***************************************************************************)
(* The URL parser of http_parser.c (parse_url_char,                        *)
(* http_parser_parse_url, http_parse_host) and the class Uri of uri.cc     *)
(* that keeps its fields.  A text is a sequence of symbols; what the code  *)
(* asks of a character is its class.  A field of the code is an offset and *)
(* a length into the text, always of one contiguous piece: here the piece. *)
(***************************************************************************)
EXTENDS Integers, Sequences, FiniteSets, SequencesExt

CONSTANTS
  Alpha,         \* letters that are no hexadecimal digits, and whole words
  Hex,           \* letters that are
  MaxPort        \* 0xffff in the code

DigitValue == [d \in {"0","1","2","3","4","5","6","7","8","9"} |->
  CASE d = "0" -> 0 [] d = "1" -> 1 [] d = "2" -> 2 [] d = "3" -> 3
    [] d = "4" -> 4 [] d = "5" -> 5 [] d = "6" -> 6 [] d = "7" -> 7
    [] d = "8" -> 8 [] d = "9" -> 9]
IsNum(c) == c \in DOMAIN DigitValue
IsAlpha(c) == c \in Alpha \cup Hex
IsAlphaNum(c) == IsAlpha(c) \/ IsNum(c)
IsUserinfo(c) == IsAlphaNum(c) \/ c \in {"-", ".", "~", "%", ":", "&", "=", ","}
IsHost(c) == IsAlphaNum(c) \/ c \in {".", "-"}
Blank == {"SP", "CR", "LF", "TAB"}
IsUrl(c) == c \notin Blank \cup {"?", "#"}
Number(digits) == FoldLeft(LAMBDA v, d : 10 * v + DigitValue[d], 0, digits)

(***************************************************************************)
(* parse_url_char: the state after a character; "dead" refuses the text.   *)
(***************************************************************************)
ParseUrlChar(s, c) ==
  LET server == {"server", "server_start", "server_with_at"}
      query  == {"query_start", "query"}
  IN CASE c \in Blank -> "dead"
       [] s = "spaces_before_url" /\ c \in {"/", "*"} -> "path"
       [] s \in {"spaces_before_url", "schema"} /\ IsAlpha(c) -> "schema"
       [] s = "schema" /\ c = ":" -> "schema_slash"
       [] s = "schema_slash" /\ c = "/" -> "schema_slash_slash"
       [] s = "schema_slash_slash" /\ c = "/" -> "server_start"
       [] s = "server_with_at" /\ c = "@" -> "dead"
       [] s \in server /\ c = "/" -> "path"
       [] s \in server /\ c = "?" -> "query_start"
       [] s \in server /\ c = "@" -> "server_with_at"
       [] s \in server /\ (IsUserinfo(c) \/ c \in {"[", "]"}) -> "server"
       [] s = "path" /\ IsUrl(c) -> "path"
       [] s = "path" /\ c = "?" -> "query_start"
       [] s = "path" /\ c = "#" -> "fragment_start"
       [] s \in query /\ c = "#" -> "fragment_start"
       [] s \in query -> "query"
       [] s = "fragment_start" /\ c = "#" -> "fragment_start"
       [] s \in {"fragment_start", "fragment"} -> "fragment"
       [] OTHER -> "dead"

(***************************************************************************)
(* http_parse_host: the text between // and the path, parted into the name *)
(* of the user, the host and the port.                                     *)
(***************************************************************************)
ParseHostChar(s, c) ==
  LET user == {"userinfo_start", "userinfo"}
      zone == {"v6_zone_start", "v6_zone"}
      port == {"port_start", "port"}
  IN CASE s \in user /\ c = "@" -> "host_start"
       [] s \in user /\ IsUserinfo(c) -> "userinfo"
       [] s = "host_start" /\ c = "[" -> "v6_start"
       [] s \in {"host_start", "host"} /\ IsHost(c) -> "host"
       [] s \in {"host", "v6_end"} /\ c = ":" -> "port_start"
       [] s \in {"v6", "v6_zone"} /\ c = "]" -> "v6_end"
       [] s \in {"v6_start", "v6"} /\ (c \in Hex \cup {":", "."} \/ IsNum(c)) -> "v6"
       [] s = "v6" /\ c = "%" -> "v6_zone_start"
       [] s \in zone /\ (IsAlphaNum(c) \/ c \in {"%", ".", "-", "~"}) -> "v6_zone"
       [] s \in port /\ IsNum(c) -> "port"
       [] OTHER -> "dead"

NoFields == [schema |-> <<>>, host |-> <<>>, port |-> <<>>, path |-> <<>>,
             query |-> <<>>, fragment |-> <<>>, userinfo |-> <<>>]
HostField(s) ==
  CASE s \in {"host", "v6", "v6_zone_start", "v6_zone"} -> "host"
    [] s = "port" -> "port" [] s = "userinfo" -> "userinfo" [] OTHER -> "none"
HostStep(h, c) ==
  LET s == ParseHostChar(h.s, c)
      f == HostField(s)
  IN IF h.s = "dead" THEN h
     ELSE [s |-> s,
           u |-> IF f = "none" THEN h.u ELSE [h.u EXCEPT ![f] = Append(@, c)]]
ParseHost(u, found_at) ==
  FoldLeft(HostStep,
           [s |-> IF found_at THEN "userinfo_start" ELSE "host_start",
            u |-> [u EXCEPT !.host = <<>>]],
           u.host)
\* Faulty: a colon with no port after it is accepted.
HostAcceptedEarly(h) == h.s \in {"host", "v6_end", "port", "port_start"}
HostAccepted(h) == h.s \in {"host", "v6_end", "port"}

(***************************************************************************)
(* http_parser_parse_url: each character goes to the field its state       *)
(* names, delimiters go to none; then the checks on the whole.             *)
(***************************************************************************)
UrlField(s) ==
  CASE s = "schema" -> "schema"
    [] s \in {"server", "server_with_at"} -> "host"
    [] s \in {"path", "query", "fragment"} -> s
    [] OTHER -> "none"
UrlStep(a, c) ==
  LET s == ParseUrlChar(a.s, c)
      f == UrlField(s)
  IN IF a.s = "dead" THEN a
     ELSE [s |-> s, old |-> IF f = "none" THEN a.old ELSE f,
           at |-> a.at \/ s = "server_with_at",
           u |-> CASE f = "none" -> a.u
                   [] f = a.old -> [a.u EXCEPT ![f] = Append(@, c)]
                   [] OTHER -> [a.u EXCEPT ![f] = <<c>>]]
PortFits(port) == Number(port) <= MaxPort

Refused == [ok |-> FALSE, u |-> NoFields]
ParseUrl(text, is_connect) ==
  LET Fits(u) == /\ is_connect => {f \in DOMAIN u : u[f] # <<>>} = {"host", "port"}
                 /\ PortFits(u.port)
      Result(u) == IF Fits(u) THEN [ok |-> TRUE, u |-> u] ELSE Refused
      WithHost(h) == IF HostAccepted(h) THEN Result(h.u) ELSE Refused
      Parsed(a) ==
        CASE text = <<>> \/ a.s = "dead" -> Refused
          [] a.s # "dead" /\ a.u.host # <<>> -> WithHost(ParseHost(a.u, a.at))
          [] OTHER -> IF a.u.schema = <<>> THEN Result(a.u) ELSE Refused
  IN Parsed(FoldLeft(UrlStep,
                     [s |-> IF is_connect THEN "server_start" ELSE "spaces_before_url",
                      old |-> "none", at |-> FALSE, u |-> NoFields], text))

(***************************************************************************)
(* uri.cc.  The port of a Uri is a number, 0 when neither the text nor the *)
(* scheme gives one.                                                       *)
(***************************************************************************)
Http == {<<"http">>, <<"ws">>}
Https == {<<"https">>}
Uri(u) ==
  [schema |-> u.schema, userinfo |-> u.userinfo, host |-> u.host, path |-> u.path,
   query |-> u.query, fragment |-> u.fragment,
   port |-> CASE u.port # <<>> -> Number(u.port)
              [] u.port = <<>> /\ u.schema \in Http -> 80
              [] u.port = <<>> /\ u.schema \in Https -> 443
              [] OTHER -> 0]
GetPath(uri) == IF uri.path = <<>> THEN <<"/">> ELSE uri.path
IsDefaultPort(uri) ==
  \/ uri.schema \in Http /\ uri.port = 80
  \/ uri.schema \in Https /\ uri.port = 443
GetPort(uri) ==
  CASE uri.port # 0 -> uri.port
    [] uri.port = 0 /\ uri.schema \in Http -> 80
    [] uri.port = 0 /\ uri.schema \in Https \cup {<<"wss">>} -> 443
    [] OTHER -> 0
Digit(n) == CHOOSE d \in DOMAIN DigitValue : DigitValue[d] = n
Decimal(n) ==
  LET weights == {10 ^ k : k \in 0..4}
      used == IF n = 0 THEN {1} ELSE {w \in weights : w <= n}
  IN FoldLeft(LAMBDA s, w : Append(s, Digit((n \div w) % 10)), <<>>,
              SetToSortSeq(used, LAMBDA v, w : v > w))
Opt(mark, field) == IF field = <<>> THEN <<>> ELSE <<mark>> \o field
\* Uri::toString
UriText(uri) ==
  uri.schema \o <<":", "/", "/">> \o uri.userinfo
    \o (IF uri.userinfo = <<>> THEN <<>> ELSE <<"@">>) \o uri.host
    \o (IF IsDefaultPort(uri) THEN <<>> ELSE <<":">> \o Decimal(uri.port))
    \o GetPath(uri) \o Opt("?", uri.query) \o Opt("#", uri.fragment)
=============================================================================
