------------------------------ MODULE UrlTexts ------------------------------
(***************************************************************************)
(* Texts over the symbols of URLs, one symbol longer each step, so that    *)
(* every text up to a length is tried, and texts to be carried in others;  *)
(* and what the parser must say of them, from the grammar of URLs and not  *)
(* from the parser's states.                                               *)
(***************************************************************************)
EXTENDS Codecs, Addresses

CONSTANTS
  Symbols,       \* the symbols a text is continued with
  Beginnings,    \* what a text begins with
  MaxMore,       \* bound: symbols after the beginning
  CodeSymbols,   \* the symbols of a text that is to be carried
  Octet          \* the byte each of them stands for

VARIABLES text, more, carried
urlVars == <<text, more, carried>>

UrlsInit == text \in Beginnings /\ more = 0 /\ carried = <<>>
AddSymbol == /\ more < MaxMore /\ carried = <<>>
             /\ \E c \in Symbols : text' = Append(text, c)
             /\ more' = more + 1
             /\ UNCHANGED carried
AddCarried == /\ text = <<>> /\ Len(carried) < MaxMore
              /\ \E c \in CodeSymbols : carried' = Append(carried, c)
              /\ UNCHANGED <<text, more>>
UrlsNext == AddSymbol \/ AddCarried
UrlsSpec == UrlsInit /\ [][UrlsNext]_urlVars

(***************************************************************************)
(* The grammar.  Upto and From part a sequence at the first of some marks. *)
(***************************************************************************)
All(s, P(_)) == \A i \in DOMAIN s : P(s[i])
Cut(s, marks) == LET i == SelectInSeq(s, LAMBDA c : c \in marks)
                 IN IF i = 0 THEN Len(s) + 1 ELSE i
Upto(s, marks) == SubSeq(s, 1, Cut(s, marks) - 1)
From(s, marks) == SubSeq(s, Cut(s, marks), Len(s))
Slice(s, i, j) == [k \in 1..(IF j > Len(s) THEN Len(s) + 1 - i ELSE j + 1 - i) |-> s[k + i - 1]]
Skip(s) == IF s = <<>> THEN s ELSE Tail(s)
NoMarks(s) == SubSeq(s, CHOOSE i \in 1..(Len(s) + 1) :
                          /\ \A j \in 1..(i - 1) : s[j] = "#"
                          /\ i <= Len(s) => s[i] # "#", Len(s))
Bracketed(s) == Len(s) > 2 /\ s[1] = "[" /\ s[Len(s)] = "]"
                /\ All(SubSeq(s, 2, Len(s) - 1), LAMBDA c : c \in Hex \cup {":", "."} \/ IsNum(c))
IsName(s) == Bracketed(s) \/ (s # <<>> /\ All(s, IsHost))
IsPort(s) == s = <<>> \/ (Len(s) > 1 /\ s[1] = ":" /\ All(Tail(s), IsNum)
                          /\ Number(Tail(s)) <= MaxPort)
HostPorts(s) == {i \in 1..Len(s) : IsName(SubSeq(s, 1, i)) /\ IsPort(SubSeq(s, i + 1, Len(s)))}
HasScheme == text # <<>> /\ IsAlpha(text[1])
Scheme == IF HasScheme THEN Upto(text, {":"}) ELSE <<>>
AfterScheme == IF HasScheme THEN Slice(text, Len(Scheme) + 4, Len(text)) ELSE text
Authority == IF HasScheme THEN Upto(AfterScheme, {"/", "?"}) ELSE <<>>
Locator == IF HasScheme THEN From(AfterScheme, {"/", "?"}) ELSE text
User == IF Contains(Authority, "@") THEN Upto(Authority, {"@"}) ELSE <<>>
HostPort == IF Contains(Authority, "@") THEN Skip(From(Authority, {"@"})) ELSE Authority
NameEnd == CHOOSE i \in HostPorts(HostPort) : TRUE
Unbracketed(s) == IF Bracketed(s) THEN SubSeq(s, 2, Len(s) - 1) ELSE s

WellFormed ==
  /\ text # <<>>
  /\ HasScheme =>
       /\ All(Scheme, IsAlpha)
       /\ Slice(text, Len(Scheme) + 1, Len(Scheme) + 3) = <<":", "/", "/">>
       /\ All(User, IsUserinfo)
       /\ HostPorts(HostPort) # {}
  /\ ~HasScheme => text[1] \in {"/", "*"}
Expected ==
  LET i == NameEnd
      path == Upto(Locator, {"?", "#"})
      query == Upto(From(Locator, {"?", "#"}), {"#"})
  IN [schema |-> Scheme, userinfo |-> User,
      host |-> IF HasScheme THEN Unbracketed(SubSeq(HostPort, 1, i)) ELSE <<>>,
      port |-> IF HasScheme THEN Skip(SubSeq(HostPort, i + 1, Len(HostPort))) ELSE <<>>,
      path |-> path, query |-> Skip(query), fragment |-> NoMarks(From(Locator, {"#"}))]

Service(port) == IF port = <<>> THEN NoService ELSE port
LookedUp ==
  LET host == Expected.host
  IN /\ HasScheme =>
          /\ Lookup(HostPort) = [node |-> host, service |-> Service(Expected.port)]
          /\ ~Contains(host, ":") => Lookup(host) = [node |-> host, service |-> NoService]

\* an address of 4 bits, and one of 3 octets of 2 bits; a prefix of the whole
\* address has no octet to end in, and is written behind the last
Bits(n) == [1..n -> {0, 1}]
NetworkParts ==
  /\ \A a \in Bits(4), k \in 1..4 :
       /\ Broadcast4(a, k) = SubSeq(a, 1, k) \o [i \in 1..(4 - k) |-> 1]
       /\ Network4(a, k) = SubSeq(a, 1, k) \o [i \in 1..(4 - k) |-> 0]
       /\ Mask4(4, k) = Network4([i \in 1..4 |-> 1], k)
  /\ \A a \in [1..3 -> Bits(2)], k \in 0..5 :
       /\ FlattenSeq(Broadcast6(a, k))
            = SubSeq(FlattenSeq(a), 1, k) \o [i \in 1..(6 - k) |-> 1]
       /\ FlattenSeq(Mask6(3, 2, k)) = [i \in 1..6 |-> IF i <= k THEN 1 ELSE 0]

(***************************************************************************)
(* What http_parser_parse_url accepts is what the grammar of URLs says,    *)
(* and the fields it returns are the parts of the text: no delimiter is    *)
(* taken into a field, and no character is lost, wherever the part ends.   *)
(* The authority of a URL is looked up under the same host and port, and   *)
(* so is the host alone, as Uri::createAddress does, unless it has colons: *)
(* then Address::Lookup takes the text from the first of them for the      *)
(* service.  A prefix parts an address in the network's bits and the rest. *)
(***************************************************************************)
FieldsAreParts ==
  LET r == ParseUrl(text, FALSE)
  IN /\ r.ok <=> WellFormed
     /\ r.ok => r.u = Expected /\ LookedUp
     /\ text = <<>> => NetworkParts

UriRoundTrip ==
  LET r == ParseUrl(text, FALSE)
      uri == Uri(r.u)
      back == ParseUrl(UriText(uri), FALSE)
  IN r.ok /\ uri.schema \in Http \cup Https /\ ~Contains(uri.host, ":") /\ uri.port # 0
       => /\ back.ok
          /\ Uri(back.u) = [uri EXCEPT !.path = GetPath(uri)]
          /\ GetPort(Uri(back.u)) = GetPort(uri)
Pair(mark, name, value) == UrlEncode(name) \o <<"=">> \o UrlEncode(value) \o <<mark>>
Name == Append(Reverse(carried), "x")
Returned(pairs) ==
  /\ QueryParams(Pair("&", carried, Name) \o Pair("&", Name, carried)) = pairs
  /\ Cookies(Pair(";", carried, Name) \o <<"SP">> \o Pair(";", Name, carried)) = pairs
\* what is read of a name and its value: they are parted at the first "=",
\* which is the one between them if the name has none
Parted(name, value) ==
  LET written == name \o <<"=">> \o value
  IN Upto(written, {"="}) :> Skip(From(written, {"="}))
ParamsRoundTrip == carried # Name => Returned(Parted(carried, Name) @@ Parted(Name, carried))
\* What the comment above UrlEncode (util.cpp 449) lets one expect, as "=" is
\* none of the characters it lists: every name is read back.  TLC refutes it
\* with the constants of Http.cfg, by a name with "=".
NamesReturn == carried # Name => Returned((carried :> Name) @@ (Name :> carried))
Base64RoundTrip ==
  LET bytes == [i \in DOMAIN carried |-> Octet[carried[i]]]
      chars == Base64UrlEncode(bytes)
  IN /\ Base64UrlDecode(chars) = bytes
     /\ 6 * Len(chars) \in (8 * Len(bytes))..(8 * Len(bytes) + 5)


\* external: inet_pton, of groups with one run of zeros left out or with none
GroupText(f, i, j) == Tail(FlattenSeq([k \in 1..(j + 1 - i) |-> <<":", f[i + k - 1]>>]))
Joined(f, i, j) == IF i > j THEN <<>> ELSE GroupText(f, i, j)
Reads(s, f) ==
  \/ s = Joined(f, 1, 8)
  \/ \E i, j \in 1..8 : /\ i <= j /\ \A k \in i..j : f[k] = "0"
                        /\ s = Joined(f, 1, i - 1) \o <<":", ":">> \o Joined(f, j + 1, 8)
IPv6RoundTrip == \A f \in [1..8 -> {"0", "x"}] : Reads(IPv6Text(f), f)

(***************************************************************************)
(* What is written is read back.  Uri::toString writes a text from which   *)
(* Uri::Create reads the same Uri, with the default path and the default   *)
(* port spelled out: of a scheme whose default port Create and toString    *)
(* both know, and of a host that is no address in brackets (toString drops *)
(* the brackets).  The parameters of a query and the cookies of a header   *)
(* are those that UrlEncode wrote, whatever characters they have, but for  *)
(* "=" in a name: UrlEncode leaves it as it is, and the name is read up to *)
(* it.  In a value it is read back, as the other marks are everywhere.  A  *)
(* token decodes to the bytes it encodes, in as few characters as hold     *)
(* them.  An IPv6 address, wherever its zeros are, is written as a text of *)
(* its own.                                                                *)
(***************************************************************************)
RoundTrip ==
  /\ UriRoundTrip /\ ParamsRoundTrip /\ Base64RoundTrip
  /\ text \o carried = <<>> => IPv6RoundTrip
=============================================================================
