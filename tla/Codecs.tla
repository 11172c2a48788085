------------------------------- MODULE Codecs -------------------------------
(***************************************************************************)
(* Texts that carry other texts: StringUtil::UrlEncode and UrlDecode of    *)
(* util.cpp, the parameters and cookies of a request (PARSE_PARAM of       *)
(* http.cc), and base64url of jwt_util.cc.                                 *)
(***************************************************************************)
EXTENDS Urls, TLC

(***************************************************************************)
(* UrlEncode: a character that is not unreserved is written as % and two   *)
(* hexadecimal digits.                                                     *)
(***************************************************************************)
\* uri_chars has a 1 for "=" as well, which the comment under it does not list
IsUnreserved(c) == IsAlphaNum(c) \/ c \in {"-", ".", "_", "~", "="}
\* external: ASCII
Code == ("&" :> <<"2", "6">>) @@ ("=" :> <<"3", "D">>) @@ ("%" :> <<"2", "5">>)
          @@ ("+" :> <<"2", "B">>) @@ (";" :> <<"3", "B">>) @@ ("SP" :> <<"2", "0">>)
EncodeChar(c) ==
  CASE IsUnreserved(c) -> <<c>>
    [] c = "SP" -> <<"+">>
    [] OTHER -> <<"%">> \o Code[c]
UrlEncode(s) == FlattenSeq([i \in DOMAIN s |-> EncodeChar(s[i])])

\* UrlDecode: "byte" is a character that is no symbol of the texts
IsXdigit(c) == IsNum(c) \/ c \in Hex \cup {"A", "B", "C", "D", "E", "F"}
CharOf(digits) == IF \E c \in DOMAIN Code : Code[c] = digits
                  THEN CHOOSE c \in DOMAIN Code : Code[c] = digits ELSE "byte"
UrlDecode(s) ==
  LET escape == {i \in 1..(Len(s) - 2) : s[i] = "%" /\ IsXdigit(s[i + 1]) /\ IsXdigit(s[i + 2])}
      read == {i \in DOMAIN s : i - 1 \notin escape /\ i - 2 \notin escape}
      Char(i) == CASE i \in escape -> CharOf(<<s[i + 1], s[i + 2]>>)
                   [] s[i] = "+" -> "SP"
                   [] OTHER -> s[i]
  IN FlattenSeq([i \in DOMAIN s |-> IF i \in read THEN <<Char(i)>> ELSE <<>>])

(***************************************************************************)
(* PARSE_PARAM: the name goes to the next "=", wherever that is, and the   *)
(* value to the next flag.  The map keeps the first value of a name.       *)
(***************************************************************************)
Trimmed(s) == LET inner == {i \in DOMAIN s : s[i] \notin Blank}
              IN [k \in 1..Cardinality({i \in DOMAIN s :
                                          \E a, b \in inner : a <= i /\ i <= b})
                    |-> s[k - 1 + CHOOSE i \in inner : \A j \in inner : i <= j]]
Inserted(a, trim) ==
  a.map @@ (UrlDecode(IF trim THEN Trimmed(a.name) ELSE a.name) :> UrlDecode(a.value))
ParamStep(a, c, flag, trim) ==
  CASE a.in = "name" /\ c = "=" -> [a EXCEPT !.in = "value"]
    [] a.in = "name" /\ c # "=" -> [a EXCEPT !.name = Append(@, c)]
    [] a.in = "value" /\ c # flag -> [a EXCEPT !.value = Append(@, c)]
    [] a.in = "value" /\ c = flag ->
         [in |-> "name", name |-> <<>>, value |-> <<>>, map |-> Inserted(a, trim)]
Params(s, flag, trim) ==
  LET a == FoldLeft(LAMBDA b, c : ParamStep(b, c, flag, trim),
                    [in |-> "name", name |-> <<>>, value |-> <<>>, map |-> <<>>], s)
  IN IF a.in = "name" THEN a.map ELSE Inserted(a, trim)
QueryParams(query) == Params(query, "&", FALSE)
Cookies(header) == Params(header, ";", TRUE)

(***************************************************************************)
(* base64UrlEncode and base64UrlDecode: three bytes are four numbers below *)
(* 64, each written as one character; "=" is written and taken off again.  *)
(***************************************************************************)
Sextets(b) == <<b[1] \div 4, (b[1] % 4) * 16 + b[2] \div 16, (b[2] % 16) * 4 + b[3] \div 64,
                b[3] % 64>>
Octets(s) == <<(s[1] * 4 + (s[2] % 64) \div 16) % 256,
               ((s[2] % 16) * 16 + (s[3] % 64) \div 4) % 256, ((s[3] % 4) * 64 + s[4]) % 256>>
Padded(s, n, filler) == [i \in 1..n |-> IF i <= Len(s) THEN s[i] ELSE filler]
Groups(s, n) == [i \in 1..((Len(s) + n - 1) \div n) |->
                   SubSeq(s, n * (i - 1) + 1, IF n * i < Len(s) THEN n * i ELSE Len(s))]
\* Faulty: as many characters as bytes.
PieceEncodedShort(p) == SubSeq(Sextets(Padded(p, 3, 0)), 1, Len(p))
PieceEncoded(p) == SubSeq(Sextets(Padded(p, 3, 0)), 1, Len(p) + 1)
\* find() of a character that is none of base64 is npos, 255 as a byte
PieceDecoded(p) == SubSeq(Octets(Padded(p, 4, 255)), 1, Len(p) - 1)
Base64UrlEncode(bytes) ==
  LET p == Groups(bytes, 3) IN FlattenSeq([i \in DOMAIN p |-> PieceEncoded(p[i])])
\* the text ends at the first character that is none of base64, here -1
Base64UrlDecode(chars) ==
  LET bad == {i \in DOMAIN chars : chars[i] = -1}
      good == IF bad = {} THEN chars
              ELSE SubSeq(chars, 1, (CHOOSE i \in bad : \A j \in bad : i <= j) - 1)
      p == Groups(good, 4)
  IN FlattenSeq([i \in DOMAIN p |-> PieceDecoded(p[i])])
=============================================================================
