----------------------------- MODULE Addresses -----------------------------
(***************************************************************************)
(* Addresses of address.cc: the node and the service that Address::Lookup  *)
(* asks the system for, the text of an IPv6 address, and the networks that *)
(* a prefix makes.  A group of an IPv6 address is one symbol, an address   *)
(* is a sequence of bits with the highest first.                           *)
(***************************************************************************)
EXTENDS Urls

NoService == <<"none">>
After(s, i) == SubSeq(s, i + 1, Len(s))
IndexOf(s, c) == SelectInSeq(s, LAMBDA x : x = c)

\* Address::Lookup up to getaddrinfo.  Two colons outside brackets leave the
\* service at the first of them.
InBrackets(host) ==
  LET i == IndexOf(host, "]")
  IN IF host # <<>> /\ host[1] = "[" /\ i # 0
       THEN [node |-> SubSeq(host, 2, i - 1),
             service |-> IF i < Len(host) /\ host[i + 1] = ":" THEN After(host, i + 1)
                         ELSE NoService]
       ELSE [node |-> <<>>, service |-> NoService]
AtColon(host) ==
  LET i == IndexOf(host, ":")
      one == ~Contains(After(host, i), ":")
  IN CASE i = 0 -> [node |-> <<>>, service |-> NoService]
       [] i # 0 /\ one -> [node |-> SubSeq(host, 1, i - 1), service |-> After(host, i)]
       [] OTHER -> [node |-> <<>>, service |-> After(host, i - 1)]
Lookup(host) ==
  LET inside == InBrackets(host)
      split == IF inside.node # <<>> THEN inside ELSE AtColon(host)
  IN [split EXCEPT !.node = IF @ = <<>> THEN host ELSE @]

\* IPv6Address::insert: the first run of zeros is left out
PrintGroup(out, addr, i) ==
  LET skipped == i > 1 /\ addr[i - 1] = "0" /\ ~out.used
  IN IF addr[i] = "0" /\ ~out.used THEN out
     ELSE [used |-> out.used \/ skipped,
           text |-> out.text \o (IF skipped THEN <<":">> ELSE <<>>)
                             \o (IF i > 1 THEN <<":">> ELSE <<>>) \o <<addr[i]>>]
IPv6Text(addr) ==
  LET out == FoldLeft(LAMBDA o, i : PrintGroup(o, addr, i), [used |-> FALSE, text |-> <<>>],
                      [i \in DOMAIN addr |-> i])
  IN out.text \o (IF ~out.used /\ addr[Len(addr)] = "0" THEN <<":", ":">> ELSE <<>>)

\* CreateMask: ones behind the prefix.  A shift by the whole width is undefined,
\* and the machine shifts by nothing; only that of 32 bits can be so wide.
Behind(n, prefix) == [i \in 1..n |-> IF i > prefix THEN 1 ELSE 0]
CreateMask(n, bits) == Behind(n, bits)
CreateMask32(n, bits) == IF bits = 0 THEN Behind(n, n) ELSE Behind(n, bits)
Or(a, b) == [i \in DOMAIN a |-> IF a[i] = 1 \/ b[i] = 1 THEN 1 ELSE 0]
And(a, b) == [i \in DOMAIN a |-> a[i] * b[i]]
Not(a) == [i \in DOMAIN a |-> 1 - a[i]]

\* IPv4Address
Broadcast4(a, prefix) == Or(a, CreateMask32(Len(a), prefix))
Network4(a, prefix) == And(a, Not(CreateMask32(Len(a), prefix)))
Mask4(n, prefix) == Not(CreateMask32(n, prefix))

\* IPv6Address, a sequence of octets: the octet the prefix ends in, and those
\* before and behind it.
EndOctet(size, prefix) == (prefix \div size) + 1
ByOctet(before, last, octet, value) ==
  [i \in DOMAIN before |-> CASE i < last -> before[i]
                             [] i = last -> octet
                             [] OTHER -> [b \in DOMAIN before[i] |-> value]]
Broadcast6(a, prefix) ==
  LET size == Len(a[1])
      last == EndOctet(size, prefix)
  IN ByOctet(a, last, Or(a[last], CreateMask(size, prefix % size)), 1)
Mask6(n, size, prefix) ==
  ByOctet([i \in 1..n |-> [b \in 1..size |-> 1]], EndOctet(size, prefix),
          Not(CreateMask(size, prefix % size)), 0)
=============================================================================
