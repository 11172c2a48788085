----------------------------- MODULE ByteArray ------------------------------
(***************************************************************************)
(* ByteArray of bytearray.cc: a chain of blocks of m_baseSize bytes, of    *)
(* which m_cur is the one at m_position, or null when the position is at   *)
(* the end of the last block.  An array is a record; cur is the index of   *)
(* the block, and null is the index after the last.  A loop over blocks    *)
(* that copies n bytes from the position is the copy of each byte to its   *)
(* place.  Memory nobody wrote holds Junk, which reads as any byte.        *)
(***************************************************************************)
EXTENDS Integers, Sequences, SequencesExt

CONSTANTS
  Half,          \* 0x80: what a byte holds beside the mark that another follows
  Numbers,       \* how many unsigned numbers there are: 2^32, 2^64
  MaxGroups,     \* bytes that a reader of such a number takes at most: 5, 10
  FixedSize,     \* bytes of a number of fixed size
  BaseSize,      \* m_baseSize
  MaxSize,       \* bound: bytes of an array
  Junk
ASSUME ByteArrayAssumption ==
  /\ {Half, Numbers \div 2, MaxGroups, FixedSize, BaseSize} \subseteq Nat \ {0}
  /\ Half > 1 /\ Numbers \in Nat /\ Numbers % 2 = 0
  /\ MaxSize \in Nat /\ Junk \notin Nat

Byte == 0..2 * Half - 1
Unsigned == 0..Numbers - 1
Signed == -(Numbers \div 2)..(Numbers \div 2 - 1)

NewBlock == [i \in 1..BaseSize |-> Junk]
NewArray == [nodes |-> <<NewBlock>>, cur |-> 1, position |-> 0, size |-> 0,
             capacity |-> BaseSize]

Null(a) == a.cur > Len(a.nodes)
Block(p) == (p \div BaseSize) + 1
Offset(p) == (p % BaseSize) + 1
ByteAt(a, p) == a.nodes[Block(p)][Offset(p)]
ReadSize(a) == a.size - a.position
Capacity(a) == a.capacity - a.position
Content(a) == [i \in 1..a.size |-> ByteAt(a, i - 1)]

CeilDiv(n, d) == (n + d - 1) \div d
AddCapacity(a, n) ==
  LET count == CeilDiv(n - Capacity(a), BaseSize)
  IN IF n <= Capacity(a) THEN a
     ELSE [a EXCEPT !.nodes = @ \o [i \in 1..count |-> NewBlock],
                    !.capacity = @ + count * BaseSize,
                    !.cur = IF Capacity(a) = 0 THEN Len(a.nodes) + 1 ELSE @]

\* where the i-th byte after the position is, walking from m_cur
Spot(a, i) == [block |-> a.cur + (((a.position % BaseSize) + i) \div BaseSize),
               offset |-> Offset(a.position + i)]
\* and which of the bytes from the position on a place is
Index(a, block, offset) ==
  (block - a.cur) * BaseSize + offset - (a.position % BaseSize)
Fill(a, data) ==
  [a EXCEPT !.nodes =
     [b \in DOMAIN a.nodes |->
        [o \in 1..BaseSize |-> LET i == Index(a, b, o)
                               IN IF i \in DOMAIN data THEN data[i] ELSE a.nodes[b][o]]]]
Fetch(a, n) == [i \in 1..n |-> a.nodes[Spot(a, i - 1).block][Spot(a, i - 1).offset]]
\* Faulty: the block is kept when the call ends with its last byte.
AdvanceLate(a, n) ==
  [a EXCEPT !.cur = a.cur + (((a.position % BaseSize) + n - 1) \div BaseSize),
            !.position = @ + n]
Advance(a, n) == [a EXCEPT !.cur = Spot(a, n).block, !.position = @ + n]
Grown(a) == [a EXCEPT !.size = IF a.position > a.size THEN a.position ELSE @]

\* ByteArray::write, under every writeX
WriteBytes(a, data) ==
  IF data = <<>> THEN a
  ELSE LET b == AddCapacity(a, Len(data)) IN Grown(Advance(Fill(b, data), Len(data)))
\* ByteArray::read, under every readX, looks into the block before it looks
\* at the number of bytes
ReadThrows(a, n) == n > ReadSize(a)
ReadBytes(a, n) == Advance(a, n)

SetPosition(a, v) == Grown([a EXCEPT !.position = v, !.cur = Block(v)])
Clear(a) == [a EXCEPT !.position = 0, !.size = 0, !.capacity = BaseSize, !.cur = 1,
                      !.nodes = SubSeq(@, 1, 1)]

\* getReadBuffers and getWriteBuffers give the blocks to the socket;
\* SocketStream moves the position by what the socket took or brought
SendFrom(a, n) == SetPosition(a, a.position + n)
RecvInto(a, want, data) ==
  LET b == AddCapacity(a, want)
  IN IF data = <<>> THEN b ELSE SetPosition(Fill(b, data), b.position + Len(data))

(***************************************************************************)
(* writeUint32/64 and their readers: a number in groups, the lowest first. *)
(***************************************************************************)
Varint[v \in Unsigned] ==
  IF v < Half THEN <<v>> ELSE <<(v % Half) + Half>> \o Varint[v \div Half]
\* the number of bytes that the reader takes of s: up to the first without
\* the mark, at most MaxGroups; more than Len(s) when s ends before it
Taken(s) == LET ends == {i \in 1..Len(s) : s[i] < Half} \cup {MaxGroups, Len(s) + 1}
            IN CHOOSE i \in ends : \A j \in ends : i <= j
\* the number whose groups are the bytes of s, a byte without what exceeds a group
Value(s, group) ==
  LET value[i \in 1..Len(s) + 1] ==
        IF i > Len(s) THEN 0 ELSE (s[i] % group) + group * value[i + 1]
  IN value[1]
Decoded(s) == Value(s, Half) % Numbers
Zigzag(v) == IF v < 0 THEN 2 * (-v) - 1 ELSE 2 * v
Unzigzag(n) == IF n % 2 = 0 THEN n \div 2 ELSE -(n \div 2) - 1

(***************************************************************************)
(* writeFint16 to writeFuint64, of floats their bits: a fixed number of    *)
(* bytes in the order of m_endian.                                         *)
(***************************************************************************)
Fixed(v, little) ==
  LET left[i \in 1..FixedSize] == IF i = 1 THEN v ELSE left[i - 1] \div (2 * Half)
      digits == [i \in 1..FixedSize |-> left[i] % (2 * Half)]
  IN IF little THEN digits ELSE Reverse(digits)
FixedValue(s, little) == Value(IF little THEN s ELSE Reverse(s), 2 * Half)
=============================================================================
