----------------------------- MODULE ByteArrays -----------------------------
(***************************************************************************)
(* Any sequence of calls of one ByteArray.                                 *)
(***************************************************************************)
EXTENDS ByteArray

CONSTANT Data          \* what is written at once
\* A length fits the number it is written as, and a number the groups its reader takes.
ASSUME ArraysAssumption ==
  /\ \A data \in Data : data \in Seq(Byte) /\ Len(data) \in Byte
  /\ \A v \in Unsigned : Len(Varint[v]) <= MaxGroups

VARIABLES array, little, result, crashed
arrayVars == <<array, little, result, crashed>>

Bounded(n) == array.position + n <= MaxSize
ArraysInit == array = NewArray /\ little = FALSE /\ result = <<>> /\ crashed = FALSE

Void == result' = <<>> /\ UNCHANGED crashed      \* the call returns nothing
WriteData == \E data \in Data : /\ Bounded(Len(data))
                                /\ array' = WriteBytes(array, data)
                                /\ Void
\* writeStringF16, F32, F64, Vint: the length, then the text
WriteString == \E data \in Data :
                 /\ Bounded(Len(data) + 1)
                 /\ array' = WriteBytes(WriteBytes(array, <<Len(data)>>), data)
                 /\ Void
\* writeUint32, writeUint64, and of Signed writeInt32, writeInt64
WriteNumber == \E v \in Unsigned \cup {Zigzag(s) : s \in Signed} :
                 /\ Bounded(Len(Varint[v]))
                 /\ array' = WriteBytes(array, Varint[v])
                 /\ Void
\* writeFint16 to writeFuint64, writeFloat, writeDouble
WriteFixed == \E v \in Unsigned :
                /\ Bounded(FixedSize)
                /\ array' = WriteBytes(array, Fixed(v, little))
                /\ Void

Throw(a) == array' = a /\ result' = <<"out_of_range">> /\ UNCHANGED crashed
\* m_cur->size is read before the number of bytes is looked at: the build,
\* which does not optimize (-O0), reads it even if no byte is wanted
Crash == crashed' = TRUE /\ UNCHANGED <<array, result>>
Read(a, n) ==
  \/ ReadThrows(a, n) /\ Throw(a)
  \/ ~ReadThrows(a, n) /\ Null(a) /\ Crash
  \/ /\ ~ReadThrows(a, n) /\ ~Null(a)
     /\ array' = ReadBytes(a, n) /\ result' = <<"text", Fetch(a, n)>> /\ UNCHANGED crashed
ReadData == \E n \in 0..BaseSize + 1 : Read(array, n)
\* the next n bytes as the reader may see them
Seen(n) ==
  LET next == Fetch(array, n)
      junk == {i \in 1..n : next[i] = Junk}
  IN {[i \in 1..n |-> IF i \in junk THEN guess[i] ELSE next[i]] : guess \in [junk -> Byte]}
Smaller(m, n) == IF m < n THEN m ELSE n
\* readUint32, readUint64, and, signed, readInt32, readInt64; an
\* exception leaves the position after the bytes already taken
ReadNumber(signed) ==
  \E seen \in Seen(Smaller(MaxGroups, ReadSize(array))) :
    LET n == Taken(seen)
        value == Decoded(SubSeq(seen, 1, n))
    IN IF n > Len(seen) THEN Throw(ReadBytes(array, Len(seen)))
       ELSE /\ array' = ReadBytes(array, n)
            /\ result' = <<"number", IF signed THEN Unzigzag(value) ELSE value>>
            /\ UNCHANGED crashed
ReadUnsigned == ReadNumber(FALSE)
ReadSigned == ReadNumber(TRUE)
\* readFint16 to readFuint64, readFloat, readDouble
ReadFixed ==
  IF ReadThrows(array, FixedSize) THEN Throw(array)
  ELSE \E seen \in Seen(FixedSize) :
         /\ array' = ReadBytes(array, FixedSize)
         /\ result' = <<"number", FixedValue(seen, little)>>
         /\ UNCHANGED crashed
\* readStringF16, F32, F64, Vint: an exception of the second read leaves the
\* position after the length
ReadString ==
  IF ReadThrows(array, 1) THEN Throw(array)
  ELSE \E seen \in Seen(1) : Read(ReadBytes(array, 1), seen[1])
Move == \E v \in 0..MaxSize :
          IF v > array.capacity THEN Throw(array)
          ELSE array' = SetPosition(array, v) /\ Void
ClearArray == array' = Clear(array) /\ Void
\* SocketStream::read and write of a ByteArray
Receive == \E data \in Data, want \in 1..BaseSize + 1 :
             /\ Bounded(want) /\ Len(data) <= want
             /\ array' = RecvInto(array, want, data)
             /\ Void
SendOut == \E n \in 1..ReadSize(array) :
             /\ array' = SendFrom(array, n)
             /\ result' = <<"text", Fetch(array, n)>>
             /\ UNCHANGED crashed

SetIsLittleEndian == /\ \E val \in BOOLEAN : little' = val
                     /\ Void /\ UNCHANGED array
ArraysNext ==
  /\ ~crashed
  /\ \/ /\ \/ WriteData \/ WriteString \/ WriteNumber \/ WriteFixed
           \/ ReadData \/ ReadString \/ ReadUnsigned \/ ReadSigned \/ ReadFixed
           \/ Move \/ ClearArray \/ Receive \/ SendOut
        /\ UNCHANGED little
     \/ SetIsLittleEndian
ArraysSpec == ArraysInit /\ [][ArraysNext]_arrayVars

(***************************************************************************)
(* The blocks are not seen: every sequence of writes, reads, moves and     *)
(* socket calls returns what the same calls return of one sequence of      *)
(* bytes; a number is read as it was written, wherever blocks end within   *)
(* it, and one of fixed size if it is read in the same order of bytes; an  *)
(* exception leaves the array as it is, but for the bytes that the call    *)
(* had taken before.  One call does not return: read() of no bytes, or a   *)
(* readString of an empty text, where the last block ends with what was    *)
(* read before, looks into a null m_cur (bytearray.cc 386) and crashes.    *)
(* Nothing else does: no call that has a byte to read or write ever meets  *)
(* a null m_cur.                                                           *)
(***************************************************************************)
SignedVarint(s) == Varint[Zigzag(s)]
NumberVarint(v) == Varint[v]
InFixedSize == {Value(s, 2 * Half) : s \in [1..FixedSize -> Byte]}
Flat == INSTANCE Bytes
  WITH Limit <- MaxSize, position <- array.position, out <- result,
       Texts <- Data \cup {<<Len(d)>> \o d : d \in Data} \cup {Varint[v] : v \in Unsigned},
       NumberText <- NumberVarint, SignedText <- SignedVarint,
       FixedNumbers <- InFixedSize, FixedText <- Fixed, bytes <- Content(array)
FlatSpec == Flat!BytesSpec

(***************************************************************************)
(* What the comments say of read and readString (bytearray.h 308-313,      *)
(* 355-360): they throw if there are too few bytes and read otherwise.     *)
(* TLC refutes it with the constants of Http.cfg: an empty text is written *)
(* whose length is the last byte of the last block, and is read back.      *)
(***************************************************************************)
NeverCrashes == ~crashed
=============================================================================
