------------------------------- MODULE Bytes --------------------------------
(***************************************************************************)
(* What a ByteArray promises: one sequence of bytes and a position in it,  *)
(* with no blocks.  out is what the last call returned, and crashed says   *)
(* that it did not return.                                                 *)
(***************************************************************************)
EXTENDS Integers, Sequences, SequencesExt

\* Texts are the sequences that a call may write, NumberText(v), SignedText(v)
\* and FixedText(v, little) the bytes of a number
CONSTANTS Byte, Limit, Junk, Texts, Unsigned, Signed, NumberText(_), SignedText(_),
          FixedNumbers, FixedText(_, _)
VARIABLES bytes, position, little, out, crashed
bytesVars == <<bytes, position, little, out, crashed>>

Rest == SubSeq(bytes, position + 1, Len(bytes))
Larger(m, n) == IF m > n THEN m ELSE n
Overlay(data) ==
  [i \in 1..Larger(Len(bytes), position + Len(data)) |->
     IF i \in (position + 1)..(position + Len(data)) THEN data[i - position] ELSE bytes[i]]

BytesInit == bytes = <<>> /\ position = 0 /\ little = FALSE /\ out = <<>> /\ crashed = FALSE
Put == /\ out' = <<>>
       /\ \E data \in Texts \cup {FixedText(v, little) : v \in Unsigned} :
            /\ position' = position + Len(data)
            /\ bytes' = Overlay(data)
Take == /\ UNCHANGED bytes
        /\ \E n \in 0..Len(Rest) : /\ position' = position + n
                                   /\ out' = <<"text", SubSeq(Rest, 1, n)>>
\* a number that was written is read as it was written; of other bytes the
\* reader may make any number, or run out of them
TakeNumber(Values, Text(_)) ==
  LET written == {v \in Values : IsPrefix(Text(v), Rest)}
  IN /\ UNCHANGED bytes
     /\ out' \in {<<"number", v>> : v \in Values} \cup {<<"out_of_range">>}
     /\ IF written # {} THEN \E v \in written : /\ out' = <<"number", v>>
                                                /\ position' = position + Len(Text(v))
        ELSE position' \in position..Len(bytes)
\* a length, and as many bytes; without them, only the length is taken
TakeText == /\ Rest # <<>>
            /\ \E n \in IF Rest[1] = Junk THEN Byte ELSE {Rest[1]} :
                 IF n < Len(Rest) THEN /\ out' = <<"text", SubSeq(Rest, 2, n + 1)>>
                                       /\ position' = position + 1 + n
                 ELSE out' = <<"out_of_range">> /\ position' = position + 1
            /\ UNCHANGED bytes
Refuse == out' = <<"out_of_range">> /\ UNCHANGED <<bytes, position>>
\* what lies beyond the bytes written is not said
Seek == /\ out' = <<>>
        /\ \E v \in 0..Limit : position' = v /\ Len(bytes') = Larger(Len(bytes), v)
        /\ IsPrefix(bytes, bytes')
Empty == bytes' = <<>> /\ position' = 0 /\ out' = <<>>
Ordered(v) == FixedText(v, little)
Turn == little' \in BOOLEAN /\ out' = <<>> /\ UNCHANGED <<bytes, position>>
\* The only way to crash: to read no bytes where none is left, or a text
\* that is empty (its length may be junk) and of which only the length is left
TakeNothing == /\ Rest = <<>> \/ (Len(Rest) = 1 /\ Rest[1] \in {0, Junk})
               /\ crashed' = TRUE /\ UNCHANGED <<bytes, position, little, out>>
BytesNext ==
  /\ ~crashed
  /\ \/ /\ \/ Put \/ Take \/ TakeText \/ Refuse \/ Seek \/ Empty
           \/ TakeNumber(Unsigned, NumberText) \/ TakeNumber(Signed, SignedText)
           \/ TakeNumber(FixedNumbers, Ordered)
        /\ UNCHANGED <<little, crashed>>
     \/ Turn /\ UNCHANGED crashed
     \/ TakeNothing
BytesSpec == BytesInit /\ [][BytesNext]_bytesVars
=============================================================================
