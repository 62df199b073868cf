--------------------------------- MODULE Cobs ---------------------------------
(***************************************************************************)
(* Consistent Overhead Byte Stuffing, as both ends of the serial line      *)
(* implement it: lib/packet/cobs.cpp on the Teensy, src/cobs.cpp on the    *)
(* Pi.  A frame is a sequence of blocks, each a code byte and code - 1     *)
(* bytes of data; a code below Full also stands for the zero that ended    *)
(* the block.  The encoded data contains no zero: that is the delimiter.   *)
(***************************************************************************)
EXTENDS Integers, Sequences, SequencesExt

CONSTANT Full   \* the code byte of a full block, and the largest byte: 0xFF

ASSUME FullAssumption == Full \in Nat /\ Full >= 2

Byte == 0 .. Full

(* Write the code byte of the current block and leave room for the next.     *)
NewBlock(s) == [out        |-> Append([s.out EXCEPT ![s.code_index] = s.code], 0),
                code_index |-> Len(s.out) + 1,
                code       |-> 1]

(* Mutant of EncodeByte: a block is closed one byte early. *)
EncodeByteEarly(s, byte) ==
  IF byte = 0 THEN NewBlock(s)
  ELSE LET t == [s EXCEPT !.out = Append(@, byte), !.code = @ + 1]
       IN  IF t.code = Full - 1 THEN NewBlock(t) ELSE t

EncodeByte(s, byte) ==
  IF byte = 0 THEN NewBlock(s)
  ELSE LET t == [s EXCEPT !.out = Append(@, byte), !.code = @ + 1]
       IN  IF t.code = Full THEN NewBlock(t) ELSE t

EncodeCobs(data) ==
  LET s == FoldLeft(EncodeByte, [out |-> <<0>>, code_index |-> 1, code |-> 1], data)
  IN  [s.out EXCEPT ![s.code_index] = s.code]

(* The room for the encoded data: the Pi allocates it, the Teensy asks for it. *)
EncodedSize(size) == size + size \div (Full - 1) + 1

Malformed     == [ok |-> FALSE, data |-> <<>>]
Decoded(data) == [ok |-> TRUE, data |-> data]

(* The zero a block stands for: none after a full block, nor after the last.  *)
BlockEnd(code, last) == IF code # Full /\ ~last THEN <<0>> ELSE <<>>

(* Mutant of DecodeCobs: a full block is followed by a zero too. *)
DecodeCobsZeroAlways(frame) ==
  LET blocks[i \in 1 .. Len(frame) + 1] ==
        LET next == i + frame[i] IN
        IF i > Len(frame) THEN Decoded(<<>>)
        ELSE IF frame[i] = 0 \/ next > Len(frame) + 1 \/ ~blocks[next].ok THEN Malformed
        ELSE Decoded(SubSeq(frame, i + 1, next - 1)
                     \o (IF next <= Len(frame) THEN <<0>> ELSE <<>>)
                     \o blocks[next].data)
  IN  blocks[1]

(* The data in the blocks from the i-th byte on.                              *)
DecodeCobs(frame) ==
  LET blocks[i \in 1 .. Len(frame) + 1] ==
        LET next == i + frame[i] IN
        IF i > Len(frame) THEN Decoded(<<>>)
        ELSE IF frame[i] = 0 \/ next > Len(frame) + 1 \/ ~blocks[next].ok THEN Malformed
        ELSE Decoded(SubSeq(frame, i + 1, next - 1)
                     \o BlockEnd(frame[i], next > Len(frame))
                     \o blocks[next].data)
  IN  blocks[1]
===============================================================================
