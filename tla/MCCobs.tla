-------------------------------- MODULE MCCobs --------------------------------
(***************************************************************************)
(* Every byte string up to MaxLen, with blocks short enough that strings   *)
(* of several full blocks are among them.                                  *)
(***************************************************************************)
EXTENDS Cobs

CONSTANT MaxLen   \* bound: the longest string

VARIABLE data

StringInit == data = <<>>
StringNext == \E byte \in Byte : Len(data) < MaxLen /\ data' = Append(data, byte)
StringSpec == StringInit /\ [][StringNext]_data

(* cobs.cpp:6 and :40 on the Teensy, :35 and :8 on the Pi: what one end       *)
(* encodes the other decodes, whatever the data and wherever its zeros and    *)
(* its full blocks fall, and the encoding never contains the delimiter.       *)
RoundTrip ==
  LET frame == EncodeCobs(data)
  IN  (\A i \in 1 .. Len(frame) : frame[i] \in Byte \ {0}) /\ DecodeCobs(frame) = Decoded(data)

(* cobs.cpp:8 on the Teensy, :37 on the Pi: the encoder writes within the     *)
(* room it asked for, also when the data ends with a full block.              *)
EncodedFits == Len(EncodeCobs(data)) <= EncodedSize(Len(data))
===============================================================================
