--------------------------------- MODULE Crc8 ---------------------------------
(***************************************************************************)
(* The checksum of a packet: lib/packet/crc.cpp on the Teensy, src/crc.cpp *)
(* on the Pi (the same loop).                                              *)
(***************************************************************************)
EXTENDS Integers, Sequences, SequencesExt, Bitwise

(* One of the eight shifts, by x^8 + x^2 + x + 1. *)
ShiftBit(crc) == IF crc >= 128 THEN ((2 * crc) % 256) ^^ 7 ELSE 2 * crc

(* The eight shifts of every byte.                                            *)
Shifted == [crc \in 0 .. 255 |->
              LET shift[n \in 0 .. 8] == IF n = 0 THEN crc ELSE ShiftBit(shift[n - 1])
              IN  shift[8]]

(* Exclusive or of two bytes, tabulated. *)
ByteXor == [a \in 0 .. 255 |-> [b \in 0 .. 255 |-> a ^^ b]]

UpdateCrc(crc, byte) == Shifted[ByteXor[crc][byte]]

CalculateCrc(data) == FoldLeft(UpdateCrc, 0, data)
===============================================================================
