---------------------------- MODULE MCCommandStream ----------------------------
(***************************************************************************)
(* The command stream with real bytes and the real checksum: with a buffer *)
(* that two joined frames overflow, or with the real sizes and every value *)
(* of a faulty byte.                                                       *)
(***************************************************************************)
EXTENDS CommandStream, Crc8

AnyByte == 0 .. 255
===============================================================================
