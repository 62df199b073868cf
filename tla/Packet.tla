-------------------------------- MODULE Packet --------------------------------
(***************************************************************************)
(* Packets and frames: lib/packet/packet.cpp on the Teensy, src/packet.cpp *)
(* on the Pi.  A packet's header, payload and checksum are COBS-encoded    *)
(* and followed by the delimiter.                                          *)
(***************************************************************************)
EXTENDS Cobs

CONSTANTS
  MAX_PAYLOAD_SIZE,
  Crc(_)             \* the checksum of a byte string

ASSUME PayloadAssumption == MAX_PAYLOAD_SIZE \in Nat

HEADER_SIZE    == 2
CRC_SIZE       == 1
MAX_FRAME_SIZE == HEADER_SIZE + MAX_PAYLOAD_SIZE + CRC_SIZE

(* What the Teensy allots a frame: the encoded packet and its delimiter.     *)
MAX_ENCODED_SIZE == EncodedSize(MAX_PAYLOAD_SIZE + 3) + 1

EncodePacket(p) ==
  LET body == <<p.packet_id, p.device_id>> \o p.payload
  IN  EncodeCobs(Append(body, Crc(body))) \o <<0>>

NoPacket == [ok |-> FALSE]

(* decoded is what DecodeCobs made of a frame. *)
ParsePacket(decoded) ==
  LET size == Len(decoded.data) - CRC_SIZE
      body == SubSeq(decoded.data, 1, size)
  IN  IF decoded.ok /\ size >= HEADER_SIZE /\ decoded.data[size + 1] = Crc(body)
      THEN [ok |-> TRUE,
            packet |-> [packet_id |-> body[1], device_id |-> body[2],
                        payload |-> SubSeq(body, HEADER_SIZE + 1, size)]]
      ELSE NoPacket

(* The Pi's decode_packet: a frame of any size. *)
DecodePacket(frame) == ParsePacket(DecodeCobs(frame))

(* The Teensy's decode: into a buffer of MAX_FRAME_SIZE. *)
Decode(frame) ==
  LET decoded == DecodeCobs(frame)
  IN  IF Len(decoded.data) <= MAX_FRAME_SIZE THEN ParsePacket(decoded) ELSE NoPacket
===============================================================================
