--------------------------- MODULE TelemetryStream ---------------------------
(***************************************************************************)
(* The Pi's end of the line the Teensy's packets come on: the read thread  *)
(* of Client (client.cpp), which reads pieces of any size, decode_packets  *)
(* (packet.cpp), and the size checks of the callbacks (driver.cpp).        *)
(***************************************************************************)
EXTENDS SerialLine

CONSTANTS
  PacketId,      \* the bytes of the packet ids that have callbacks
  PayloadSize,   \* the size that each callback expects
  Samples,       \* the packets the Teensy sends
  ChunkSizes     \* bound: the bytes one read returns, unless the line holds fewer

ASSUME ChunkAssumption == ChunkSizes \subseteq Nat \ {0}

(* encode (packet.cpp:22) refuses a payload that is larger. *)
ASSUME SampleAssumption ==
  /\ Samples \subseteq [packet_id : Byte, device_id : Byte, payload : Seq(Byte)]
  /\ \A p \in Samples : Len(p.payload) <= MAX_PAYLOAD_SIZE

VARIABLES
  accumulated_, \* the bytes read since the last delimiter
  accepted      \* history: the packets the callbacks have used

telemetryVars == <<lineVars, accumulated_, accepted>>

TelemetryTypeOK ==
  /\ line \in Seq(Byte) /\ last_byte \in Byte /\ faults \in 0 .. MaxFaults
  /\ accumulated_ \in Seq(Byte \ {0})

TelemetryInit ==
  /\ LineInit
  /\ accumulated_ = <<>> /\ accepted = <<>>

SendPacket ==
  /\ \E p \in Samples : Send(p)
  /\ UNCHANGED <<accumulated_, received, accepted>>

(* Mutant of TakeByte: a malformed frame is not passed over, nor its delimiter. *)
TakeByteKeepingFrame(s, byte) ==
  IF byte # 0 THEN [s EXCEPT !.rest = Append(@, byte)]
  ELSE IF DecodePacket(s.rest).ok
  THEN [rest |-> <<>>, packets |-> Append(s.packets, DecodePacket(s.rest).packet)]
  ELSE [s EXCEPT !.rest = Append(@, byte)]

(* A byte of the data that decode_packets goes through: at a delimiter the    *)
(* frame before it is decoded; an empty or malformed one is skipped.          *)
TakeByte(s, byte) ==
  IF byte # 0 THEN [s EXCEPT !.rest = Append(@, byte)]
  ELSE [s EXCEPT !.rest = <<>>,
                 !.packets = IF DecodePacket(s.rest).ok THEN Append(@, DecodePacket(s.rest).packet) ELSE @]

(* The packets in data, and what follows its last delimiter. *)
DecodePackets(data) ==
  FoldLeft(TakeByte, [rest |-> <<>>, packets |-> <<>>], data)

(* Mutant of IsExpected: the payload's size is not looked at. *)
IsExpectedOfAnySize(p) == p.packet_id \in PacketId

(* dispatch finds a callback, and the callback checks the size; whether the   *)
(* publishers are activated, which two of the callbacks look at first, is     *)
(* DriverLifecycle's.                                                         *)
IsExpected(p) == p.packet_id \in PacketId /\ Len(p.payload) = PayloadSize[p.packet_id]

Dispatch(used, p) == IF IsExpected(p) THEN Append(used, p) ELSE used

(* read_from_socket returns some of the bytes on the line, if there are any. *)
Chunks == {IF n < Len(line) THEN n ELSE Len(line) : n \in ChunkSizes} \ {0}

ReadChunk(n) ==
  /\ line' = SubSeq(line, n + 1, Len(line))
  /\ received' = received \o SubSeq(line, 1, n)
  /\ UNCHANGED <<sent, clean, last_byte, faults>>

(* Mutant of PollConnection: what follows the last delimiter is erased too. *)
PollConnectionErasesAll ==
  \E n \in Chunks :
    /\ ReadChunk(n)
    /\ LET decoded == DecodePackets(accumulated_ \o SubSeq(line, 1, n)) IN
       /\ accepted' = FoldLeft(Dispatch, accepted, decoded.packets)
       /\ accumulated_' = IF decoded.packets = <<>> THEN decoded.rest ELSE <<>>

(* One turn of poll_connection's loop. *)
PollConnection ==
  \E n \in Chunks :
    /\ ReadChunk(n)
    /\ LET decoded == DecodePackets(accumulated_ \o SubSeq(line, 1, n)) IN
       /\ accepted' = FoldLeft(Dispatch, accepted, decoded.packets)
       /\ accumulated_' = decoded.rest

TelemetryNext == SendPacket \/ PollConnection
TelemetrySpec == TelemetryInit /\ [][TelemetryNext]_telemetryVars

-------------------------------------------------------------------------------
(* Properties. *)

(* driver.cpp:57, 94 and 120: with at most one faulty byte in a frame, no     *)
(* callback uses a packet that was not sent.  A claim about the Samples and   *)
(* the Noise of an instance only: the size and an eight-bit checksum cannot   *)
(* tell every pair of packets apart (see MCTelemetryStream).                  *)
OnlySentPackets == ToSet(accepted) \subseteq ToSet(sent)

(* packet.cpp:65-66, "a malformed frame shouldn't stop the rest of the batch  *)
(* from being decoded - the stream resynchronizes on the next delimiter".     *)
TelemetryResynchronizes ==
  line = <<>> => SelectSeq(accepted, LAMBDA p : p \in ToSet(clean)) = SelectSeq(clean, IsExpected)

(* client.cpp:113-120: the packets do not depend on the pieces the bytes are  *)
(* read in, and no byte after the last delimiter is lost between two reads.   *)
TelemetryFrames == INSTANCE FrameStream WITH
  MaxFrame <- MaxSent * MAX_ENCODED_SIZE, Accepts <- IsExpected, delivered <- accepted
TelemetryImplementsFrameStream == TelemetryFrames!Spec
===============================================================================
