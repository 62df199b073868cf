--------------------------- MODULE MCTelemetryStream ---------------------------
(***************************************************************************)
(* The telemetry stream with real bytes and the real checksum: a command   *)
(* response and a calibration status.  What the checksum finds depends on  *)
(* the bytes: a status that begins "a, g, 0, 0" with no other zero is one  *)
(* of the packets that a single changed byte turns into another of the     *)
(* same size and checksum (02 01 a g 00 00 .. into 02 01 a g 01 07 ..).    *)
(***************************************************************************)
EXTENDS TelemetryStream, Crc8

CAL_STATUS       == 2
COMMAND_RESPONSE == 17

CallbackIds   == {CAL_STATUS, COMMAND_RESPONSE}
CallbackSizes == (CAL_STATUS :> 9 @@ COMMAND_RESPONSE :> 3)

PacketOf(id, payload) == [packet_id |-> id, device_id |-> 1, payload |-> payload]

(* The packets that the instance's claims are about. *)
SamplePackets == {PacketOf(COMMAND_RESPONSE, <<1, 176, 0>>),
                  PacketOf(CAL_STATUS, <<3, 2, 0, 3, 7, 0, 0, 128, 63>>)}
===============================================================================
