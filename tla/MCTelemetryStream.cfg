\* Reads of one, three or many bytes, over two packets on the line.  The faulty
\* values are the codes of every block a frame of these packets can hold, the
\* delimiter and the code of a full block.
SPECIFICATION TelemetrySpec
CONSTANTS
  PacketId <- CallbackIds
  PayloadSize <- CallbackSizes
  Samples <- SamplePackets
  Crc <- CalculateCrc
  Full = 255
  MAX_PAYLOAD_SIZE = 64
  Noise = {0, 1, 2, 3, 4, 5, 6, 7, 8, 9, 10, 11, 12, 13, 14, 255}
  MaxSent = 3
  MaxFaults = 1
  LineCap = 10
  ChunkSizes = {1, 3, 20}
INVARIANTS
  TelemetryTypeOK
  OnlySentPackets
  TelemetryResynchronizes
PROPERTIES
  TelemetryImplementsFrameStream
\* everything is sent and read
CHECK_DEADLOCK FALSE
