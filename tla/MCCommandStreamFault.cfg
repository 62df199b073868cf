\* The real sizes; one faulty byte with any value, in either of two commands.
SPECIFICATION CommandSpec
CONSTANTS
  Crc <- CalculateCrc
  Full = 255
  MAX_PAYLOAD_SIZE = 64
  COMMAND = 16
  IMU_01 = 1
  CommandId = {1, 2, 3}
  FirstSeq = {0, 127, 175, 254}
  Noise <- AnyByte
  MaxSent = 2
  MaxFaults = 1
  LineCap = 0
INVARIANTS
  OnlySentCommands
\* everything is sent and read
CHECK_DEADLOCK FALSE
