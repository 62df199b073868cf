\* A buffer of one command, two faulty bytes, three commands.
SPECIFICATION CommandSpec
CONSTANTS
  Crc <- CalculateCrc
  Full = 255
  MAX_PAYLOAD_SIZE = 3
  COMMAND = 16
  IMU_01 = 1
  CommandId = {1, 3}
  FirstSeq = {0, 175}
  Noise = {0, 1, 2, 8, 255}
  MaxSent = 3
  MaxFaults = 2
  LineCap = 0
INVARIANTS
  CommandTypeOK
  CommandsResynchronize
PROPERTIES
  CommandsImplementFrameStream
\* everything is sent and read
CHECK_DEADLOCK FALSE
