\* Three commands, two hub resets, two failing I2C operations, in any order.
SPECIFICATION Spec
CONSTANTS
  MaxFaults = 2
  MaxHubResets = 2
  MaxCommands = 3
INVARIANTS
  TypeOK
  HubMatchesMask
  CommandOutcome
PROPERTIES
  OnlyCommandsChangeCalibrating
  ResetRecovered
CHECK_DEADLOCK FALSE
