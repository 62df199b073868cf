\* One failing operation is enough for STOP to leave the hub calibrating.
SPECIFICATION Spec
CONSTANTS
  MaxFaults = 1
  MaxHubResets = 0
  MaxCommands = 2
INVARIANTS
  StopStopsCalibration
CHECK_DEADLOCK FALSE
