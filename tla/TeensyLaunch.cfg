\* Enough transitions to configure, use, clean up and configure again.
SPECIFICATION LaunchSpec
CONSTANTS
  MaxTransitions = 8
  MaxBatch = 2
INVARIANTS
  LaunchTypeOK
  CallbacksFindTheirPublishers
  UnconfiguredIsClean
PROPERTIES
  CleanupReturns
  ComesUp
CHECK_DEADLOCK FALSE
