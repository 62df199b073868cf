\* A clock that wraps every eight ticks, against intervals of two and three.
SPECIFICATION Spec
CONSTANTS
  MillisMod = 8
  GyroStaleMs = 2
  CalStatusPeriod = 3
  ConfigureDelay = 2
  MaxIteration = 2
INVARIANTS
  TypeOK
  CalStatusInterval
PROPERTIES
  GyroIsFresh
  CalStatusFlows
