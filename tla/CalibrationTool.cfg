\* Two runs of the tool, one save in each, a second session of the node and a
\* restart of the Teensy.
SPECIFICATION ToolSpec
CONSTANTS
  MaxBoots = 1
  MaxRuns = 2
  MaxSaves = 1
  MaxSessions = 2
CHECK_DEADLOCK FALSE
INVARIANTS
  TypeOK
  StopMeansStopped
  StagesCalibrate
  SavedIsStarted
PROPERTIES
  CallEnds
