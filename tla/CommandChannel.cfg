\* Two calls of two attempts each, a third sequence number left over, a restart
\* of the Teensy and a second session.
SPECIFICATION Spec
CONSTANTS
  SeqMod = 3
  Retries = 2
  LinkCap = 2
  MaxLag = 2
  MaxCalls = 2
  MaxBoots = 1
  MaxSessions = 2
CHECK_DEADLOCK FALSE
INVARIANTS
  TypeOK
  AnswerIsCurrent
  NothingInFlightAfterReply
  ReplyMatchesFirmware
PROPERTIES
  CallReturns
  ImplementsCalibrationService
