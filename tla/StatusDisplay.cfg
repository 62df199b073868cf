\* The real limits, in half seconds, a draw() that blocks for longer than the
\* period, and subscriptions that keep the last two messages.
SPECIFICATION Spec
CONSTANTS
  Topics = {"mavlink"}
  StaleAfter = 10
  Period = 2
  Depth = 2
  MaxDraw = 3
INVARIANTS
  TypeOK
  CurrentIsRecent
  ScreenFollows
CHECK_DEADLOCK FALSE
