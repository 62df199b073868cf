\* The comment's claim for every response, those of an earlier session included,
\* of one process of the node: only a cleanup ends a session.
SPECIFICATION SurvivingSpec
CONSTANTS
  SeqMod = 3
  Retries = 1
  LinkCap = 2
  MaxLag = 2
  MaxCalls = 2
  MaxBoots = 0
  MaxSessions = 2
CHECK_DEADLOCK FALSE
INVARIANTS
  StaleResponseDiscarded
