SPECIFICATION FsmFairSpec
CONSTANTS
  EVENT_QUEUE_SIZE = 2
  Raised <- Events
  ResetMidEvent = FALSE
INVARIANTS FsmTypeOK SessionBacked
PROPERTIES KeyFlagCatchesUp
