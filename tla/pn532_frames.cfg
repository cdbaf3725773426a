SPECIFICATION LinkSpec
CONSTANTS
  SamTries = 2
  MaxCommands = 5
  MaxLineLosses = 1
INVARIANTS StaleNeedsMissedAck
CHECK_DEADLOCK FALSE
