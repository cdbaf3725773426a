SPECIFICATION RangingSpec
CONSTANTS
  REQUIRED_CONSECUTIVE_HITS = 2
  RELAY_PULSE_MS = 1
  ClockRange = 4
  Wraps = FALSE
  TIME_STEPS = 3
  MaxSessions = 1
  FaultSets = {{}}
PROPERTIES NoDecisionInWarmup
