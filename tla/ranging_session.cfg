SPECIFICATION RangingFairSpec
CONSTANTS
  REQUIRED_CONSECUTIVE_HITS = 3
  RELAY_PULSE_MS = 2
  ClockRange = 6
  Wraps = FALSE
  TIME_STEPS = 3
  MaxSessions = 2
  FaultSets = {{"loss"}, {"saturation", "invoke"}}
INVARIANTS NoPulseOverdue PulseKept
PROPERTIES LatchPromise ConfidentOpening OpensOnlyInSession ReuseOfThisSession StopEndsSession
