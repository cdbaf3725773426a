SPECIFICATION QueueFairSpec
CONSTANTS
  EVENT_QUEUE_SIZE = 3
  ble = ble
  worker = worker
  Callers = {ble, worker}
  MaxEvents = 5
  Clears = TRUE
  Overlap = {}
INVARIANTS QueueTypeOK NeverWraps
PROPERTIES FifoPromise
CHECK_DEADLOCK FALSE
