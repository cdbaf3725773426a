SPECIFICATION QueueSpec
CONSTANTS
  EVENT_QUEUE_SIZE = 3
  ble = ble
  worker = worker
  Callers = {ble, worker}
  MaxEvents = 4
  Clears = FALSE
  Overlap = {"triggers"}
INVARIANTS AcceptedKept
CHECK_DEADLOCK FALSE
