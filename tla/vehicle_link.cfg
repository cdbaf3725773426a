SPECIFICATION VehicleFairSpec
CONSTANTS
  MaxLinks = 2
  Environments = {{"promptPhone", "serialClear"}, {"dropMidWork"}}
  EVENT_QUEUE_SIZE = 4
INVARIANTS SecureMeansVerified
PROPERTIES ClosesWithTheLinks FirstUnlockServed
