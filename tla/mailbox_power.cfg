SPECIFICATION MailboxSpec
CONSTANTS
  alice = alice
  bob = bob
  Owners = {alice, bob}
  LegacyFlash = TRUE
  MaxCrashes = 1
  Overlap = FALSE
INVARIANTS MailboxTypeOK OwnerKnowsVehicle RebootChangesNothing TokenOfOwner
PROPERTIES OwnerAtomic
