SPECIFICATION NfcFairSpec
CONSTANTS
  alice = alice
  bob = bob
  NoPhone = NoPhone
  Phones = {alice, bob}
  Holders = {alice}
  Rounds = 2
  Passes = 2
  MaxReselections = 2
  MaxLosses = 1
  MaxArmings = 1
INVARIANTS NfcTypeOK OneReplacementPerArming BothSidesAgree OneLossIsSurvived
PROPERTIES OwnerHasSigned WillingPhoneEnrolled
