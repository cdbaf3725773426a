SPECIFICATION ServerFairSpec
CONSTANTS
  MaxLinks = 2
  Environments = {{}, {"promptPhone", "adminReset"}, {"overlap"}, {"noSignature", "bondingEnforce"}, {"slowOnly"}}
  FAST_WINDOW = 2
INVARIANTS ServerTypeOK AcceptedMeansVerified BothHoldTheKeys KeysOfThisLink Discoverable WindowBounded TrustedVerdict
PROPERTIES OwnerGetsThrough
CHECK_DEADLOCK FALSE
