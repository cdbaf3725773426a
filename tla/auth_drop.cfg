SPECIFICATION AuthSpec
CONSTANTS
  MaxLinks = 2
  Environments = {{"dropMidWork", "slowOnly"}}
INVARIANTS IdleWithoutLink
CHECK_DEADLOCK FALSE
