SPECIFICATION UwbFairSpec
CONSTANTS
  Oobs = {1, 2}
  MaxStarts = 2
  MaxLosses = 3
  FaultSets <- CheckedFaultSets
INVARIANTS HostKnowsChip SessionOfOneOob OneLossTolerated
PROPERTIES BusyEnds
CHECK_DEADLOCK FALSE
