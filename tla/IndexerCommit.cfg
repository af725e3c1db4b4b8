SPECIFICATION Spec
CONSTANTS
  NumDelegates = 1
  NumSubEpochs = 2
  NumSubEpochsDardanelles = 3
  DardanellesHeight = 3
  FairbankHeight = 3
  MaxHeight = 4
  RangeQueryLimit = 2
  Env = {"commit"}
INVARIANT TrackerNotAhead
