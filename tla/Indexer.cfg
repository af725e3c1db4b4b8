SPECIFICATION FairSpec
CONSTANTS
  NumDelegates = 1
  NumSubEpochs = 2
  NumSubEpochsDardanelles = 3
  DardanellesHeight = 3
  FairbankHeight = 3
  MaxHeight = 7
  RangeQueryLimit = 2
  Env = {"error", "crash"}
INVARIANT IndexDetermined
INVARIANT TrackerIsTip
INVARIANT MapsNeverStale
PROPERTY ImplementsChainIndex
