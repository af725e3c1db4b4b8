SPECIFICATION Spec
CONSTANTS
  NumDelegates = 1
  NumSubEpochs = 2
  NumSubEpochsDardanelles = 3
  DardanellesHeight = 3
  FairbankHeight = 3
  MaxHeight = 6
  RangeQueryLimit = 2
  Env = {"error", "crash", "panic", "commit", "short", "readonly", "txlog"}
INVARIANT RowsAgree
INVARIANT TrackerNotBehind
INVARIANT LostEpochStopsIndex
