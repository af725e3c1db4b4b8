SPECIFICATION Spec
CONSTANTS
  NumDelegates = 1
  NumSubEpochs = 2
  NumSubEpochsDardanelles = 2
  DardanellesHeight = 1
  FairbankHeight = 1
  Conns = {c1, c2, c3}
  Readers = {r1}
  None = None
  Error = Error
  MaxHeight = 3
  MaxLost = 2
  MaxFaults = 1
INVARIANT NothingLeaks
INVARIANT ClosedEpochsCounted
PROPERTY LastConnectionHangs
PROPERTY BlocksIndexed
PROPERTY RequestsAnswered
PROPERTY ImplementsViews
CHECK_DEADLOCK FALSE
