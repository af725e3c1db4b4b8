SPECIFICATION Spec
CONSTANTS
  NumDelegates = 1
  NumSubEpochs = 2
  NumSubEpochsDardanelles = 2
  DardanellesHeight = 1
  FairbankHeight = 1
  Delegates = {"d1", "d2"}
  Values = {0, 1, 2}
  HasContract = TRUE
  DeployHeight = 1
  ToBlockIncluded = TRUE
  MaxHeight = 9
  MaxUpdates = 2
  MaxChanges = 2
INVARIANT LatestPortion
CHECK_DEADLOCK FALSE
