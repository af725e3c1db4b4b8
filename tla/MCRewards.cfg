SPECIFICATION Spec
CONSTANTS
  Voters = {"v1", "v2"}
  BasisPoints <- MCBasisPoints
  Addresses = {"a", "b"}
  Nil = Nil
  Snapshots <- MCSnapshots
  ActiveBlockProducers <- MCProducers
  BlockReward = 1
  MaxShortfalls = 1
  EpochGrants <- MCEpochGrants
  ExemptCandidatesFromEpochReward = {"d2"}
  NumDelegatesForEpochReward = 2
  NumDelegatesForFoundationBonus = 1
  ProductivityThreshold = 50
  BlocksPerEpoch = 2
  MaxEpoch = 3
INVARIANT SharesAddUp
INVARIANT OnlyTopEarn
INVARIANT HistoryAgrees
INVARIANT EpochsClose
INVARIANT HermesWithinPlan
INVARIANT HermesAccountsForAll
INVARIANT SourcesAgree
INVARIANT BookkeepingAgrees
CHECK_DEADLOCK FALSE
