SPECIFICATION Spec
CONSTANTS
  MaxBuckets = 3
  Candidates = {"c1"}
  Voters = {"v1", "v2"}
  Operators = {"o1"}
  Amounts = {5}
  Locked = {}
  BonusNum = 3
  BonusDen = 2
  RateNum = 3
  RateDen = 10
  MaxEpoch = 5
  MaxOps = 4
INVARIANT VotersBucketsListed
CHECK_DEADLOCK FALSE
