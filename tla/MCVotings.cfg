SPECIFICATION VotingsSpec
CONSTANTS
  MaxBuckets = 3
  Candidates = {"c1", "c2"}
  Voters = {"v1"}
  Operators = {"o1", "o2"}
  Amounts = {5, 7}
  Locked = {7}
  BonusNum = 3
  BonusDen = 2
  RateNum = 3
  RateDen = 10
  MaxEpoch = 4
  MaxOps = 4
  VoteThreshold = 6
  ScoreThreshold = 7
  SelfStakingThreshold = 7
  SelfVoter <- MCSelfVoter
  LockEnd = 5
  FirstOperators <- MCFirstOperators
  FirstBallots <- MCFirstBallots
  MaxGravity = 3
  MaxGravityOps = 2
INVARIANT ArchiveExact
INVARIANT VotesAgree
INVARIANT VotersWithinTotal
INVARIANT NewVersionListed
INVARIANT GravityVotesAgree
INVARIANT VotingQueriesAgree
CHECK_DEADLOCK FALSE
