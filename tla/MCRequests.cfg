SPECIFICATION Spec
CONSTANTS
  NumDelegates = 1
  NumSubEpochs = 2
  NumSubEpochsDardanelles = 2
  DardanellesHeight = 1
  FairbankHeight = 1
  MaxHeight = 3
  MaxViews = 2
  Nobody = Nobody
  ZeroAddress = ZeroAddress
  NoBucket = NoBucket
  NoToken = NoToken
  Hermes = Hermes
  MultiSend = {"multisend"}
  TotalBalance = 100
  LockAddress = LockAddress
  AvailableBalance = 5
  None = None
  Broken = Broken
  Odd = Odd
  Malformed = {bad}
  a1 = a1
  a2 = a2
  a3 = a3
  tok = tok
  del1 = del1
  del2 = del2
  bad = bad
  v1 = v1
  v2 = v2
  Some = Some
  Absent = Absent
  Length = 2
  Forms <- MCForms
  Candidates <- MCCandidates
  Genesis <- MCGenesis
  Buckets <- MCBuckets
INVARIANT AnswersTellOfTheChain
INVARIANT CountCoversPage
INVARIANT PagesLeaveNoGap
INVARIANT FieldsWritten
INVARIANT IncomeAgrees
INVARIANT PaymentsCountedOnce
INVARIANT ArgumentsHeeded
