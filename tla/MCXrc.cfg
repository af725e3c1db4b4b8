SPECIFICATION Spec
CONSTANTS
  Addresses = {"a", "b"}
  Contracts = {"token", "nft", "wallet"}
  Implements <- MCImplements
  Blocks <- MCBlocks
  MaxHeight = 3
INVARIANT LaterReceiptsRecorded
INVARIANT OnlyTokensIndexed
INVARIANT HoldersOfHistory
INVARIANT OddBlockStopsIndex
CHECK_DEADLOCK FALSE
