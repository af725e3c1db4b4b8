SPECIFICATION Spec
CONSTANTS
  Addresses = {"a", "b"}
  Contracts = {"token", "nft", "wallet"}
  Implements <- MCImplements
  Blocks <- MCBlocks
  MaxHeight = 3
INVARIANT EveryTransferRecorded
CHECK_DEADLOCK FALSE
