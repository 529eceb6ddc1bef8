SPECIFICATION MergeSpec
CONSTANTS
  Children <- MCChildren
  Parent = "LTC"
  CoinLoop <- MCCoinLoop
  MaxWorks = 2
  MaxParents = 2
  MaxSolves = 2
INVARIANTS
  AcceptedBlocksAreProved
CHECK_DEADLOCK FALSE
