SPECIFICATION SwapFairSpec
CONSTANTS
  Coins = {"dgb"}
  BTC = "btc"
  Dest <- MCDest
  MinBalance = 1
  KeepBalance = 0
  Xeggex = TRUE
  MaxHistory = 1
  MaxMined = 1
  MaxJobs = 2
  MaxFaults = 1
  MaxCrashes = 1
INVARIANTS
  SentIsRecorded
PROPERTY
  JobsEnd
