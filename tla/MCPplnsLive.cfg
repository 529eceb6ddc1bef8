CONSTANTS
  LTC = LTC
  alice = alice
  bob = bob
  g1 = g1
  Coins = {LTC}
  Workers = {alice, bob}
  Diffs = {1}
  WindowSize = 1
  Rewards = {1}
  FeePct = 10
  MinPayout <- MCMinPayout
  RpcCoins = {LTC}
  Payable = {alice}
  MaxPayoutLog = 1
  Goroutines = {g1}
  MaxEarned = 1
  MaxFaults = 1
SPECIFICATION FairSpec
PROPERTY DueGetsPaid
