CONSTANTS
  LTC = LTC
  alice = alice
  bob = bob
  g1 = g1
  Coins = {LTC}
  Workers = {alice, bob}
  Diffs = {1}
  WindowSize = 2
  Rewards = {3}
  FeePct = 10
  MinPayout <- MCMinPayout
  RpcCoins = {LTC}
  Payable = {alice}
  MaxPayoutLog = 2
  Goroutines = {g1}
  MaxEarned = 3
  MaxFaults = 1
SPECIFICATION Spec
INVARIANT NothingInvented
INVARIANT ClaimsAreReal
INVARIANT CreditsFitReward
INVARIANT ExactWhileFaultless
