SPECIFICATION MiningSpec
CONSTANTS
  rig = rig
  Miners = {c1, c2}
  Owner <- MCOwner
  ExtranonceSub = {c1}
  RecentMax = 2
  KickAt = 2
  RejectPct = 50
  RejectMin = 2
  AlertAt = 3
  MaxJobs = 4
  MaxSubmits = 2
  MaxSessions = 2
  MinDiff = 1
  MaxDiff = 4
  Start = 2
  Fixes = {6}
  Burst = 2
  MaxWire = 2
  MaxChanges = 1
  Chains <- MCChains
  Observations <- MCObservations
  Ticks <- MCTicks
  Horizon = 5
  RingCap = 5
  TrendOver = 3
  TrendRise = 2
  WarnC = 2
  CritC = 3
  MaxTicks = 4
  Children <- MCChildren
  Parent = "LTC"
  CoinLoop <- MCCoinLoop
  MaxWorks = 2
  MaxParents = 2
  MaxSolves = 2
  Templates <- MCTemplates
  RollMask = {13, 14, 15, 16, 17, 18, 19, 20, 21, 22, 23, 24, 25, 26, 27, 28}
  RollSets <- MCRolls
  HashesMined = {0, 1, 2, 4}
  Hashes20 <- MCHashes20
  Hashes32 <- MCHashes32
  QuaiConns = {q1, q2}
  MaxTemplates = 2
  MaxAged = 1
INVARIANTS
  TypesOK
  NewestKept
  StreaksAreEarned
  MinerIsTold
  AlarmsAreRaised
  ProofsAreCommitted
  BlocksArriveWhole
  ProofsVerify
  RewardIsPaidToTheWallet
  StaleIsOld
  NobodyIsSkipped
CHECK_DEADLOCK FALSE
