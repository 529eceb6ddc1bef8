SPECIFICATION RecordsSpec
CONSTANTS
  MaxBlocks = 2
  LogCap = 1
  BooksCap = 2
  MatureAt = 1
  TrackTo = 2
  GlobMatches = TRUE
  MaxSaves = 1
  MaxWrites = 2
  MaxReorgs = 1
  MaxRestarts = 1
  Grace = 1
  Windows <- MCWindows
  KeepFor = 6
  MaxEvents = 4
  UpEnd = 8
  MaxVisits = 3
  UpRestarts = 1
  Hour = 2
  Day = 4
  Week = 8
  Month = 16
  Minute = 1
  Five = 2
  Quarter = 4
  HashEnd = 18
  CompactEvery = 3
  MaxGaps = 1
  HashCrashes = 1
  Requests = {r1, r2}
  MaxEdits = 2
  MaxFailures = 1
  MaxHandEdits = 1
  Share = {s1, s2}
  NoShare = NoShare
  Sizes <- MCSizes
  Savers = {v1, v2}
  UnderLock = TRUE
  Staged = TRUE
  Inodes = {i1, i2, i3}
  NoInode = none
  MaxVersion = 3
  Size <- MCSize
  Coins = {"dgb", "btc"}
  BTC = "btc"
  Dest <- MCDest
  MinBalance = 1
  KeepBalance = 0
  Xeggex = FALSE
  MaxHistory = 2
  MaxMined = 1
  MaxJobs = 2
  MaxFaults = 0
  MaxCrashes = 1
INVARIANTS
  TypesOK
  BooksAddUp
  VerdictsReachTheBooks
  UptimeIsEarned
  HistoryIsBounded
  FileFollowsMemory
  ValidSlots
  NoResurrection
  OneActivePerCoin
  OrdersAreOwned
PROPERTIES
  ImplementsShareLog
  ImplementsAtomicSave
CHECK_DEADLOCK FALSE
