SPECIFICATION FailoverFairSpec
CONSTANTS
  Miners = {m1}
  ExtranonceSub = {}
  HasBackup = TRUE
  ProxyAfter = 0
  RestartAfter = 1
  Cooldown = 2
  MaxTip = 2
  MaxOutages = 3
PROPERTIES
  RestartsAreDue
  WorkComesHome
  PoolServes
