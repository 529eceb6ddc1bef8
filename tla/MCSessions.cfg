SPECIFICATION FairSpec
CONSTANTS
  Conns = {c1, c2, c3}
  Names = {n1, n2}
  NoName = none
  Ips = {i1}
  IpOf <- MCIpOf
  MaxConnections = 2
  MaxConnsPerIP = 2
  SeenCap = 1
  Again = FALSE
  MaxShares = 1
  MaxSessions = 3
INVARIANTS
  SlotsAreReturned
  CountsAuthorized
  OnlineIsConnected
  TotalsAddUp
PROPERTY
  OfflineIsReported
