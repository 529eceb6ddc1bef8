SPECIFICATION Spec
CONSTANTS
  Conns = {c1, c2}
  Names = {n1, n2}
  NoName = none
  Ips = {i1}
  IpOf <- MCIpOf
  MaxConnections = 2
  MaxConnsPerIP = 2
  SeenCap = 1
  Again = TRUE
  MaxShares = 1
  MaxSessions = 3
INVARIANT
  CountsAuthorized
