CONSTANTS
  Reqs = {r1, r2}
  Names = {root, g1, g2}
  Admin = root
  Addrs = {a1}
  UserLimit = 2
  IpLimit = 2
  Window = 2
  MaxKeys = 1
  TotpLimit = 3
  TotpWindow = 2
  Timeouts = {1, 2}
  MaxTime = 3
  MaxRequests = 3
  MaxSecrets = 2
  MaxRestarts = 1
SPECIFICATION FairSpec
INVARIANT NoReplay
PROPERTY ExpiredSwept
CHECK_DEADLOCK FALSE
