CONSTANTS
  Reqs = {r1, r2}
  Names = {root}
  Admin = root
  Addrs = {a1}
  UserLimit = 3
  IpLimit = 3
  Window = 2
  MaxKeys = 2
  TotpLimit = 3
  TotpWindow = 2
  Timeouts = {1}
  MaxTime = 2
  MaxRequests = 2
  MaxSecrets = 1
  MaxRestarts = 0
SPECIFICATION FairSpec
INVARIANTS SingleUse
CHECK_DEADLOCK FALSE
