SPECIFICATION FairSpec
CONSTANTS
  h1 = h1  c1 = c1  c2 = c2  r1 = r1  r2 = r2
  Hosts = {h1}
  Conns = {c1}
  HostOf <- OneHost
  Rotations = {r1, r2}
  FirstSecret = first
  None = None
  MaxFaults = 1
INVARIANTS TypeOK UndisturbedDatabaseFollowsMemory UndisturbedTokensAccepted
PROPERTY OldTokenIsReplaced
CHECK_DEADLOCK FALSE
