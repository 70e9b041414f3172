SPECIFICATION Spec
CONSTANTS
  h1 = h1  c1 = c1  c2 = c2  r1 = r1  r2 = r2
  Hosts = {h1}
  Conns = {c1, c2}
  HostOf <- OneHost
  Rotations = {r1}
  FirstSecret = first
  None = None
  MaxFaults = 1
INVARIANT PromisedTokensAccepted
CHECK_DEADLOCK FALSE
