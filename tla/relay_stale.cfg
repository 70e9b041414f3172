SPECIFICATION Spec
CONSTANTS
  None = None
  h1 = h1
  h2 = h2
  Hosts <- MCHosts
  HostOf <- MCHostOf
  OnSecond = {}
  Conns = {c1, c2}
  Reqs = {r1}
  Closers = {}
  Tasks = {r1}
  TaskOf <- FreshIds
  Verdicts = {"ran"}
  StdoutMax = 1
  MaxChunks = 0
INVARIANT LiveConnectionIsRegistered
