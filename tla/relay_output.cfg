SPECIFICATION Spec
CONSTANTS
  None = None
  h1 = h1
  h2 = h2
  Hosts <- MCHosts
  HostOf <- MCHostOf
  OnSecond = {}
  Conns = {c1}
  Reqs = {r1, r2}
  Closers = {}
  Tasks = {r1, r2}
  TaskOf <- FreshIds
  Verdicts = {"ran", "refused", "failed"}
  StdoutMax = 1
  MaxChunks = 2
SYMMETRY Permuted
INVARIANT AnswerIsOwn
PROPERTY KeepsPromise
