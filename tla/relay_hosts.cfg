SPECIFICATION SchedulerSpec
CONSTANTS
  None = None
  h1 = h1
  h2 = h2
  Hosts <- MCHosts
  HostOf <- MCHostOf
  OnSecond = {c2}
  Conns = {c1, c2}
  Reqs = {r1}
  Closers = {a1}
  Tasks = {r1}
  TaskOf <- FreshIds
  Verdicts = {"ran", "refused", "failed"}
  StdoutMax = 1
  MaxChunks = 1
INVARIANT ErrorHasCause
PROPERTIES LossWakesRequest DeadSocketIsReclaimed EveryRequestIsAnswered
