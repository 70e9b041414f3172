SPECIFICATION FairSpec
CONSTANTS
  Execs = {e1, e2}
  Transfers = {f1}
  TaskIds = {e1, e2}
  TaskOf <- FreshIds
  None = None
  MaxConcurrent = 1
  MaxRetries = 2
  MaxConns = 2
INVARIANTS
  TypeOK
  SlotsAreHeld
  RegisteredIsCancellable
  CancelIsExact
PROPERTIES
  RevokedIsFinal
  AgentKeepsPromise
  EveryTaskEnds
CHECK_DEADLOCK FALSE
