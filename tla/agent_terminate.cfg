SPECIFICATION FairSpec
CONSTANTS
  Execs = {e1}
  Transfers = {}
  TaskIds = {e1}
  TaskOf <- FreshIds
  None = None
  MaxConcurrent = 1
  MaxRetries = 2
  MaxConns = 2
PROPERTY TerminateEndsRun
CHECK_DEADLOCK FALSE
