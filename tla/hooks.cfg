SPECIFICATION FairSpec
CONSTANTS
  up = up  down = down  a = a  b = b  e1 = e1  e2 = e2
  Events = {e1, e2}
  Kinds = {up, down}
  KindOf <- MCKindOf
  Configs = {a, b}
  Hooks <- MCHooks
  NoConfig = NoConfig
  Invalid = Invalid
  None = None
  QueueSize = 1
  Edits <- MCEdits
  MaxActions = 2
  LogFails = TRUE
INVARIANTS TypeOK HookOfItsTime SighupTakesEffect
PROPERTIES RowTellsAttempts EveryEventEnds
CHECK_DEADLOCK FALSE
