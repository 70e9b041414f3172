SPECIFICATION FairSpec
CONSTANTS
  h1 = h1  i1 = i1  i2 = i2  a1 = a1  a2 = a2  b1 = b1  l1 = l1  t1 = t1  t2 = t2
  Hosts = {h1}
  Installs = {i1, i2}
  HostOf <- MCHostOf
  Attempts = {a1, a2, b1, l1}
  InstallOf <- MCInstallOf
  Legacy = {l1}
  Tokens = {t1, t2}
  TokenOf <- MCTokenOf
  Reusable = {t1}
  None = None
  MaxFaults = 1
  MaxAdmin = 1
INVARIANTS TypeOK UsesCoverEnrolments HolderIsOnFile RefusalHasCause
PROPERTY AloneAttemptSucceeds
CHECK_DEADLOCK FALSE
